# Angerona: a TLA+ development of its lifecycle, event and delivery core

Angerona is a desktop security workbench in Python (`src/src/angerona`). A GUI or
headless process discovers about ninety capability modules, runs each in a worker
thread, collects their events on one in-process bus, and exports those events
through outboxes on disk to a SIEM server or to another Angerona host. This
directory models the parts where threads, processes and connections interact, checks
them with TLC on small instances, and proves every safety property of them, and the refinement of
an abstract contract, with TLAPS for every instance. Source paths below are relative to
`src/src/angerona/`.

## 1. Inventory

| Component | State it keeps | Operations | What makes it correct |
|---|---|---|---|
| Module lifecycle, `core/module_base.py` | worker thread and its stop event, generation, lifecycle serial, pending restart, restart waiter, status, cycle evidence | `start`, `stop`, `restart_if_generation`, `restart_faulted_generation`, `_await_stopped_generation`, `_wrapped_run`, watchdog snapshot | one worker at a time, one worker per request, a stop is final and takes effect, a restart is carried out |
| Module supervisor, `core/module_manager.py` | selection, runtime flags, control generation, integrity pause and hold list | `start_enabled`, `start_if_enabled`, `set_enabled`, `pause_for_ugcap`, `resume_after_ugcap`, `restart_module_generation`, `stop_all` | off means quiet; a selected worker is never forgotten; nothing starts behind a closed gate |
| Watchdog monitor, `modules/watchdog_monitor.py` | restart attempts, backoff, stability window per module | `_sweep` | bounded restarts; none brings back what was switched off meanwhile; a lasting fault is answered |
| Event bus, `core/eventbus.py` | recent ring, priority ring, two revisions, subscribers | `publish`, `subscribe`, `unsubscribe`, `records_since`, `priority_records_since` | a cursor read is exact or says that it is not; HIGH events outlive noise; each registered callback hears each event once |
| Durable outbox, `core/durable_outbox.py` | one SQLite row per item: state, attempts, lease, next attempt | `enqueue`, `enqueue_many`, `claim`, `acknowledge`, `retry`, `is_delivered`, `complete_pending`, pruning | delivered only if the transport took it, exclusive leases, settled stays settled, bounded retention |
| SIEM forwarder, `modules/siem_forwarder.py` | bus cursor, outbox, lease owner of the process | stage the bus delta, drain the outbox, gap receipts | no selected event is lost silently; the cursor and every staged item make progress |
| Remote bridge, `modules/remote_bridge.py` | sender outbox, receiver inbox, one helper thread per connection | drain, forward over one connection, republish on the receiver's bus | nothing vanishes between the two disks; deduplication |
| AV telemetry bridge, `modules/av_telemetry_bridge.py` | a third outbox | as the SIEM forwarder | as the SIEM forwarder |
| Process supervision, `resilience/supervisor.py`, `watchdog.py`, `manager.py`, `heartbeat.py`, `shutdown_token.py` | per supervisor: the component record, its child, failures, backoff, SAFE_MODE, the persisted record; shared: heartbeat, spawn lock, stand-down token, restart request | `start`, `tick`, `_spawn_locked`, `_terminate`, `try_claim_spawn`, `release_spawn`, `request_restart`, `stop` | launches exclude each other, a second instance has a known cause, crash loops end in SAFE_MODE, a stand-down wins |
| IPC ring, `resilience/ipc_ring.py`, `scanner.py`, `manager.py` | write and read position, drop counter and slots in a mapped file | `write`, `backpressure`, `read_batch` | positions stay in order, the newest frames survive, losses are counted, a replay only of what was made before a read position was set back |
| Flight recorder, `core/storage.py`, `core/recorder_*.py` | write queue, SQLite ledger, integrity epochs | enqueue, flush, retention, epoch change | order, bounded loss, chain of custody |
| Response governance, `modules/soar_engine.py`, `core/response_*.py`, `core/*_lease.py` | approvals, capabilities, active leases, remediation log | propose, approve, execute, expire, roll back | no action without a live approval, each lease is undone |
| Source activation, `core/source_activation*.py`, `updater/` | staged trees, journal | stage, verify, switch, roll back | a crash leaves a complete old or new tree |
| Fleet, `core/fleet_*.py` | hosts, credentials, jobs, hunts | enroll, lease a job, report | each job is done under one lease |
| Startup, backup, detections, cases, pacing, GUI, platform code | files, databases, measurements | sequential I/O | see `PROJECT.json`, "components" |

How they interact. The supervisor calls the lifecycle methods of a module under its
control lock; the watchdog module calls back into the supervisor from its own worker.
Workers publish on the bus, which calls its subscribers inline and keeps rings that
polling modules read with a cursor. The SIEM forwarder and the bridge's sender are
such polling modules: they copy bus events to an outbox, and drain the outbox to a
server. The bridge's receiver republishes on the bus of the other host. Apart from that, a
telemetry scanner runs as a process of its own and hands raw frames to the core through the
shared-memory ring; the core and a peer watchdog process both supervise it and coordinate through
files only: its heartbeat, a spawn lock, a stand-down token and restart requests.

The hard parts are (a) lifecycle calls which leave their lock to join a thread,
(b) decisions made in one critical section and carried out in a later one,
(c) bounded rings read by cursors, (d) several commits between reading a delta and
advancing the cursor, (e) leases, retries, lost answers and process deaths around the
outboxes, (f) helpers that go on after their caller has given up, (g) memory and lock
files shared by processes without any lock of the operating system's. `PROJECT.json` lists
each hazard with its line and the properties that catch it.

## 2. Modules

| Module | Models | Built on |
|---|---|---|
| `ModuleLifecycle` | `BaseModule`'s lifecycle of one worker, its callers and its waiter | |
| `ModuleManager` | `ModuleManager`'s authority over that worker, with the watchdog's calls | `ModuleLifecycle` |
| `EventRings` | the two rings, their revisions and the incremental reads | |
| `EventBus` | publication and delivery by concurrent threads | `EventRings` |
| `DurableOutbox` | every operation on the outbox table | |
| `OutboxClients` | exporters that share one outbox | `DurableOutbox` |
| `ExportContract` | abstract: what becomes of one exported event | |
| `SiemForwarder` (`MCSiemForwarder`) | the forwarder's cycle between bus and outbox, with crashes | `EventRings`, `DurableOutbox`; implements `ExportContract` |
| `RemoteBridge` | sender, connections, receiver helpers and inbox | `DurableOutbox` twice: EXTENDS for the sender, INSTANCE for the inbox |
| `WatchdogMonitor` (`MCWatchdog`) | the watchdog capability's sweeps: sample, budget, backoff, restart | `ModuleManager` |
| `IpcRing` | producer and consumer of the shared-memory ring, one memory access per step | |
| `ProcessSupervision` (`MCSupervision`) | two supervisors of one heartbeat component, and the component | |
| `ModuleManagerProofs` | theorems about the lifecycle, the manager and the watchdog | `WatchdogMonitor` |
| `EventRingsProofs`, `EventBusProofs` | theorems about the rings and their reads, and about delivery | `EventRings`, `EventBus` |
| `DurableOutboxProofs` | what each operation of the outbox does and preserves | `DurableOutbox` |
| `OutboxClientsProofs` | theorems about several exporters and about the bridge | `OutboxClients`, `RemoteBridge` |
| `SiemForwarderProofs` | theorems about the forwarder, and that it implements `ExportContract` | `SiemForwarder` |
| `IpcRingProofs`, `ProcessSupervisionProofs` | theorems | the module they are named after |

Every module states one type invariant next to its variables.

### ModuleLifecycle

Each critical section of `_lifecycle_lock` is one action, so that everything can happen
between the two sections of a call: `StartDeferred` and `RestartGeneration` are the first
section, `FinishCall` the one after the bounded join (the join may end before or
after the thread does, so `FinishCall` is always enabled). `gen` is both the
generation counter and the name of the current thread; `phase[g]` is where thread `g` is in
`_wrapped_run` (`DelayEnds`: without a stagger delay the stop event is not looked at before the first `run()`);
`request` holds the serial of the pending restart; `waiter` the
generation whose thread the restart waiter joins. Status writes of the worker are
separate steps because the worker takes no lifecycle lock. `DeadlinePasses` stands for
the watchdog deadline; health values and texts are left out. Constants: `Callers`, and the bounds
`MaxActions` (accepted lifecycle actions, hence generations) and `MaxAttempts` (`_MAX_RESTARTS`).

### ModuleManager

Extends the lifecycle with the supervisor's state. `ctl` is the holder of
`_module_control_lock`, which is kept over a lifecycle call's join
(`ManagedCallReturns` releases it); `gate` is the holder of the resume lock. What an
operation decides in one section and does in a later one (`start_enabled` passes, deferred
starts, resuming) is `job[c]` with the control generation it saw. `MaxControls` bounds the control
generation. One ordinary worker is modelled; the exempt modules (integrity guard,
Chill-paused, optional policy), discovery and configuration are not. `excused` is a history
variable: an operator's veto or Eco mode decided against the worker.

### EventRings, EventBus

`ring` holds events, `priorityRing` entries with both revisions, as in the code;
`published` is history. `RecordsSince` and `PriorityRecordsSince` are the reads, newest
first, with the overflow flag. `Publish` is the locked half of `_deliver` and copies the
subscribers; every `Callback` is a step of its own. Signatures, mesh admission and timing
statistics are left out.

### DurableOutbox, OutboxClients

Every operation is one SQLite transaction under the object's lock and one action.
`rows[i]` is the row or `NoRow`. Time is not a number: `waiting` holds the ids whose
`next_attempt` is in the future and `lapsed` the leases that have run out, and `BackoffElapses`
and `LeaseLapses` move them; every order of these moments is thus possible. `hand[o]`
is what owner `o` has claimed and not settled; between `Send` (the transport took it) and
`Acknowledge` anything may happen. `claim` returns the oldest leased rows of its owner up to its limit,
including those of an earlier claim, as the code does. Byte quotas, signatures
and the integrity checks are left out. `OutboxClients` runs several owners on one table, with
deaths that drop their hand.

### SiemForwarder

`pc` follows the worker through `_delivery_cycle`; `toStage` and `single` are the entries of the
delta not staged yet and the chunk being stored item by item after `OutboxFull`. The
forwarder's own events (the alarm of a failed cycle) are published on the same bus
and filtered by the code's self-check. The "online" notice `run` publishes before it enrolls its cursor is an event
nobody selects and changes the rings like `Publish` with a low severity just before `Start`; it has no action of its own. A `Crash` loses the bus and the cursor and starts a new
life with another lease owner; a gap receipt's id is a function of the revision, as in the
code. `Fate` maps the state to `ExportContract`.

### RemoteBridge

The sender holds at most one connection (`call`); the helper that serves it goes through
`_republish` step by step: `Look` (`is_delivered`), `Keep` (`enqueue`) or `Refuse` (a full inbox),
`Publish`, `Complete` (`complete_pending`), `Answer`. `GiveUp` is the sender's time-out and every other end of
a connection without an answer; the helper goes on. `ReceiverFault` is a failing
helper, or all of them at a death of the receiver. Handshake, encryption and
redaction end a connection without an answer at worst. Staging is one step (`Stage`), because
`SiemForwarder` models the same code in detail. `excuse` records why an id may be
published twice: two helpers at once, a fault after the publication, a pruned tombstone.

### WatchdogMonitor

A sweep takes three looks at a worker with everything else in between, and each is an action: is
it selected (`LookDisabled`, `LookEnabled`), how is it (`SampleUnavailable`, `SampleHealthy`, `SampleFault`,
`SampleExhausted`), and the manager's decision (`AskAccepted`, `AskRefused`). `debt` is the worker's
`_RestartState`; the attempt is charged in `SampleFault`, before the call. `AskReturns` is the end of the
lifecycle call under the control lock. Of the backoff (8, 30, 120 s) and the stability window (300 s) only
their ends are kept, at any moment (`BackoffPasses`, `WindowPasses`). `spent` and `quiet` are history: the
restarts accepted, and what the sweeps themselves have seen since the last fault. A snapshot of another
generation than the one a restart hits cannot be told apart by the watchdog; the comparison under the
worker's lock is `RestartFaultedGeneration` of `ModuleLifecycle`. Every other caller takes every step of the manager
(`Others`): start-up, selection, the UGCAP gate, the shutdown. The watchdog's own thread is stopped by the gate and the
shutdown too (`WatchdogUp`); a sweep that is under way then goes on, as it does in the code.

### IpcRing

The header and the slots are variables both processes reach; `writer` and `reader` hold what each has read
into local variables. `struct.pack_into` clears the bytes it fills before it fills them, so the store of a position
or of the drop counter is two steps (`ClearRead`/`AdvanceRead`, `ClearDrops`/`StoreDrops`, `ClearWrite`/`AdvanceWrite`,
`EndScan`/`StoreRead`) and the other side, or the next scanner, may read 0 in between. An overrun is the store of the read position
and then that of the counter; a record too large for its slot is the latter alone (`Oversize`). A slot is taken to be unreadable from the
first byte of length or record that differs from the old one (`ClearSlot`) to the last one (`FillSlot`). The HMAC binds a
record to its sequence number: `Authentic`. Reading the header is one copy. The scanner's loop around `write` (`HostLoop`,
`SampleOut`, `EndBurst`) and the core's loop around `read_batch` (`Publish`) belong to the module, because a
header the check of `backpressure` refuses ends the scanner. `KillScanner` and `KillCore` strike between any two steps; the
file survives. History: `fell` are the frames a killed process had in hand, `uncounted` what a killed scanner was about to add to the
drop counter or had cleared from it, and `rewound` the newest frame made when a read position was last set back. Creating and validating the file, the key and the payload schema are left out.

### ProcessSupervision

`pc[s]` is where supervisor `s` is in its tick and in `_spawn_locked`: `claim`, `steal` (a stale lock is removed by name in a
second step), `check` (the look under the lock), `launch`, `arm` (the look at the stand-down after the launch). A supervisor's own
lifecycle lock makes its tick sequential, but between two accesses to the shared files the other supervisor, the
component and the release threads act. `mem[s]` is the `Component`, `disk[s]` what its `RecoveryStateStore` holds; every save may
fail. `releasing[s]` is the thread that frees the spawn lock. Time limits (heartbeat age, backoff, SAFE_MODE cooldown, the ages of the
lock, the five seconds of `_release_when_up`) are actions enabled whenever the limit runs; only the lock's ttl, 15 s, running out
on a supervisor that is still inside counts as a fault. `excuse`, `late` and `credit` are history. Left out: signatures, the BlackBox
probe, wildcard requests, several components (their records are independent), status reports and diagnostics. A heartbeat is
read in one step, although another process writes the block in place: a torn one would read as missing for that look.

## 3. Runs

| Run | Question | Result |
|---|---|---|
| `lifecycle` | two callers, waiter and worker in any order: generations, requests, stops and restarts | holds |
| `lifecycle_lost_restart` | is *every* deferred restart carried out, as the docstring of `start()` says? | violated, finding 1 |
| `manager_safety` | does off win over everything under way, and does a selected worker stay somebody's business? | holds |
| `manager_liveness` | does a worker that a pause or shutdown took down come back? | holds |
| `bus` | exact cursor reads, HIGH over noise, one call per registered callback | holds |
| `outbox` | two exporters on one table, lapsing leases, failures, a death | holds |
| `siem` | no silent loss, refinement of `ExportContract`, progress of cursor and items | holds |
| `bridge` | nothing vanishes; each duplicate has a cause; inbox rows complete | holds |
| `watchdog` | does the restart budget hold, does a late restart ever bring back a worker that was switched off, is a lasting fault answered? | holds |
| `ring` | order of positions, survival of the newest, accounting of losses, replays, progress, with kills | holds |
| `supervision` | exclusion by the spawn lock, causes of duplicates, stand-down, charging of relaunches | holds |
| `supervision_duplicates` | is there never a second instance while nothing fails? | violated, finding 2 |

Findings.

1. `_ensure_restart_waiter_locked` returns when any waiter is alive, also one that joins an
   older thread and is about to leave. The restart it was needed for is never carried out and
   the module stays in "restarting". `RestartCompletes` in the run `lifecycle` states what does hold: the
   promise is kept as long as no waiter of an earlier generation is still around.
2. `_release_when_up` frees the spawn lock five seconds after a launch, while a component has 180 s
   for its first heartbeat. The pending launch is known to the launching supervisor only, so the
   peer finds neither a lock nor a running component and launches a second instance.
   `DuplicatesAreExplained` states what does hold.

Disagreements between code and comments that are not kept as runs, because one reading of the code shows them:

* `pause_for_ugcap` stops and holds workers that are "running" or "starting". One that is
  "restarting" is neither stopped nor held and starts behind the closed gate.
* `_deliver` numbers events under the lock and calls subscribers outside it: two
  publishers, or a callback that publishes, hand a subscriber the later event first.
* The id of a gap receipt repeats after a restart of the process and its payload does not name the
  gap: the second receipt is dropped as a replay.
* `_republish` looks for a tombstone, then publishes, then writes it. A time-out plus a
  retry puts two helpers between the two, and the event is published twice; the
  second `complete_pending` raises.
* The ring's comment has "stale/replayed" frames discarded. A frame is stale only for another sequence number: when the
  reader ends its batch after the writer's overrun correction, or the correction was computed from an old position, the read
  position moves back and frames that are still in their slots are published again. `ReplayOnlyAfterRewind` states which.
* "Lapping the consumer" is documented as overwriting the oldest frame and counting a drop. These are two stores
  (`ipc_ring.py:550` and `:551`): a scanner killed in between loses the frame uncounted, and one killed inside the store of the counter
  (`:563`) leaves it at 0. `LossIsCounted` states that no more than this is missing.
* A position of 0 read in the middle of a store looks like a corrupt header to the consumer (an alarm without cause)
  and like a lap to the producer (a drop that was none). A scanner killed inside the store of the write position leaves a header
  with which no later scanner can run, since `backpressure` raises as long as the read position is ahead (`broken` in the model).
* The peer that is refused the spawn lock is charged no launch, but it charges a failure of its own: two supervisors
  count one death twice, and each has its own SAFE_MODE. `_start_locked` ignores a persisted backoff, so a crash of a
  supervisor buys one launch without charge, which `CrashLoopIsCharged` allows for.
* A restart request that arrives during a stand-down is consumed and not acted on.
* The watchdog charges attempts that the manager refuses, so a terminal alert is possible without a single restart; after
  it, a later fault within the stability window is neither restarted nor reported again. `FaultIsAnswered` counts the alert as the answer.

Others met on the way. A generation-checked restart overrides
a `stop()` made between snapshot and restart, because a stop does not change the generation; the
supervisor closes the gap by asking `is_enabled` under its lock. The worker may overwrite the status
"stopped" with "running" or "error" (the tests expect "stopped"); `StoppedMeansSignalled` states the
direction that holds. `start_enabled` may take the first-cycle evidence of the generation being replaced.
An item "retried until acknowledged" becomes a dead letter after 12 attempts, and
nothing purges dead letters, which count towards capacity: hence the proviso `Clogged` in `CursorCatchesUp`.

### Bounds, and why they are enough

* `lifecycle`: two callers, four accepted actions, two attempts. Four actions are a start, a restart that overtakes
  it, a stop and a start, with a caller and a waiter in flight at the same time; a third caller
  would only repeat one of the two sections of the others. The watchdog may take a
  snapshot at any time, so no state is without a successor; that calls get on is what the liveness properties say.
* `manager_*`: two operator threads (in `manager_safety` the second is also the watchdog), three accepted
  lifecycle actions and two control generations, which is what a `start_enabled` overtaken by a
  `stop_all` needs. A suite at rest may stop, hence no deadlock check. The worker crashes at most once.
* `bus`: two publishers, two subscribers, rings of 2 and 1, three events: both rings overflow,
  separately and together.
* `outbox`: two items, two owners, a claim limit of two, two attempts, one tombstone, one death: leases lapse in
  use, an item reaches its last attempt, a tombstone is pruned. Capacity does not bind here; it does in `siem`.
* `siem`: rings of one, an outbox of one item, two events of others plus the forwarder's own alarms,
  chunks of two, one failed cycle or stop, one crash. So deltas overflow, chunks are refused and stored
  singly, leases outlive their process, and dead letters clog the outbox. `Tombstones` exceeds the delta: with
  fewer, a partly staged delta is re-sent for ever, which the shipped limits (10,000 tombstones against rings of 500) exclude.
* `bridge`: two events, two helpers, an inbox of one row and one tombstone, two
  attempts, one fault which may be a death on either side. A retry can meet the helper of
  the attempt before it; a third helper would repeat the second.
* `watchdog`: one operator and the watchdog, two restarts, one attempt of the worker's own, four lifecycle
  actions, one control generation: the budget runs out, and restarts race start-up, the gate, a disable, a stop of everything and the worker's
  own crash. `FewOrders` of `MCWatchdog` bounds the combinations: a started suite has three of the four actions (start, restart, stop), a
  closed gate or a thread on its way to a start comes after two at most, and `excused` stays false. The theorems have no such bound.
* `ring`: two slots, a batch of two, four frames, one kill of each process: the producer laps the consumer twice, which
  every one of the race conditions above needs at most once. Positions stay below 256, so a half-stored one is 0.
* `supervision`: both supervisors, three processes, two failures to SAFE_MODE; one stand-down, combined with one event (any fault, a
  restart request, or the end of the stand-down). Two processes make a duplicate, the third is a relaunch after one.
  `OwnsTree` is the platform's answer; the run takes the one in which handles and adopted processes differ. The supervisors are
  interchangeable, and no property names one: symmetry is sound, and no liveness is checked under it.

`CHECK_DEADLOCK FALSE` is given where bounded inputs run out and the system may rest.

### Fairness

* Lifecycle: threads are scheduled (weak fairness of the second section of a call, the waiter and the
  worker's own bookkeeping). `run()` is only assumed to return once its stop event is set:
  the module contract is a loop over `BaseModule.sleep`, which returns at once then.
* Manager: an operation that was begun goes on; strong fairness of `StartCurrent` says that a thread
  that keeps asking for the control lock gets it.
* Bus: a publisher finishes its loop, since callbacks are bounded hand-offs by contract.
* Outbox: exporters keep polling, time passes; strong fairness of `Settle` stands for
  lease (30 s) > send (5 s): an exporter that gets a batch again and again settles an item before its lease lapses.
* SIEM: weak fairness of the worker, of starting it again and of time. Sends may fail for ever.
* Watchdog: the sweep loop goes on while the gate is open and the suite not shut down, backoffs end, and strong fairness says that neither the lifecycle lock nor the
  control lock is found taken for ever. Nothing is assumed of the operator, and nothing of the worker.
* Ring: the drain loop goes on, a started write is finished by a scanner that lives, and killed processes are started again by
  their supervisor. Sensors may fall silent at any time.
* Process supervision: no liveness is stated, since every respawn depends on deadlines and on faults that may recur.
* Bridge: weak fairness of "some step of either process, or time". Nothing is assumed of the
  network: every connection may fail.

Each property has a mutant in `PROJECT.json`: an operator next to the one it replaces (for instance
`StoreTooLow`, `SingleCheck`, `StopKeepsRequest`), with the plausible mistake the property is there for.

## 4. Theorems

All are proved by TLAPS for arbitrary constants that satisfy the assumptions named in the modules
(positive bounds, finite sets of ids, ...).

Every invariant and every action property that a run checks is a theorem, and so is the one
refinement. `IInv` and the like are the inductive invariants; what they add to the properties is the reason these hold.

**Lifecycle, manager, watchdog** (`ModuleManagerProofs`).

* `TypeCorrect`, `NoOverlap` (OneLiveGeneration), `StoppedHonest` (StoppedMeansSignalled), `SpawnOnce` (OneSpawnPerAction),
  `StopIsFinal` (NoRevivalAfterStop). `IInv` adds three facts none of them contains: every generation before the current one has
  ended and none after it exists (`GenerationOrder`), a pending request is newer than the generation it replaces and never
  follows a stop (`RequestFresh`), and a worker waiting for another attempt has one left (`AttemptsLeft`).
* `ManagerUsesTheApi`: each step of the manager is a step of `ModuleLifecycle` or none, so `MSpec => Spec`, and the theorems above
  hold under the manager. `OffHolds` and `ForgottenHolds` (OffMeansQuiet, NoForgottenWorker) are inductive together with the manager's
  types and with `RequestHasGeneration`; the case that needs care is the pass of `start_enabled` that goes on after a
  `stop_all`, which the control generation in `job[c]` stops. `ManagerTypeCorrect` is the manager's type invariant.
* `BudgetIsKept` (BudgetHolds): `BudgetInv` says that the code's stability window is the one the sweeps have seen, and that an accepted
  restart was charged before it was asked for. `WatchdogUsesTheApi` and `WatchdogRespectsOff` carry the results on the lifecycle and the
  manager over to the watchdog's specification, in which every other caller does all the manager offers; `WatchdogIdle` (no call of the
  watchdog is under way between its restart calls) is what that takes. `RevivesSelected` (RevivesOnlyTheSelected) follows from their
  invariant: a spawn by a call or by the waiter serves a pending request, and while the worker is off there is none.

**Bus** (`EventRingsProofs`, `EventBusProofs`). The rings are described by what they are the end of: the general ring is the end of
the published stream (`RingIsSuffix`), the priority ring the end of the lane's own numbering, each entry with the event published at its
revision (`LaneIsSuffix`). From these two follow `DeltaHolds`, `SeriousHolds` and `LaneHolds` (DeltaIsExact, SeriousOutlivesNoise,
PriorityLaneIsExact), for rings of any size. `HeardHolds` (HeardAtMostOnce) rests on `DeliveryInv`: no list of callbacks, copies
included, has a callback twice, no two publishers deliver the same revision, and what is still to be called was not called yet.

**Outbox and exporters** (`DurableOutboxProofs`, `OutboxClientsProofs`). The first module proves what each *operation* does to each row
(`RowStep`) and that it preserves `OutboxInv`, whoever calls. `RowsSound` and `AcceptedWasTaken` are the strengthening: a queued row has
attempts left, and an exporter acknowledges only what the transport took. The second applies it to several exporters: `TypeCorrect`,
`RetentionHolds`, `DeliveredHolds`, `SettledHolds`, `LeaseHolds`.

**Bridge** (`OutboxClientsProofs`).

* `NothingVanishesHolds`: the invariant follows a publication back from the sender's tombstone to the answer it rests
  on (`TakenPublished`), to the helper that sent it (`CallIsServed`, `HelperPublished`), to the row that helper saw or completed
  (`InboxPublished`). `StagedKept` is the rest: a row leaves the sender's table only after its item was taken.
* `DuplicatesHold` (DuplicatesAreExplained): as long as an event has no excuse (`Sole`), one helper at most works on it, the inbox row is
  pending for that helper alone, and once the event is published its tombstone is there or its helper is about to write it.

**SIEM forwarder** (`SiemForwarderProofs`).

* `NoSilentLossHolds`, `CommittedHolds`, `LeasedHolds`, `RetentionHolds` and `TypeCorrect`, from one invariant `SInv`. What it adds is
  `DeltaIsCovered` (while a delta is staged, each selected event up to where it was read is committed or still to be staged,
  or the delta has a gap) and `OnlyTheLivingHold` (a batch belongs to the process that runs). The outbox part
  reuses the lemmas on its operations, the read of the bus those on the rings.
* `RefinementHolds`: `Spec => ImplementsContract`. `RefInv` is what the mapping needs beyond `SInv`: an event has one revision, those after
  the cursor are not covered by a receipt, an eligible one is selected and was published while the cursor was enrolled
  (`StreamOK`); nothing is stored before it is born (`StoredOK`); what is about to be staged is on the bus, not yet passed
  (`StagingOK`). Then a publication is `Publish` of the contract, a commit of a chunk is `Persist` of the volatile events in it, the
  cursor's commit is `ReportGap` (of no event, if the delta had no gap: they are all committed), a send is `Deliver`, a last failed
  attempt is `GiveUp`, a crash is `ProcessDies`, and every other step is a stutter (`QuietSteps`). `FateFrame` is the lemma that all of
  these use: what an event's fate depends on.
* `NothingForgotten`, by way of the contract: until the process dies no event of interest is off the bus without being
  committed, settled or reported, through failed cycles, stops, full outboxes and overflows.

**IPC ring** (`IpcRingProofs`), for any number of slots, batch, frames and kills. The theorems are about the model, whose stores of a
position or of the drop counter have one intermediate value, 0. That is exact below 256; a larger value passes through further ones (its low
bytes), all of them smaller than itself, and these are not modelled.

* `TypeCorrect` and `ReadBehindWriteHolds`: `WriterSound` ties the producer's local position to the header, and `ReaderSound` puts
  the position a batch ends at behind the published one; only a kill in the middle of the store of the write position breaks it.
* `ReplayHolds` (ReplayOnlyAfterRewind): of the frames made since a read position was last set back, the slot with a higher sequence
  number has the newer one (`SlotsOrdered`), and what was published, or is in the batch, lies before everything still to be read (`InOrder`,
  `TakenOnce`); so the batch takes each of them once.
* `NewestHolds` (NewestSurvives): the newest N - 1 records are intact at every moment, in the middle of a write as well, and those
  behind a read position are with the core or in the batch in its hands.
* `LossHolds` (LossIsCounted): a loss is counted *before* it happens, when the producer moves the read position off the oldest record. `Counted`
  therefore counts that record (`Doomed`) along with the frames that are gone, and takes the counter to be what it will be once a store that is under
  way has ended (`Tally`). What a kill takes from that sum is `uncounted`, and no more.

**Process supervision** (`ProcessSupervisionProofs`), for any number of supervisors, processes and faults.

* `LockExcludesHolds`: of the holders of the lock, supervisors inside it and release threads, there is one at most and the lock file
  then exists; this holds as long as no lock was taken for abandoned, and is the reason why the release thread may remove the file
  by name.
* `CrashLoopHolds` (CrashLoopIsCharged): `ChargeInv` pays for a scheduled restart with the failure that scheduled it, until the
  launch has happened. It needs that a record at the limit of failures is in SAFE_MODE, on disk as well (`SoundMemory`, `SoundDurable`).
* `StandDownKept` (StandDownHolds): a process launched under a stand-down is looked after by the supervisor in `arm`.
* `DuplicatesHold` (DuplicatesAreExplained): while nothing excuses a second instance there is at most one, and as long as the lock
  is free or was just claimed that one is seen running, so that no supervisor gets as far as a second launch (`Sole`).
* `TypeCorrect`.

Assumed are only the named assumptions on the constants, which TLC evaluates in the runs. Sizes and bounds are arbitrary positive numbers;
for `SiemForwarder` the ids are the events' numbers and the receipts' numbers after them, and the owners are the lives.

Only model-checked: everything temporal under fairness (`RestartCompletes`, `StopTakesEffect`, `WaitingWorkerReturns`,
`RegisteredIsCalled`, `RetainedIsSettled`, `CursorCatchesUp`, `CommittedIsSettled`, `InboxRowsComplete`, `FaultIsAnswered`,
`CatchesUp`), since the prover has neither `ENABLED` nor fairness. The two findings are counterexamples of TLC and not stated as theorems.

## 5. Plan

1. Done: `ModuleLifecycle`, `ModuleManager`, `WatchdogMonitor`; `EventRings`, `EventBus`; `DurableOutbox`, `OutboxClients`,
   `RemoteBridge`; `ExportContract`, `SiemForwarder`; `IpcRing`, `ProcessSupervision`.
2. Done: proofs of all their safety and action properties, and of the refinement of `ExportContract`.
3. Proofs that remain worth having: a contract for the bridge like the forwarder's (delivery over two disks as one
   queue), and the safety half of the liveness arguments (what `RestartCompletes` and `CursorCatchesUp` would decrease).
4. Further components, each a module of its own: the flight recorder's queue and epochs; response leases; source activation with
   crash recovery; fleet job leases.

## 6. Not modelled

Detection heuristics and sampling, the GUI, cryptography (signatures, HMACs, handshakes, encryption), formatting and
redaction, byte quotas, file permissions and platform calls, configuration. The integrity guard and the mesh
authority appear only through the calls they make. Each component left out is listed with its reason in `PROJECT.json`.
