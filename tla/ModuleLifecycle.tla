-------------------------- MODULE ModuleLifecycle --------------------------
(***************************************************************************)
(* The lifecycle of one capability worker: BaseModule of                   *)
(* core/module_base.py.                                                    *)
(*                                                                         *)
(* start(), stop() and the two restart calls are made by any number of     *)
(* threads (Callers).  Each holds _lifecycle_lock for a short section,     *)
(* releases it for a bounded join of the old worker thread, and takes it   *)
(* again; a section under the lock is one action here.  The join may time  *)
(* out or be skipped (a worker that restarts itself), so the second        *)
(* section is enabled at any moment after the first.                       *)
(*                                                                         *)
(* A generation is one worker thread with its own stop Event, so a thread  *)
(* is identified with the generation that created it: BaseModule._thread   *)
(* is the thread of generation gen, and gen = 0 is _thread = None.  The    *)
(* start-up delay of a generation is not modelled beyond its length being  *)
(* arbitrary.                                                              *)
(***************************************************************************)
EXTENDS Naturals, FiniteSets

CONSTANTS Callers,      \* threads that call the lifecycle API
          MaxActions,   \* bound: lifecycle actions ever accepted
          MaxAttempts   \* _MAX_RESTARTS: attempts of run() in a generation

ASSUME BoundsAssumption == /\ MaxActions \in Nat
                           /\ MaxAttempts \in Nat \ {0}

(* Every generation costs one accepted action (OneSpawnPerAction below), so *)
(* the bound on the actions also bounds the generations.                    *)
Gens == 1 .. MaxActions

(* What a worker thread is doing inside _wrapped_run. *)
Phases == {"unborn",    \* the generation does not exist yet
           "delayed",   \* in the initial stagger delay
           "running",   \* inside self.run()
           "exiting",   \* run() returned and stop was found clear
           "leaving",   \* status "error" published, last words being emitted
           "backoff",   \* waiting between two attempts
           "resuming",  \* woken with stop found clear, about to run again
           "dead"}

Statuses == {"stopped", "running", "restarting", "error"}

VARIABLES
    gen,         \* _lifecycle_generation; also names _thread
    phase,       \* phase[g]: where the thread of generation g is
    attempt,     \* attempt[g]: the loop variable of _wrapped_run
    stopped,     \* stopped[g]: the stop Event of g is set; 0 is the initial one
    serial,      \* _lifecycle_serial
    request,     \* _restart_request: its serial, or 0 for None
    waiter,      \* _restart_waiter: the generation it joins, or 0 for None
    status,      \* _status
    firstCycle,  \* _first_cycle_complete
    late,        \* the watchdog deadline of the cycle lock has passed
    call,        \* call[c]: the lifecycle call c has between its two sections
    seen,        \* seen[c]: the generation c last took a snapshot of
    last         \* ghost: the kind of the last accepted lifecycle action

vars == <<gen, phase, attempt, stopped, serial, request, waiter, status,
          firstCycle, late, call, seen, last>>

worker == <<phase, attempt>>
ghosts == <<seen, last>>

NoCall == [op |-> "none", old |-> 0, serial |-> 0]
Calls == [op : {"none", "start", "restart"},
          old : 0 .. MaxActions, serial : 0 .. MaxActions]

(* thread.is_alive() of the thread of generation g. *)
Alive(g) == g \in Gens /\ phase[g] \notin {"unborn", "dead"}

Init == /\ gen = 0
        /\ phase = [g \in Gens |-> "unborn"]
        /\ attempt = [g \in Gens |-> 0]
        /\ stopped = [g \in 0 .. MaxActions |-> FALSE]
        /\ serial = 0
        /\ request = 0
        /\ waiter = 0
        /\ status = "stopped"
        /\ firstCycle = FALSE
        /\ late = FALSE
        /\ call = [c \in Callers |-> NoCall]
        /\ seen = [c \in Callers |-> 0]
        /\ last = "none"

----------------------------------------------------------------------------
(* Lifecycle calls. *)

(* Fault: the spawn leaves the request it serves in place. *)
SpawnKeepsRequest ==
    /\ gen' = gen + 1
    /\ phase' = [phase EXCEPT ![gen + 1] = "delayed"]
    /\ firstCycle' = FALSE
    /\ late' = FALSE
    /\ status' = "running"
    /\ UNCHANGED <<attempt, stopped, request>>

(* _spawn_generation_locked: a new generation with a stop Event of its own. *)
SpawnGeneration ==
    /\ gen' = gen + 1
    /\ phase' = [phase EXCEPT ![gen + 1] = "delayed"]
    /\ firstCycle' = FALSE
    /\ late' = FALSE
    /\ request' = 0
    /\ status' = "running"
    /\ UNCHANGED <<attempt, stopped>>

(* Fault: a call that gives up joining forgets to leave a waiter behind. *)
NoRestartWaiter(old) == UNCHANGED waiter

(* _ensure_restart_waiter_locked: keeps a waiter that is still alive. *)
EnsureRestartWaiter(old) == waiter' = IF waiter # 0 THEN waiter ELSE old

(* A lifecycle action is accepted: it takes the next serial. *)
Accept(kind) == /\ serial < MaxActions
                /\ serial' = serial + 1
                /\ last' = kind

(* start() with no live worker: spawn at once. *)
StartFresh(c) ==
    /\ call[c] = NoCall
    /\ ~Alive(gen)
    /\ Accept("start")
    /\ SpawnGeneration
    /\ UNCHANGED <<waiter, call, seen>>

(* start() while the worker is still leaving: ask for a restart and join.   *)
(* start() of a live worker that was not stopped changes nothing.           *)
StartDeferred(c) ==
    /\ call[c] = NoCall
    /\ Alive(gen)
    /\ stopped[gen]
    /\ Accept("start")
    /\ request' = serial + 1
    /\ status' = "restarting"
    /\ call' = [call EXCEPT ![c] =
                    [op |-> "start", old |-> gen, serial |-> serial + 1]]
    /\ UNCHANGED <<gen, worker, stopped, waiter, firstCycle, late, seen>>

(* watchdog_fault_kind over operational_snapshot(). *)
FaultKind ==
    IF status = "error" THEN "error"
    ELSE IF status = "running" /\ ~Alive(gen) THEN "thread_exit"
    ELSE IF late /\ Alive(gen) /\ status \in {"running", "restarting"}
         THEN "deadline"
    ELSE "none"

(* try_watchdog_snapshot / lifecycle_generation: remember the generation. *)
Observe(c) ==
    /\ call[c] = NoCall
    /\ seen' = [seen EXCEPT ![c] = gen]
    /\ UNCHANGED <<gen, worker, stopped, serial, request, waiter, status,
                   firstCycle, late, call, last>>

(* First section of _restart_generation: compare the generation, in watchdog *)
(* mode compare the fault too, then signal and ask.                          *)
RestartGeneration(c, onlyIfFaulted) ==
    /\ call[c] = NoCall
    /\ gen # 0
    /\ gen = seen[c]
    /\ onlyIfFaulted => FaultKind # "none"
    /\ Accept("restart")
    /\ request' = serial + 1
    /\ stopped' = [stopped EXCEPT ![gen] = TRUE]
    /\ status' = "restarting"
    /\ call' = [call EXCEPT ![c] =
                    [op |-> "restart", old |-> gen, serial |-> serial + 1]]
    /\ UNCHANGED <<gen, worker, waiter, firstCycle, late, seen>>

RestartIfGeneration(c) == RestartGeneration(c, FALSE)
RestartFaultedGeneration(c) == RestartGeneration(c, TRUE)

(* Fault: the second section only looks at the thread, not at the serial. *)
FinishIgnoresSerial(c) ==
    /\ call[c] # NoCall
    /\ call' = [call EXCEPT ![c] = NoCall]
    /\ IF gen = call[c].old /\ ~Alive(gen)
       THEN SpawnGeneration
       ELSE UNCHANGED <<gen, worker, stopped, request, status, firstCycle, late>>
    /\ UNCHANGED <<serial, waiter, ghosts>>

(* Second section of start() and of _restart_generation: the request is      *)
(* dropped if anything newer happened, honoured if the old worker is gone,   *)
(* handed to the waiter otherwise.                                           *)
FinishCall(c) ==
    /\ call[c] # NoCall
    /\ call' = [call EXCEPT ![c] = NoCall]
    /\ LET old == call[c].old
           current == gen = old /\ request = call[c].serial IN
       \/ /\ ~current
          /\ UNCHANGED <<gen, worker, stopped, request, waiter, status,
                         firstCycle, late>>
       \/ /\ current
          /\ ~Alive(old)
          /\ SpawnGeneration
          /\ UNCHANGED waiter
       \/ /\ current
          /\ Alive(old)
          /\ EnsureRestartWaiter(old)
          /\ UNCHANGED <<gen, worker, stopped, request, status,
                         firstCycle, late>>
    /\ UNCHANGED <<serial, ghosts>>

(* Fault: the waiter does not wait for the old thread. *)
WaiterDoesNotJoin ==
    /\ waiter # 0
    /\ waiter' = 0
    /\ IF waiter = gen /\ request # 0 /\ request = serial
       THEN SpawnGeneration
       ELSE UNCHANGED <<gen, worker, stopped, request, status, firstCycle, late>>
    /\ UNCHANGED <<serial, call, ghosts>>

(* _await_stopped_generation, once its join has returned. *)
WaiterWakes ==
    /\ waiter # 0
    /\ ~Alive(waiter)
    /\ waiter' = 0
    /\ IF waiter = gen /\ request # 0 /\ request = serial
       THEN SpawnGeneration
       ELSE UNCHANGED <<gen, worker, stopped, request, status, firstCycle, late>>
    /\ UNCHANGED <<serial, call, ghosts>>

(* Fault: stop() signals the worker but leaves a pending restart. *)
StopKeepsRequest(c) ==
    /\ call[c] = NoCall
    /\ Accept("stop")
    /\ stopped' = [stopped EXCEPT ![gen] = TRUE]
    /\ status' = "stopped"
    /\ UNCHANGED <<gen, worker, request, waiter, firstCycle, late, call, seen>>

(* stop(): cancels a pending restart and does not wait. *)
Stop(c) ==
    /\ call[c] = NoCall
    /\ Accept("stop")
    /\ request' = 0
    /\ stopped' = [stopped EXCEPT ![gen] = TRUE]
    /\ status' = "stopped"
    /\ UNCHANGED <<gen, worker, waiter, firstCycle, late, call, seen>>

----------------------------------------------------------------------------
(* The worker thread: _wrapped_run of generation g. *)

WorkerOnly == UNCHANGED <<gen, stopped, serial, request, waiter, call, ghosts>>

MoveTo(g, p) == phase' = [phase EXCEPT ![g] = p]

(* The stagger delay ends, or stop() interrupts it.  A worker without one    *)
(* begins its first run() whether or not it was told to stop.               *)
DelayEnds(g) ==
    /\ phase[g] = "delayed"
    /\ \/ MoveTo(g, "running")
       \/ stopped[g] /\ MoveTo(g, "dead")
    /\ WorkerOnly /\ UNCHANGED <<attempt, status, firstCycle, late>>

(* mark_cycle_complete: one work cycle is done. *)
CycleCompletes(g) ==
    /\ phase[g] = "running"
    /\ firstCycle' = TRUE
    /\ late' = FALSE
    /\ WorkerOnly /\ UNCHANGED <<worker, status>>

(* The cycle deadline of the worker passes. *)
DeadlinePasses ==
    /\ Alive(gen)
    /\ late' = TRUE
    /\ WorkerOnly /\ UNCHANGED <<worker, status, firstCycle>>

(* run() returns: as asked when stop is set, unexpectedly otherwise. *)
RunReturns(g) ==
    /\ phase[g] = "running"
    /\ MoveTo(g, IF stopped[g] THEN "dead" ELSE "exiting")
    /\ WorkerOnly /\ UNCHANGED <<attempt, status, firstCycle, late>>

(* The unexpected return is published; stop is not looked at again. *)
PublishExit(g) ==
    /\ phase[g] = "exiting"
    /\ MoveTo(g, "leaving")
    /\ status' = "error"
    /\ WorkerOnly /\ UNCHANGED <<attempt, firstCycle, late>>

(* run() raises with attempts left: back off before the next one. *)
RunCrashes(g) ==
    /\ phase[g] = "running"
    /\ attempt[g] + 1 < MaxAttempts
    /\ MoveTo(g, "backoff")
    /\ status' = "restarting"
    /\ WorkerOnly /\ UNCHANGED <<attempt, firstCycle, late>>

(* run() raises on the last attempt: quarantine. *)
Quarantine(g) ==
    /\ phase[g] = "running"
    /\ attempt[g] + 1 = MaxAttempts
    /\ MoveTo(g, "leaving")
    /\ status' = "error"
    /\ WorkerOnly /\ UNCHANGED <<attempt, firstCycle, late>>

(* The crash snapshot and the last event are written; the thread ends. *)
ThreadEnds(g) ==
    /\ phase[g] = "leaving"
    /\ MoveTo(g, "dead")
    /\ WorkerOnly /\ UNCHANGED <<attempt, status, firstCycle, late>>

(* Fault: the back-off starts over instead of giving up when stop is set. *)
BackoffIgnoresStop(g) ==
    /\ phase[g] = "backoff"
    /\ MoveTo(g, IF stopped[g] THEN "backoff" ELSE "resuming")
    /\ WorkerOnly /\ UNCHANGED <<attempt, status, firstCycle, late>>

(* The back-off wait ends: give up if stop is set, go on otherwise. *)
BackoffEnds(g) ==
    /\ phase[g] = "backoff"
    /\ MoveTo(g, IF stopped[g] THEN "dead" ELSE "resuming")
    /\ WorkerOnly /\ UNCHANGED <<attempt, status, firstCycle, late>>

(* The next attempt is published and starts; stop is not looked at again. *)
Resume(g) ==
    /\ phase[g] = "resuming"
    /\ MoveTo(g, "running")
    /\ attempt' = [attempt EXCEPT ![g] = @ + 1]
    /\ status' = "running"
    /\ WorkerOnly /\ UNCHANGED <<firstCycle, late>>

----------------------------------------------------------------------------
WorkerStep(g) == \/ DelayEnds(g) \/ CycleCompletes(g) \/ RunReturns(g)
                 \/ PublishExit(g) \/ RunCrashes(g) \/ Quarantine(g)
                 \/ ThreadEnds(g) \/ BackoffEnds(g) \/ Resume(g)

CallerStep(c) == \/ StartFresh(c) \/ StartDeferred(c) \/ Stop(c)
                 \/ Observe(c) \/ RestartIfGeneration(c)
                 \/ RestartFaultedGeneration(c) \/ FinishCall(c)

Next == \/ \E c \in Callers : CallerStep(c)
        \/ \E g \in Gens : WorkerStep(g)
        \/ WaiterWakes
        \/ DeadlinePasses

Spec == Init /\ [][Next]_vars

(***************************************************************************)
(* Fairness.  A thread that may run does run: calls finish, the waiter is  *)
(* scheduled, and a worker leaves every phase that is not its own work.    *)
(* run() itself is only required to come back once it was told to stop:    *)
(* the loops of the capabilities wait in BaseModule.sleep, which returns   *)
(* at once when the stop Event is set.                                     *)
(***************************************************************************)
ReturnsWhenStopped(g) == stopped[g] /\ RunReturns(g)

Fairness ==
    /\ \A c \in Callers : WF_vars(FinishCall(c))
    /\ WF_vars(WaiterWakes)
    /\ \A g \in Gens : /\ WF_vars(DelayEnds(g) \/ PublishExit(g) \/ ThreadEnds(g)
                                   \/ BackoffEnds(g) \/ Resume(g))
                       /\ WF_vars(ReturnsWhenStopped(g))

FairSpec == Spec /\ Fairness

----------------------------------------------------------------------------
(* Properties. *)

(* The variables have their types. *)
TypeOK ==
    /\ gen \in 0 .. MaxActions
    /\ phase \in [Gens -> Phases]
    /\ attempt \in [Gens -> 0 .. MaxAttempts - 1]
    /\ stopped \in [0 .. MaxActions -> BOOLEAN]
    /\ serial \in 0 .. MaxActions
    /\ request \in 0 .. MaxActions
    /\ waiter \in 0 .. MaxActions
    /\ status \in Statuses
    /\ firstCycle \in BOOLEAN
    /\ late \in BOOLEAN
    /\ call \in [Callers -> Calls]
    /\ seen \in [Callers -> 0 .. MaxActions]
    /\ last \in {"none", "start", "restart", "stop"}

(* Two generations never work at the same time: whatever the order of the   *)
(* callers, the waiter and a slow exit, start() and the restart calls spawn *)
(* a generation only once its predecessor has ended.                        *)
OneLiveGeneration ==
    \A g, h \in Gens : Alive(g) /\ Alive(h) => g = h

(* A worker shown as "stopped" has been told to stop and nothing is pending *)
(* that would bring it back.                                                *)
StoppedMeansSignalled ==
    status = "stopped" /\ gen # 0 => stopped[gen] /\ request = 0

(* No generation is born when the last accepted lifecycle action was a      *)
(* stop(): a deferred start, a restart or a waiter that was overtaken by a  *)
(* stop() never brings the worker back.                                     *)
NoRevivalAfterStop == [][gen' # gen => last' # "stop"]_vars

(* No accepted action ever spawns two workers: the caller and the waiter     *)
(* never both honour one request, and a pending one has not been served.     *)
OneSpawnPerAction ==
    gen <= serial /\ (request # 0 => gen < request /\ request = serial)

(* A worker that was told to stop ends. *)
StopTakesEffect ==
    \A g \in Gens : (stopped[g] /\ Alive(g)) ~> ~Alive(g)

(* A restart that was asked for is carried out or superseded, as long as no *)
(* waiter of an earlier generation is still around when it is handed over.  *)
RestartCompletes ==
    [](waiter \in {0, gen}) => ((request # 0) ~> (request = 0))

(* The same without that proviso: the docstring of start() promises that    *)
(* "one daemon waiter starts the requested generation only after the old    *)
(* main thread [...] has exited".                                           *)
RestartAlwaysCompletes == (request # 0) ~> (request = 0)
=============================================================================
