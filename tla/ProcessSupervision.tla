-------------------------- MODULE ProcessSupervision --------------------------
(***************************************************************************)
(* One heartbeat component - the telemetry scanner - supervised by two      *)
(* processes at once, the core's ResilienceManager and the peer watchdog    *)
(* (resilience/supervisor.py, manager.py, watchdog.py).  Each of them runs  *)
(* ProcessSupervisor: a tick that assesses the component, charges failures, *)
(* backs off and respawns, under its own lifecycle lock.  What they share   *)
(* is in files: the component's heartbeat, the spawn lock, the stand-down   *)
(* token and the restart request.                                           *)
(*                                                                          *)
(* Between two accesses to those files the other supervisor, the component  *)
(* and the supervisor's own release thread may act.  A time limit of the    *)
(* code (heartbeat age, backoff, cooldown, the age of a lock, the patience  *)
(* of the release thread) is an action that may happen whenever the limit   *)
(* is running, so the properties hold for every choice of the limits.       *)
(***************************************************************************)
EXTENDS Integers, FiniteSets

CONSTANTS
    Sups,         \* the two supervisors
    MaxProcs,     \* bound: processes ever launched
    MaxFailures,  \* max_failures: failures in a window that mean SAFE_MODE
    OwnsTree,     \* spawn_detached returns an owner of the whole tree (Windows)
    MaxEvents,    \* bound: faults, restart requests and ends of a stand-down
    MaxStandDowns \* bound: stand-downs

ASSUME SupervisionAssumption ==
    /\ MaxProcs \in Nat /\ MaxEvents \in Nat /\ MaxStandDowns \in Nat
    /\ MaxFailures \in Nat \ {0}
    /\ OwnsTree \in BOOLEAN

(* Processes in the order of their launch. *)
Procs == 1..MaxProcs
None == 0

VARIABLES
    proc,       \* process -> none | booting | up | hung | dead
    beat,       \* the heartbeat file: [pid, kind]
    lock,       \* the spawn lock file: none | fresh | stale
    pc,         \* supervisor -> where it is; "down" when its process is not there
    mem,        \* supervisor -> its Component record
    disk,       \* supervisor -> what its RecoveryStateStore holds
    releasing,  \* supervisor -> a release thread of it is waiting
    standdown,  \* the stand-down token is present
    request,    \* restart.scanner.cmd is present
    spent,      \* events and stand-downs so far
    excuse,     \* history: what may let a second instance in, or has done so
    late,       \* history: processes launched during a stand-down, not yet stopped
    credit      \* history: supervisor -> failures charged minus automatic launches

vars == <<proc, beat, lock, pc, mem, disk, releasing, standdown, request, spent,
          excuse, late, credit>>

Live(p) == p # None /\ proc[p] \in {"booting", "up", "hung"}
Gone(p) == p # None /\ proc[p] = "dead"
LiveOnes == { p \in Procs : Live(p) }

Durable == [fails : 0..MaxFailures, safe : BOOLEAN, fault : BOOLEAN,
            scheduled : BOOLEAN]

Memory == [child : Procs \cup {None}, waits : BOOLEAN, died : BOOLEAN,
           starting : BOOLEAN, tick : BOOLEAN,
           fails : 0..MaxFailures, safe : BOOLEAN, fault : BOOLEAN,
           scheduled : BOOLEAN]

Kept(m) == [fails |-> m.fails, safe |-> m.safe, fault |-> m.fault, scheduled |-> m.scheduled]

(* A Component as add builds it from the durable record. *)
Loaded(d) == [child |-> None, waits |-> FALSE, died |-> FALSE, starting |-> FALSE,
              tick |-> FALSE, fails |-> d.fails, safe |-> d.safe, fault |-> d.fault,
              scheduled |-> d.scheduled]

Clean == [fails |-> 0, safe |-> FALSE, fault |-> FALSE, scheduled |-> FALSE]

PTypeOK ==
    /\ proc \in [Procs -> {"none", "booting", "up", "hung", "dead"}]
    /\ beat \in [pid : Procs \cup {None}, kind : {"missing", "fresh", "old", "stopped"}]
    /\ lock \in {"none", "fresh", "stale"}
    /\ pc \in [Sups -> {"down", "idle", "assess", "kill", "spawn", "claim", "steal", "check",
                        "launch", "arm"}]
    /\ mem \in [Sups -> Memory] /\ disk \in [Sups -> Durable]
    /\ releasing \in [Sups -> BOOLEAN]
    /\ standdown \in BOOLEAN /\ request \in BOOLEAN
    /\ spent \in [{"event", "standdown"} -> Nat]
    /\ spent["event"] <= MaxEvents /\ spent["standdown"] <= MaxStandDowns
    /\ excuse \in {"none", "unseen", "stolen"} /\ late \subseteq Procs

Init ==
    /\ proc = [p \in Procs |-> "none"]
    /\ beat = [pid |-> None, kind |-> "missing"]
    /\ lock = "none"
    /\ pc = [s \in Sups |-> "down"]
    /\ mem = [s \in Sups |-> Loaded(Clean)]
    /\ disk = [s \in Sups |-> Clean]
    /\ releasing = [s \in Sups |-> FALSE]
    /\ standdown = FALSE /\ request = FALSE
    /\ spent = [kind \in {"event", "standdown"} |-> 0]
    /\ excuse = "none" /\ late = {}
    /\ credit = [s \in Sups |-> 0]

Event ==
    /\ spent["event"] < MaxEvents
    /\ spent' = [spent EXCEPT !["event"] = @ + 1]

-----------------------------------------------------------------------------
(* What a supervisor reads.                                                 *)

(* _is_running: a fresh record of a process that still exists. *)
Running == beat.kind = "fresh" /\ Live(beat.pid)

(* classify: a counter that moved since the last look reads "alive" before  *)
(* the process behind it is looked up.                                      *)
Classified ==
    CASE beat.kind = "missing" -> {"missing"}
      [] beat.kind = "stopped" -> {"stopped"}
      [] beat.kind = "fresh"   -> IF Live(beat.pid) THEN {"alive"} ELSE {"alive", "dead"}
      [] beat.kind = "old"     -> IF Live(beat.pid) THEN {"suspended"} ELSE {"dead"}

(* The exit of the own child was seen by its waiter, or is seen now. *)
Lost(m) == m.died \/ Gone(m.child)

(* _assess: the own child's exit first, then the heartbeat; while the own   *)
(* launch has not been seen alive only an exit counts.                      *)
Assess(m) ==
    IF m.died \/ (m.starting /\ Gone(m.child)) THEN {"dead"}
    ELSE IF m.starting
    THEN { IF c = "alive" THEN "alive" ELSE "starting" : c \in Classified }
    ELSE { IF c = "missing" THEN "dead" ELSE c : c \in Classified }

(* _decay, with any number of failures older than the window. *)
Decayed(m) ==
    { [m EXCEPT !.fails = k, !.safe = @ /\ (m.fault \/ k # 0)] : k \in 0..m.fails }

-----------------------------------------------------------------------------
(* What a supervisor does to its own record.                                *)

Idle(s, m) ==
    /\ pc' = [pc EXCEPT ![s] = "idle"]
    /\ mem' = [mem EXCEPT ![s] = m]

GoOn(s, label, m) ==
    /\ pc' = [pc EXCEPT ![s] = label]
    /\ mem' = [mem EXCEPT ![s] = m]

(* _persist, which may fail. *)
Saved(s, m) == disk' = [disk EXCEPT ![s] = Kept(m)] /\ UNCHANGED spent
SaveFails == UNCHANGED disk /\ Event
Save(s, m) == Saved(s, m) \/ (Kept(m) # disk[s] /\ SaveFails)
Unsaved == UNCHANGED <<disk, spent>>

(* Fault: the backoff that was served is not cleared. *)
SettledKeepsBackoff(m) == [m EXCEPT !.tick = FALSE]

(* _spawn returned: on the respawn path the backoff is over, whatever came  *)
(* of it; a start leaves the record alone.                                  *)
Settled(m) == IF m.tick THEN [m EXCEPT !.scheduled = FALSE, !.tick = FALSE] ELSE m

Settle(s, m) ==
    /\ Idle(s, Settled(m))
    /\ IF m.tick THEN Save(s, Settled(m)) ELSE Unsaved

Blocked == standdown

(* What is left of a supervisor is its record, which may be a launch behind. *)
Reloaded(s) ==
    IF disk[s] # Kept(mem[s]) \/ pc[s] = "arm" THEN [credit EXCEPT ![s] = 1] ELSE credit

-----------------------------------------------------------------------------
(* One tick.                                                                *)

TickVars == <<proc, beat, lock, releasing, standdown, excuse, late>>

(* A tick during a stand-down consumes the restart request and does no more. *)
TickStoodDown(s) ==
    /\ pc[s] = "idle" /\ standdown /\ request
    /\ request' = FALSE
    /\ UNCHANGED <<pc, mem, disk, TickVars, spent, credit>>

(* The owner of the supervisor sees the token and stops it, children left   *)
(* running; its process, and with it the release threads, may live on.      *)
StandDown(s) ==
    /\ pc[s] = "idle" /\ standdown
    /\ pc' = [pc EXCEPT ![s] = "down"]
    /\ mem' = [mem EXCEPT ![s] = Loaded(disk[s])]
    /\ \E lives \in {FALSE, releasing[s]} : releasing' = [releasing EXCEPT ![s] = lives]
    /\ credit' = Reloaded(s)
    /\ UNCHANGED <<proc, beat, lock, disk, standdown, request, spent, excuse, late>>

TickRestart(s) ==
    /\ pc[s] = "idle" /\ ~standdown /\ request
    /\ request' = FALSE
    /\ LET m == [mem[s] EXCEPT !.safe = FALSE, !.fault = FALSE, !.fails = 0,
                               !.scheduled = FALSE, !.tick = FALSE]
       IN  GoOn(s, "kill", m) /\ Save(s, m)
    /\ UNCHANGED <<TickVars, credit>>

(* A failure is charged and written before any respawn; a record that       *)
(* cannot be written stops the respawns.                                    *)
Charge(s, m) ==
    \E older \in 0..m.fails :
        LET n == older + 1
            charged == [m EXCEPT !.fails = n]
            brake == [charged EXCEPT !.safe = TRUE, !.scheduled = FALSE]
            wait == [charged EXCEPT !.scheduled = TRUE]
            stuck == [wait EXCEPT !.safe = TRUE, !.fault = TRUE]
        IN  /\ credit' = [credit EXCEPT ![s] = IF @ < 1 THEN @ + 1 ELSE @]
            /\ \/ n >= MaxFailures /\ Idle(s, brake) /\ Save(s, brake)
               \/ n < MaxFailures /\ Idle(s, wait) /\ Saved(s, wait)
               \/ n < MaxFailures /\ Idle(s, stuck) /\ SaveFails

(* A change of state is saved too; what it is a change from is left open.   *)
Noticed(s, m) == Saved(s, m) \/ Unsaved

Respond(s, m, state) ==
    \/ /\ state = "alive"
       /\ \E d \in Decayed([m EXCEPT !.starting = FALSE]) :
            LET healthy == [d EXCEPT !.scheduled = FALSE]
            IN  /\ Idle(s, healthy)
                /\ IF m.scheduled THEN Save(s, healthy) ELSE Noticed(s, healthy)
       /\ UNCHANGED credit
    \/ /\ state \in {"dead", "suspended"} /\ ~m.safe
       /\ IF m.scheduled
          THEN Idle(s, m) /\ Noticed(s, m) /\ UNCHANGED credit
          ELSE Charge(s, m)
    \/ /\ state \in {"starting", "stopped"} \/ (state \in {"dead", "suspended"} /\ m.safe)
       /\ Idle(s, m) /\ Noticed(s, m) /\ UNCHANGED credit

Tick(s) ==
    /\ pc[s] = "assess" \/ (pc[s] = "idle" /\ ~standdown /\ ~request)
    /\ \E state \in Assess(mem[s]) : Respond(s, mem[s], state)
    /\ UNCHANGED <<TickVars, request>>

(* A tick that finds the scheduled restart due. *)
TickDue(s) ==
    /\ pc[s] = "idle" /\ ~standdown /\ ~request
    /\ mem[s].scheduled /\ ~mem[s].safe
    /\ \E state \in Assess(mem[s]) \cap {"dead", "suspended"} :
        GoOn(s, IF state = "dead" THEN "spawn" ELSE "kill", [mem[s] EXCEPT !.tick = TRUE])
    /\ UNCHANGED <<TickVars, disk, spent, request, credit>>

(* A tick that finds the SAFE_MODE cooldown over: the component is assessed *)
(* after the cleared record was written, or could not be.                   *)
TickCooled(s) ==
    /\ pc[s] = "idle" /\ ~standdown /\ ~request
    /\ mem[s].safe /\ ~mem[s].fault
    /\ LET m == [mem[s] EXCEPT !.safe = FALSE, !.scheduled = FALSE, !.fails = 0]
       IN  GoOn(s, "assess", m) /\ Save(s, m)
    /\ UNCHANGED <<TickVars, request, credit>>

-----------------------------------------------------------------------------
(* _terminate, for a suspended component and for a manual restart.          *)

Ended(p) == proc' = [proc EXCEPT ![p] = IF Live(p) THEN "dead" ELSE @]

Terminated(m) == [m EXCEPT !.died = TRUE, !.starting = FALSE,
                           !.child = IF OwnsTree THEN None ELSE @]

(* The own child if there is a handle on it, else the process the           *)
(* heartbeat names, after its identity was confirmed.                       *)
Terminate(m, done) ==
    \/ /\ m.child # None /\ (OwnsTree \/ Live(m.child))
       /\ Ended(m.child) /\ done = Terminated(m)
    \/ /\ ~(m.child # None /\ (OwnsTree \/ Live(m.child)))
       /\ beat.kind # "missing"
       /\ IF Live(beat.pid)
          THEN Ended(beat.pid) /\ done = [m EXCEPT !.died = TRUE, !.starting = FALSE]
          ELSE UNCHANGED proc /\ done = [m EXCEPT !.starting = FALSE]

Outcomes(m) == { [m EXCEPT !.starting = FALSE], Terminated(m),
                 [m EXCEPT !.died = TRUE, !.starting = FALSE] }

KillThenSpawn(s) ==
    /\ pc[s] = "kill"
    /\ \E done \in Outcomes(mem[s]) : Terminate(mem[s], done) /\ GoOn(s, "spawn", done)
    /\ UNCHANGED <<beat, lock, disk, releasing, standdown, request, spent,
                   excuse, late, credit>>

KillFails(s) ==
    /\ pc[s] = "kill"
    /\ LET m == IF mem[s].tick
                THEN [mem[s] EXCEPT !.scheduled = TRUE, !.tick = FALSE] ELSE mem[s]
       IN  Idle(s, m) /\ IF mem[s].tick THEN Save(s, m) ELSE Unsaved
    /\ UNCHANGED <<TickVars, request, credit>>

-----------------------------------------------------------------------------
(* _spawn_locked.                                                           *)

SpawnVars == <<proc, beat, standdown, request, late, credit>>

(* Adopt what runs, wait for the own launch, or go for the lock. *)
EnterSpawn(s) ==
    LET m == mem[s]
        adopted == [m EXCEPT !.starting = FALSE, !.died = FALSE]
    IN  /\ pc[s] = "spawn"
        /\ \/ Blocked /\ Settle(s, m)
           \/ ~Blocked /\ Running /\ m.starting /\ Lost(m) /\ Settle(s, m)
           \/ /\ ~Blocked /\ Running /\ ~(m.starting /\ Lost(m))
              /\ \E d \in (IF m.starting THEN Decayed(adopted) ELSE {adopted}) : Settle(s, d)
           \/ ~Blocked /\ ~Running /\ m.starting /\ ~Lost(m) /\ Settle(s, m)
           \/ /\ ~Blocked /\ ~Running /\ (m.starting => Lost(m))
              /\ GoOn(s, "claim", [m EXCEPT !.starting = FALSE]) /\ Unsaved
        /\ UNCHANGED <<SpawnVars, lock, releasing, excuse>>

(* Fault: an existing lock is no obstacle. *)
ClaimAnyway(s) ==
    /\ pc[s] = "claim"
    /\ lock' = "fresh"
    /\ GoOn(s, "check", mem[s])
    /\ UNCHANGED <<SpawnVars, disk, spent, releasing, excuse>>

(* try_claim_spawn: exclusive creation; a lock file older than its ttl is   *)
(* removed by name in a second step, whoever made it by then.               *)
Claim(s) ==
    /\ pc[s] = "claim"
    /\ \/ /\ lock = "none"
          /\ lock' = "fresh"
          /\ GoOn(s, "check", mem[s]) /\ Unsaved /\ UNCHANGED excuse
       \/ /\ lock = "fresh" /\ Settle(s, mem[s]) /\ UNCHANGED <<lock, excuse>>
       \/ /\ lock = "stale" /\ excuse' = "stolen"
          /\ GoOn(s, "steal", mem[s]) /\ Unsaved /\ UNCHANGED lock
    /\ UNCHANGED <<SpawnVars, releasing>>

Steal(s) ==
    /\ pc[s] = "steal"
    /\ lock' = "none"
    /\ GoOn(s, "claim", mem[s])
    /\ UNCHANGED <<SpawnVars, disk, spent, releasing, excuse>>

(* The finally clause leaves the lock to a release thread; a second one,    *)
(* after a theft of the first one's lock, counts with the first.            *)
HandOver(s) == releasing' = [releasing EXCEPT ![s] = TRUE]

(* Fault: what happened while the lock was awaited is not looked at. *)
SingleCheck(s) ==
    /\ pc[s] = "check"
    /\ GoOn(s, "launch", mem[s])
    /\ UNCHANGED <<SpawnVars, lock, disk, spent, releasing, excuse>>

(* The double-check under the lock. *)
DoubleCheck(s) ==
    /\ pc[s] = "check"
    /\ \/ (Running \/ Blocked) /\ Settle(s, mem[s]) /\ HandOver(s)
       \/ ~Running /\ ~Blocked /\ GoOn(s, "launch", mem[s]) /\ Unsaved /\ UNCHANGED releasing
    /\ UNCHANGED <<SpawnVars, lock, excuse>>

Launch(s) ==
    /\ pc[s] = "launch"
    /\ \E p \in Procs :
        /\ proc[p] = "none" /\ \A q \in 1..(p - 1) : proc[q] # "none"
        /\ proc' = [proc EXCEPT ![p] = "booting"]
        /\ late' = IF standdown THEN late \cup {p} ELSE late
        /\ GoOn(s, "arm", [mem[s] EXCEPT !.child = p, !.waits = FALSE])
    /\ credit' = [credit EXCEPT ![s] = IF mem[s].tick THEN @ - 1 ELSE @]
    /\ UNCHANGED <<beat, lock, disk, releasing, standdown, request, spent, excuse>>

LaunchFails(s) ==
    /\ pc[s] = "launch"
    /\ Settle(s, mem[s]) /\ HandOver(s)
    /\ UNCHANGED <<SpawnVars, lock, excuse>>

(* Fault: the stand-down is not looked at again after the launch. *)
ArmWithoutLook(s) ==
    /\ pc[s] = "arm"
    /\ Settle(s, [mem[s] EXCEPT !.starting = TRUE, !.died = FALSE, !.waits = TRUE])
    /\ HandOver(s)
    /\ UNCHANGED <<proc, late, beat, lock, standdown, request, credit, excuse>>

(* A stand-down that arrived while the process was being created ends it. *)
ArmStartup(s) ==
    /\ pc[s] = "arm"
    /\ \/ /\ Blocked
          /\ late' = late \ {mem[s].child}
          /\ \/ \E done \in Outcomes(mem[s]) : Terminate(mem[s], done) /\ Settle(s, done)
             \/ UNCHANGED proc /\ Settle(s, mem[s])   \* _terminate returned False
       \/ /\ ~Blocked
          /\ Settle(s, [mem[s] EXCEPT !.starting = TRUE, !.died = FALSE, !.waits = TRUE])
          /\ UNCHANGED <<proc, late>>
    /\ HandOver(s)
    /\ UNCHANGED <<beat, lock, standdown, request, credit, excuse>>

(* A live instance may be overlooked from now on. *)
Excused == excuse' = IF excuse = "none" THEN "unseen" ELSE excuse

(* Some live instance is not the one the heartbeat shows as running. *)
Unseen == ~(LiveOnes \subseteq {beat.pid}) \/ (LiveOnes # {} /\ ~Running)

(* _release_when_up removes the lock file by name: when the component runs, *)
(* or when the thread has waited long enough.                               *)
Release(s) ==
    /\ releasing[s]
    /\ releasing' = [releasing EXCEPT ![s] = FALSE]
    /\ lock' = "none"
    /\ IF Unseen THEN Excused ELSE UNCHANGED excuse
    /\ UNCHANGED <<proc, beat, pc, mem, disk, standdown, request, spent,
                   late, credit>>

(* _waiter: its process is still the component's. *)
ChildExits(s) ==
    /\ mem[s].waits /\ Gone(mem[s].child)
    /\ mem' = [mem EXCEPT ![s].died = TRUE, ![s].waits = FALSE]
    /\ UNCHANGED <<pc, disk, TickVars, spent, request, credit>>

-----------------------------------------------------------------------------
(* Limits that run out.                                                     *)

Inside(s) == pc[s] \in {"check", "launch", "arm"}

(* The ttl of a lock is well above what a launch and the release thread     *)
(* take: it runs out on a supervisor that died, or on a slow launch.        *)
LockAges ==
    /\ lock = "fresh"
    /\ lock' = "stale"
    /\ IF \E s \in Sups : Inside(s) \/ releasing[s]
       THEN Event ELSE UNCHANGED spent
    /\ UNCHANGED <<proc, beat, pc, mem, disk, releasing, standdown, request,
                   excuse, late, credit>>

BeatAges ==
    /\ beat.kind = "fresh" /\ proc[beat.pid] # "up"
    /\ beat' = [beat EXCEPT !.kind = "old"]
    /\ IF Live(beat.pid) THEN Excused ELSE UNCHANGED excuse
    /\ UNCHANGED <<proc, lock, pc, mem, disk, releasing, standdown, request, spent,
                   late, credit>>

-----------------------------------------------------------------------------
(* The component, the operator, and faults.                                 *)

ProcVars == <<lock, pc, mem, disk, releasing, standdown, request, credit>>

(* No spawn is under way. *)
Quiet ==
    \A s \in Sups : /\ pc[s] \notin {"claim", "steal", "check", "launch", "arm"}
                    /\ ~releasing[s]

Beat(p) ==
    /\ proc[p] \in {"booting", "up"}
    /\ proc' = [proc EXCEPT ![p] = "up"]
    /\ beat' = [pid |-> p, kind |-> "fresh"]
    /\ excuse' = IF Quiet /\ LiveOnes = {p} THEN "none" ELSE excuse
    /\ UNCHANGED <<ProcVars, spent, late>>

(* ScannerHost.run leaves its loop on a stand-down and marks a clean stop. *)
Retire(p) ==
    /\ proc[p] = "up" /\ standdown
    /\ proc' = [proc EXCEPT ![p] = "dead"]
    /\ beat' = [pid |-> p, kind |-> "stopped"]
    /\ late' = late \ {p}
    /\ UNCHANGED <<ProcVars, excuse, spent>>

Die(p) ==
    /\ Live(p) /\ Event
    /\ proc' = [proc EXCEPT ![p] = "dead"]
    /\ late' = late \ {p}
    /\ UNCHANGED <<ProcVars, excuse, beat>>

Hang(p) ==
    /\ proc[p] = "up" /\ Event
    /\ proc' = [proc EXCEPT ![p] = "hung"]
    /\ UNCHANGED <<ProcVars, excuse, beat, late>>

Resume(p) ==
    /\ proc[p] = "hung"
    /\ proc' = [proc EXCEPT ![p] = "up"]
    /\ UNCHANGED <<ProcVars, excuse, beat, spent, late>>

(* A supervisor's process dies: its threads and its memory with it, the     *)
(* lock file and the children stay.                                         *)
Crash(s) ==
    /\ pc[s] # "down" /\ Event
    /\ pc' = [pc EXCEPT ![s] = "down"]
    /\ mem' = [mem EXCEPT ![s] = Loaded(disk[s])]
    /\ releasing' = [releasing EXCEPT ![s] = FALSE]
    /\ late' = late \ {mem[s].child}
    /\ credit' = Reloaded(s)
    /\ UNCHANGED <<proc, beat, lock, disk, standdown, request, excuse>>

(* ProcessSupervisor.start: durable SAFE_MODE keeps the component stopped,  *)
(* otherwise it is adopted or spawned at once, whatever backoff was saved.  *)
Start(s) ==
    /\ pc[s] = "down" /\ ~standdown
    /\ LET m == Loaded(disk[s])
       IN  IF m.safe /\ ~Running THEN Idle(s, m) ELSE GoOn(s, "spawn", m)
    /\ UNCHANGED <<disk, TickVars, spent, request, credit>>

RequestRestart ==
    /\ ~request /\ Event
    /\ request' = TRUE
    /\ UNCHANGED <<proc, beat, lock, pc, mem, disk, releasing, standdown, excuse, late, credit>>

RequestStandDown ==
    /\ ~standdown /\ spent["standdown"] < MaxStandDowns
    /\ spent' = [spent EXCEPT !["standdown"] = @ + 1]
    /\ standdown' = TRUE
    /\ UNCHANGED <<proc, beat, lock, pc, mem, disk, releasing, request, excuse, late, credit>>

ClearStandDown ==
    /\ standdown /\ Event
    /\ standdown' = FALSE
    /\ late' = {}
    /\ UNCHANGED <<proc, beat, lock, pc, mem, disk, releasing, request,
                   excuse, credit>>

-----------------------------------------------------------------------------
Spawn(s) ==
    \/ EnterSpawn(s) \/ Claim(s) \/ Steal(s) \/ DoubleCheck(s)
    \/ Launch(s) \/ LaunchFails(s) \/ ArmStartup(s)

Supervise(s) ==
    \/ TickStoodDown(s) \/ StandDown(s) \/ TickRestart(s) \/ Tick(s)
    \/ KillThenSpawn(s) \/ KillFails(s)
    \/ Spawn(s)

Next ==
    \/ \E s \in Sups :
        \/ Supervise(s) \/ TickCooled(s) \/ Release(s) \/ ChildExits(s)
        \/ TickDue(s) \/ Crash(s) \/ Start(s)
    \/ \E p \in Procs : Beat(p) \/ Retire(p) \/ Die(p) \/ Hang(p) \/ Resume(p)
    \/ LockAges \/ BeatAges
    \/ RequestRestart \/ RequestStandDown \/ ClearStandDown

Spec == Init /\ [][Next]_vars

-----------------------------------------------------------------------------
(* The spawn lock keeps the two supervisors from launching at once, unless  *)
(* a lock outlived its ttl and was taken for abandoned.                     *)
LockExcludes == \A s, t \in Sups : s # t /\ Inside(s) /\ Inside(t) => excuse = "stolen"

(* Two instances of the component live at once only if a lock was taken for *)
(* abandoned, was released while a live instance was not seen running, or a *)
(* live instance had stopped beating - since the last heartbeat of a sole   *)
(* instance that found no spawn under way.                                  *)
DuplicatesAreExplained == Cardinality(LiveOnes) > 1 => excuse # "none"

(* While a stand-down is in force no process launched under it goes on      *)
(* running, but for the moment the supervisor takes to look at the token    *)
(* again: the token may arrive between the last check and the launch.  Not  *)
(* counted are a process that could not be ended (_terminate's result is    *)
(* not looked at) and one whose supervisor died at that moment.             *)
StandDownHolds ==
    standdown => \A p \in late : \E s \in Sups : pc[s] = "arm" /\ mem[s].child = p

(* No automatic relaunch is free: each one follows a failure that was       *)
(* charged, so that a crash loop ends in SAFE_MODE.  A supervisor that died *)
(* or stood down may relaunch once from the record it left on disk.         *)
CrashLoopIsCharged ==
    \A s \in Sups : credit[s] >= 0

(* The module comment of supervisor.py: "No duplicates", the spawn lock     *)
(* stops the core and the watchdog from double-spawning - even while no     *)
(* process fails and nobody gives a command.                                *)
NoDuplicates == Cardinality(LiveOnes) <= 1
=============================================================================
