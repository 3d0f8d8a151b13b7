------------------------ MODULE ModuleManagerProofs ------------------------
(***************************************************************************)
(* What holds of a capability worker for any number of callers, accepted    *)
(* actions, attempts, control generations and restart budgets.              *)
(*                                                                          *)
(* Part 1: the worker and its lifecycle API (ModuleLifecycle): type         *)
(* correctness, one live generation, a stop() that is never overtaken, and  *)
(* one worker per accepted action.                                          *)
(* Part 2: under the manager (ModuleManager): it uses the API as any        *)
(* callers do, so part 1 applies; what is switched off stays quiet and      *)
(* what is switched on is never forgotten.                                  *)
(* Part 3: with the watchdog (WatchdogMonitor): the same, and the budget.   *)
(***************************************************************************)
EXTENDS WatchdogMonitor, TLAPS

(* Everything before the current generation has ended, everything after it  *)
(* does not exist yet.                                                      *)
GenerationOrder ==
    \A g \in Gens : /\ g < gen => phase[g] = "dead"
                    /\ g > gen <=> phase[g] = "unborn"

(* A pending request is newer than the generation it replaces, and a stop() *)
(* leaves none behind.                                                      *)
RequestFresh ==
    /\ OneSpawnPerAction
    /\ last = "stop" => request = 0
    /\ \A c \in Callers : call[c] # NoCall => call[c].serial # 0

(* A worker that waits for another attempt has one left. *)
AttemptsLeft ==
    \A g \in Gens : phase[g] \in {"backoff", "resuming"} =>
                        attempt[g] + 1 < MaxAttempts

IInv == /\ TypeOK
        /\ GenerationOrder
        /\ RequestFresh
        /\ AttemptsLeft
        /\ StoppedMeansSignalled

(* The inductive invariant holds initially. *)
LEMMA InitIInv == Init => IInv
<1> SUFFICES ASSUME Init PROVE IInv
  OBVIOUS
<1> USE BoundsAssumption DEF BoundsAssumption, Init, Gens
<1>1. TypeOK
  <2>1. /\ phase \in [Gens -> Phases]
        /\ attempt \in [Gens -> 0 .. MaxAttempts - 1]
        /\ stopped \in [0 .. MaxActions -> BOOLEAN]
    BY DEF Phases
  <2>2. call \in [Callers -> Calls]
    BY DEF Calls, NoCall
  <2>3. 0 \in 0 .. MaxActions
    OBVIOUS
  <2> QED
    BY <2>1, <2>2, <2>3 DEF TypeOK, Statuses
<1>2. GenerationOrder
  BY DEF GenerationOrder
<1>3. RequestFresh
  BY DEF RequestFresh, OneSpawnPerAction
<1>4. AttemptsLeft
  BY DEF AttemptsLeft
<1>5. StoppedMeansSignalled
  BY DEF StoppedMeansSignalled
<1> QED
  BY <1>1, <1>2, <1>3, <1>4, <1>5 DEF IInv

(* Every action of the specification preserves it. *)
LEMMA NextIInv == IInv /\ [Next]_vars => IInv'
<1> SUFFICES ASSUME IInv, [Next]_vars PROVE IInv'
  OBVIOUS
<1> USE BoundsAssumption DEF BoundsAssumption
<1>t. /\ TypeOK /\ GenerationOrder /\ RequestFresh
      /\ AttemptsLeft /\ StoppedMeansSignalled
  BY DEF IInv
<1>g. gen \in Nat /\ gen <= serial /\ serial \in Nat /\ serial <= MaxActions
  BY <1>t DEF TypeOK, RequestFresh, OneSpawnPerAction
(* A spawn, wherever it happens, when the old worker is gone. *)
<1>s. ASSUME SpawnGeneration, ~Alive(gen), gen < serial',
             serial' \in 0 .. MaxActions, last' # "stop",
             last' \in {"none", "start", "restart", "stop"},
             waiter' \in 0 .. MaxActions, call' \in [Callers -> Calls],
             \A c \in Callers : call'[c] # NoCall => call'[c].serial # 0,
             seen' = seen
      PROVE  IInv'
  <2>1. gen + 1 \in Gens /\ gen' = gen + 1 /\ gen' \in 0 .. MaxActions
    BY <1>s, <1>g DEF SpawnGeneration, Gens
  <2>2. phase' \in [Gens -> Phases]
    BY <1>s, <1>t, <2>1 DEF SpawnGeneration, TypeOK, Phases
  <2>a. 0 \in 0 .. MaxActions /\ "running" \in Statuses
    BY DEF Statuses
  <2>3. TypeOK'
    BY <1>s, <1>t, <2>1, <2>2, <2>a DEF SpawnGeneration, TypeOK
  <2>4. GenerationOrder'
    <3> SUFFICES ASSUME NEW g \in Gens
                 PROVE  /\ g < gen' => phase'[g] = "dead"
                        /\ g > gen' <=> phase'[g] = "unborn"
      BY DEF GenerationOrder
    <3>1. g \in Nat /\ phase'[g] = IF g = gen + 1 THEN "delayed" ELSE phase[g]
      BY <1>s, <1>t, <2>1 DEF SpawnGeneration, TypeOK, Gens
    <3>2. /\ g < gen => phase[g] = "dead"
          /\ g > gen <=> phase[g] = "unborn"
      BY <1>t DEF GenerationOrder
    <3>3. g = gen => phase[g] \in {"unborn", "dead"}
      BY <1>s DEF Alive
    <3>4. g < gen + 1 <=> g < gen \/ g = gen
      BY <1>g, <3>1
    <3> QED
      BY <3>1, <3>2, <3>3, <3>4, <2>1, <1>g
  <2>5. RequestFresh'
    BY <1>s, <1>g, <2>1 DEF SpawnGeneration, RequestFresh, OneSpawnPerAction
  <2>6. AttemptsLeft'
    BY <1>s, <1>t, <2>1 DEF SpawnGeneration, AttemptsLeft, TypeOK
  <2>7. StoppedMeansSignalled'
    BY <1>s DEF SpawnGeneration, StoppedMeansSignalled
  <2> QED
    BY <2>3, <2>4, <2>5, <2>6, <2>7 DEF IInv
(* A step of a worker thread: it moves on and touches nothing but its own   *)
(* attempt, the status and the cycle evidence.                              *)
<1>w. ASSUME NEW g \in Gens, phase[g] \notin {"unborn", "dead"},
             NEW p \in Phases \ {"unborn"}, MoveTo(g, p), WorkerOnly,
             status' \in Statuses, status' = status \/ status' # "stopped",
             firstCycle' \in BOOLEAN, late' \in BOOLEAN,
             attempt' \in [Gens -> 0 .. MaxAttempts - 1],
             p \in {"backoff", "resuming"} => attempt'[g] + 1 < MaxAttempts,
             \A h \in Gens : h # g => attempt'[h] = attempt[h]
      PROVE  IInv'
  <2>1. phase' = [phase EXCEPT ![g] = p] /\ phase' \in [Gens -> Phases]
    BY <1>w, <1>t DEF MoveTo, TypeOK
  <2>2. TypeOK'
    BY <1>w, <1>t, <2>1 DEF WorkerOnly, ghosts, TypeOK
  <2>3. GenerationOrder'
    <3> SUFFICES ASSUME NEW h \in Gens
                 PROVE  /\ h < gen' => phase'[h] = "dead"
                        /\ h > gen' <=> phase'[h] = "unborn"
      BY DEF GenerationOrder
    <3>1. gen' = gen /\ phase'[h] = IF h = g THEN p ELSE phase[h]
      BY <1>w, <1>t, <2>1 DEF WorkerOnly, TypeOK
    <3>2. /\ h < gen => phase[h] = "dead"
          /\ h > gen <=> phase[h] = "unborn"
      BY <1>t DEF GenerationOrder
    <3> QED
      BY <3>1, <3>2, <1>w
  <2>4. RequestFresh'
    BY <1>w, <1>t DEF WorkerOnly, ghosts, RequestFresh, OneSpawnPerAction
  <2>5. AttemptsLeft'
    BY <1>w, <1>t, <2>1 DEF AttemptsLeft, TypeOK
  <2>6. StoppedMeansSignalled'
    BY <1>w, <1>t DEF WorkerOnly, StoppedMeansSignalled
  <2> QED
    BY <2>2, <2>3, <2>4, <2>5, <2>6 DEF IInv
(* A step that leaves the generations and their threads alone. *)
<1>c. ASSUME UNCHANGED <<gen, phase, attempt>>, TypeOK', RequestFresh',
             StoppedMeansSignalled'
      PROVE  IInv'
  BY <1>c, <1>t DEF GenerationOrder, AttemptsLeft, IInv
<1>1. ASSUME NEW c \in Callers, StartFresh(c) PROVE IInv'
  <2>1. ~Alive(gen) /\ SpawnGeneration
    BY <1>1 DEF StartFresh
  <2>2. gen < serial' /\ serial' \in 0 .. MaxActions /\ last' = "start"
    BY <1>1, <1>g DEF StartFresh, Accept
  <2>3. UNCHANGED <<waiter, call, seen>>
    BY <1>1 DEF StartFresh
  <2> QED
    BY <1>s, <2>1, <2>2, <2>3, <1>t DEF TypeOK, RequestFresh
<1>2. ASSUME NEW c \in Callers, StartDeferred(c) PROVE IInv'
  <2>1. serial' = serial + 1 /\ serial' \in 0 .. MaxActions /\ last' = "start"
    BY <1>2, <1>g DEF StartDeferred, Accept
  <2>2. [op |-> "start", old |-> gen, serial |-> serial + 1] \in Calls
    BY <2>1, <1>t DEF Calls, TypeOK
  <2>3. TypeOK'
    BY <1>2, <1>t, <2>1, <2>2 DEF StartDeferred, worker, TypeOK, Statuses
  <2>4. RequestFresh'
    BY <1>2, <1>t, <1>g, <2>1
    DEF StartDeferred, RequestFresh, OneSpawnPerAction, TypeOK
  <2>5. StoppedMeansSignalled'
    BY <1>2 DEF StartDeferred, StoppedMeansSignalled
  <2> QED
    BY <1>c, <1>2, <2>3, <2>4, <2>5 DEF StartDeferred, worker
<1>3. ASSUME NEW c \in Callers, Observe(c) PROVE IInv'
  <2>1. TypeOK'
    BY <1>3, <1>t DEF Observe, worker, TypeOK
  <2>2. RequestFresh' /\ StoppedMeansSignalled'
    BY <1>3, <1>t
    DEF Observe, RequestFresh, OneSpawnPerAction, StoppedMeansSignalled
  <2> QED
    BY <1>c, <1>3, <2>1, <2>2 DEF Observe, worker
<1>4. ASSUME NEW c \in Callers, NEW b \in BOOLEAN, RestartGeneration(c, b)
      PROVE  IInv'
  <2>1. serial' = serial + 1 /\ serial' \in 0 .. MaxActions /\ last' = "restart"
    BY <1>4, <1>g DEF RestartGeneration, Accept
  <2>2. [op |-> "restart", old |-> gen, serial |-> serial + 1] \in Calls
    BY <2>1, <1>t DEF Calls, TypeOK
  <2>3. stopped' \in [0 .. MaxActions -> BOOLEAN]
    BY <1>4, <1>t DEF RestartGeneration, TypeOK
  <2>4. TypeOK'
    BY <1>4, <1>t, <2>1, <2>2, <2>3
    DEF RestartGeneration, worker, TypeOK, Statuses
  <2>5. RequestFresh'
    BY <1>4, <1>t, <1>g, <2>1
    DEF RestartGeneration, RequestFresh, OneSpawnPerAction, TypeOK
  <2>6. StoppedMeansSignalled'
    BY <1>4 DEF RestartGeneration, StoppedMeansSignalled
  <2> QED
    BY <1>c, <1>4, <2>4, <2>5, <2>6 DEF RestartGeneration, worker
<1>5. ASSUME NEW c \in Callers, FinishCall(c) PROVE IInv'
  <2> DEFINE old == call[c].old
             current == gen = old /\ request = call[c].serial
  <2>1. /\ call' = [call EXCEPT ![c] = NoCall]
        /\ UNCHANGED <<serial, seen, last>>
    BY <1>5 DEF FinishCall, ghosts
  <2>2. /\ call' \in [Callers -> Calls]
        /\ \A d \in Callers : call'[d] # NoCall => call'[d].serial # 0
    BY <2>1, <1>t DEF TypeOK, RequestFresh, Calls, NoCall
  <2>3. CASE current /\ ~Alive(old) /\ SpawnGeneration /\ UNCHANGED waiter
    <3>1. request # 0
      BY <1>5, <2>3, <1>t DEF FinishCall, RequestFresh
    <3>2. gen < serial' /\ last' # "stop"
      BY <3>1, <2>1, <1>t DEF RequestFresh, OneSpawnPerAction
    <3> QED
      BY <1>s, <2>1, <2>2, <2>3, <3>2, <1>t DEF TypeOK
  <2>4. CASE /\ EnsureRestartWaiter(old)
             /\ UNCHANGED <<gen, worker, stopped, request, status,
                            firstCycle, late>>
    <3>1. waiter' \in 0 .. MaxActions
      BY <2>4, <1>t DEF EnsureRestartWaiter, TypeOK, Calls
    <3>2. TypeOK'
      BY <2>1, <2>2, <2>4, <3>1, <1>t DEF worker, TypeOK
    <3>3. RequestFresh' /\ StoppedMeansSignalled'
      BY <2>1, <2>2, <2>4, <1>t
      DEF RequestFresh, OneSpawnPerAction, StoppedMeansSignalled
    <3> QED
      BY <1>c, <2>4, <3>2, <3>3 DEF worker
  <2>5. CASE UNCHANGED <<gen, worker, stopped, request, waiter, status,
                         firstCycle, late>>
    <3>1. TypeOK'
      BY <2>1, <2>2, <2>5, <1>t DEF worker, TypeOK
    <3>2. RequestFresh' /\ StoppedMeansSignalled'
      BY <2>1, <2>2, <2>5, <1>t
      DEF RequestFresh, OneSpawnPerAction, StoppedMeansSignalled
    <3> QED
      BY <1>c, <2>5, <3>1, <3>2 DEF worker
  <2> QED
    BY <1>5, <2>3, <2>4, <2>5 DEF FinishCall
<1>6. ASSUME WaiterWakes PROVE IInv'
  <2>1. waiter' = 0 /\ UNCHANGED <<serial, call, seen, last>>
    BY <1>6 DEF WaiterWakes, ghosts
  <2>2. CASE waiter = gen /\ request # 0 /\ request = serial /\ SpawnGeneration
    <3>1. ~Alive(gen) /\ gen < serial' /\ last' # "stop"
      BY <1>6, <2>1, <2>2, <1>t DEF WaiterWakes, RequestFresh, OneSpawnPerAction
    <3> QED
      BY <1>s, <2>1, <2>2, <3>1, <1>t DEF TypeOK, RequestFresh
  <2>3. CASE UNCHANGED <<gen, worker, stopped, request, status, firstCycle, late>>
    <3>1. TypeOK'
      BY <2>1, <2>3, <1>t DEF worker, TypeOK
    <3>2. RequestFresh' /\ StoppedMeansSignalled'
      BY <2>1, <2>3, <1>t
      DEF RequestFresh, OneSpawnPerAction, StoppedMeansSignalled
    <3> QED
      BY <1>c, <2>3, <3>1, <3>2 DEF worker
  <2> QED
    BY <1>6, <2>2, <2>3 DEF WaiterWakes
<1>7. ASSUME NEW c \in Callers, Stop(c) PROVE IInv'
  <2>1. serial' = serial + 1 /\ serial' \in 0 .. MaxActions /\ last' = "stop"
    BY <1>7, <1>g DEF Stop, Accept
  <2>2. stopped' = [stopped EXCEPT ![gen] = TRUE] /\ stopped'[gen] = TRUE
    BY <1>7, <1>t DEF Stop, TypeOK
  <2>3. TypeOK'
    BY <1>7, <1>t, <2>1, <2>2 DEF Stop, worker, TypeOK, Statuses
  <2>4. RequestFresh'
    BY <1>7, <1>t, <1>g, <2>1 DEF Stop, RequestFresh, OneSpawnPerAction
  <2>5. StoppedMeansSignalled'
    BY <1>7, <2>2 DEF Stop, StoppedMeansSignalled
  <2> QED
    BY <1>c, <1>7, <2>3, <2>4, <2>5 DEF Stop, worker
<1>8. ASSUME NEW g \in Gens, DelayEnds(g) PROVE IInv'
  <2>1. PICK p \in {"running", "dead"} : MoveTo(g, p)
    BY <1>8 DEF DelayEnds
  <2>2. /\ phase[g] \notin {"unborn", "dead"}
        /\ p \in Phases \ {"unborn"} /\ MoveTo(g, p) /\ WorkerOnly
    BY <1>8, <2>1 DEF DelayEnds, Phases
  <2>3. /\ status' \in Statuses /\ (status' = status \/ status' # "stopped")
        /\ firstCycle' \in BOOLEAN /\ late' \in BOOLEAN /\ attempt' = attempt
        /\ attempt' \in [Gens -> 0 .. MaxAttempts - 1]
    BY <1>8, <1>t DEF DelayEnds, TypeOK, Statuses
  <2>4. p \in {"backoff", "resuming"} => attempt[g] + 1 < MaxAttempts
    OBVIOUS
  <2> QED
    BY <1>w, <2>2, <2>3, <2>4
<1>9. ASSUME NEW g \in Gens, RunReturns(g) PROVE IInv'
  <2> DEFINE p == IF stopped[g] THEN "dead" ELSE "exiting"
  <2>1. /\ phase[g] \notin {"unborn", "dead"}
        /\ p \in Phases \ {"unborn"} /\ MoveTo(g, p) /\ WorkerOnly
    BY <1>9 DEF RunReturns, Phases
  <2>2. /\ status' \in Statuses /\ (status' = status \/ status' # "stopped")
        /\ firstCycle' \in BOOLEAN /\ late' \in BOOLEAN /\ attempt' = attempt
        /\ attempt' \in [Gens -> 0 .. MaxAttempts - 1]
    BY <1>9, <1>t DEF RunReturns, TypeOK, Statuses
  <2>3. p \in {"backoff", "resuming"} => attempt[g] + 1 < MaxAttempts
    BY <1>9, <1>t DEF RunReturns, AttemptsLeft
  <2> HIDE DEF p
  <2> QED
    BY <1>w, <2>1, <2>2, <2>3
<1>10. ASSUME NEW g \in Gens, PublishExit(g) PROVE IInv'
  <2> DEFINE p == "leaving"
  <2>1. /\ phase[g] \notin {"unborn", "dead"}
        /\ p \in Phases \ {"unborn"} /\ MoveTo(g, p) /\ WorkerOnly
    BY <1>10 DEF PublishExit, Phases
  <2>2. /\ status' \in Statuses /\ (status' = status \/ status' # "stopped")
        /\ firstCycle' \in BOOLEAN /\ late' \in BOOLEAN /\ attempt' = attempt
        /\ attempt' \in [Gens -> 0 .. MaxAttempts - 1]
    BY <1>10, <1>t DEF PublishExit, TypeOK, Statuses
  <2>3. p \in {"backoff", "resuming"} => attempt[g] + 1 < MaxAttempts
    BY <1>10, <1>t DEF PublishExit, AttemptsLeft
  <2> HIDE DEF p
  <2> QED
    BY <1>w, <2>1, <2>2, <2>3
<1>11. ASSUME NEW g \in Gens, RunCrashes(g) PROVE IInv'
  <2> DEFINE p == "backoff"
  <2>1. /\ phase[g] \notin {"unborn", "dead"}
        /\ p \in Phases \ {"unborn"} /\ MoveTo(g, p) /\ WorkerOnly
    BY <1>11 DEF RunCrashes, Phases
  <2>2. /\ status' \in Statuses /\ (status' = status \/ status' # "stopped")
        /\ firstCycle' \in BOOLEAN /\ late' \in BOOLEAN /\ attempt' = attempt
        /\ attempt' \in [Gens -> 0 .. MaxAttempts - 1]
    BY <1>11, <1>t DEF RunCrashes, TypeOK, Statuses
  <2>3. p \in {"backoff", "resuming"} => attempt[g] + 1 < MaxAttempts
    BY <1>11, <1>t DEF RunCrashes, AttemptsLeft
  <2> HIDE DEF p
  <2> QED
    BY <1>w, <2>1, <2>2, <2>3
<1>12. ASSUME NEW g \in Gens, Quarantine(g) PROVE IInv'
  <2> DEFINE p == "leaving"
  <2>1. /\ phase[g] \notin {"unborn", "dead"}
        /\ p \in Phases \ {"unborn"} /\ MoveTo(g, p) /\ WorkerOnly
    BY <1>12 DEF Quarantine, Phases
  <2>2. /\ status' \in Statuses /\ (status' = status \/ status' # "stopped")
        /\ firstCycle' \in BOOLEAN /\ late' \in BOOLEAN /\ attempt' = attempt
        /\ attempt' \in [Gens -> 0 .. MaxAttempts - 1]
    BY <1>12, <1>t DEF Quarantine, TypeOK, Statuses
  <2>3. p \in {"backoff", "resuming"} => attempt[g] + 1 < MaxAttempts
    BY <1>12, <1>t DEF Quarantine, AttemptsLeft
  <2> HIDE DEF p
  <2> QED
    BY <1>w, <2>1, <2>2, <2>3
<1>13. ASSUME NEW g \in Gens, ThreadEnds(g) PROVE IInv'
  <2> DEFINE p == "dead"
  <2>1. /\ phase[g] \notin {"unborn", "dead"}
        /\ p \in Phases \ {"unborn"} /\ MoveTo(g, p) /\ WorkerOnly
    BY <1>13 DEF ThreadEnds, Phases
  <2>2. /\ status' \in Statuses /\ (status' = status \/ status' # "stopped")
        /\ firstCycle' \in BOOLEAN /\ late' \in BOOLEAN /\ attempt' = attempt
        /\ attempt' \in [Gens -> 0 .. MaxAttempts - 1]
    BY <1>13, <1>t DEF ThreadEnds, TypeOK, Statuses
  <2>3. p \in {"backoff", "resuming"} => attempt[g] + 1 < MaxAttempts
    BY <1>13, <1>t DEF ThreadEnds, AttemptsLeft
  <2> HIDE DEF p
  <2> QED
    BY <1>w, <2>1, <2>2, <2>3
<1>14. ASSUME NEW g \in Gens, BackoffEnds(g) PROVE IInv'
  <2> DEFINE p == IF stopped[g] THEN "dead" ELSE "resuming"
  <2>1. /\ phase[g] \notin {"unborn", "dead"}
        /\ p \in Phases \ {"unborn"} /\ MoveTo(g, p) /\ WorkerOnly
    BY <1>14 DEF BackoffEnds, Phases
  <2>2. /\ status' \in Statuses /\ (status' = status \/ status' # "stopped")
        /\ firstCycle' \in BOOLEAN /\ late' \in BOOLEAN /\ attempt' = attempt
        /\ attempt' \in [Gens -> 0 .. MaxAttempts - 1]
    BY <1>14, <1>t DEF BackoffEnds, TypeOK, Statuses
  <2>3. p \in {"backoff", "resuming"} => attempt[g] + 1 < MaxAttempts
    BY <1>14, <1>t DEF BackoffEnds, AttemptsLeft
  <2> HIDE DEF p
  <2> QED
    BY <1>w, <2>1, <2>2, <2>3
<1>15. ASSUME NEW g \in Gens, Resume(g) PROVE IInv'
  <2>1. /\ phase[g] \notin {"unborn", "dead"}
        /\ "running" \in Phases \ {"unborn"} /\ MoveTo(g, "running") /\ WorkerOnly
    BY <1>15 DEF Resume, Phases
  <2>2. attempt[g] + 1 \in 0 .. MaxAttempts - 1
    BY <1>15, <1>t DEF Resume, AttemptsLeft, TypeOK
  <2>3. /\ attempt' \in [Gens -> 0 .. MaxAttempts - 1]
        /\ \A h \in Gens : h # g => attempt'[h] = attempt[h]
    BY <1>15, <1>t, <2>2 DEF Resume, TypeOK
  <2>4. /\ status' \in Statuses /\ status' # "stopped"
        /\ firstCycle' \in BOOLEAN /\ late' \in BOOLEAN
    BY <1>15, <1>t DEF Resume, TypeOK, Statuses
  <2> QED
    BY <1>w, <2>1, <2>3, <2>4
<1>16. ASSUME UNCHANGED <<phase, attempt, status>>, WorkerOnly,
              firstCycle' \in BOOLEAN, late' \in BOOLEAN
       PROVE  IInv'
  <2>1. TypeOK'
    BY <1>16, <1>t DEF WorkerOnly, ghosts, TypeOK
  <2>2. RequestFresh' /\ StoppedMeansSignalled'
    BY <1>16, <1>t
    DEF WorkerOnly, ghosts, RequestFresh, OneSpawnPerAction, StoppedMeansSignalled
  <2> QED
    BY <1>c, <1>16, <2>1, <2>2 DEF WorkerOnly
<1>17. ASSUME NEW g \in Gens, CycleCompletes(g) PROVE IInv'
  BY <1>16, <1>17, <1>t DEF CycleCompletes, worker, TypeOK
<1>18. ASSUME DeadlinePasses PROVE IInv'
  BY <1>16, <1>18, <1>t DEF DeadlinePasses, worker, TypeOK
<1>19. ASSUME UNCHANGED vars PROVE IInv'
  BY <1>16, <1>19, <1>t DEF vars, WorkerOnly, ghosts, TypeOK
<1>20. ASSUME NEW c \in Callers, CallerStep(c) PROVE IInv'
  BY <1>1, <1>2, <1>3, <1>4, <1>5, <1>7, <1>20
  DEF CallerStep, RestartIfGeneration, RestartFaultedGeneration
<1>21. ASSUME NEW g \in Gens, WorkerStep(g) PROVE IInv'
  BY <1>8, <1>9, <1>10, <1>11, <1>12, <1>13, <1>14, <1>15, <1>17, <1>21
  DEF WorkerStep
<1> QED
  BY <1>6, <1>18, <1>19, <1>20, <1>21 DEF Next

(* The inductive invariant gives one live generation at a time. *)
LEMMA IInvOneLive == IInv => OneLiveGeneration
<1> SUFFICES ASSUME IInv, NEW g \in Gens, NEW h \in Gens, Alive(g), Alive(h)
             PROVE  g = h
  BY DEF OneLiveGeneration
<1>1. g = gen /\ h = gen
  BY BoundsAssumption
  DEF IInv, GenerationOrder, TypeOK, Alive, Gens, BoundsAssumption
<1> QED
  BY <1>1

----------------------------------------------------------------------------
(* The inductive invariant holds in every reachable state. *)
THEOREM Inductive == Spec => []IInv
  BY InitIInv, NextIInv, PTL DEF Spec

(* Type correctness. *)
THEOREM TypeCorrect == Spec => []TypeOK
<1>1. IInv => TypeOK
  BY DEF IInv
<1> QED
  BY <1>1, Inductive, PTL

(* start(), the restart calls and the deferred waiter never run two         *)
(* generations of one capability at once.                                   *)
THEOREM NoOverlap == Spec => []OneLiveGeneration
  BY IInvOneLive, Inductive, PTL

(* A status of "stopped" is never shown over a worker that was not told to  *)
(* stop, or over a pending restart.                                         *)
THEOREM StoppedHonest == Spec => []StoppedMeansSignalled
<1>1. IInv => StoppedMeansSignalled
  BY DEF IInv
<1> QED
  BY <1>1, Inductive, PTL

(* The caller of a deferred start and its waiter never both serve it. *)
THEOREM SpawnOnce == Spec => []OneSpawnPerAction
<1>1. IInv => OneSpawnPerAction
  BY DEF IInv, RequestFresh
<1> QED
  BY <1>1, Inductive, PTL

(* stop() is final until somebody asks for a start again: no caller that    *)
(* was joining and no waiter brings the worker back after it.               *)
THEOREM StopIsFinal == Spec => NoRevivalAfterStop
<1>1. ASSUME IInv, [Next]_vars
      PROVE  [gen' # gen => last' # "stop"]_vars
  <2> SUFFICES ASSUME Next, gen' # gen PROVE last' # "stop"
    BY <1>1 DEF vars
  <2>1. ASSUME NEW c \in Callers, CallerStep(c) PROVE last' # "stop"
    <3>1. CASE FinishCall(c)
      <4>1. request = call[c].serial /\ call[c] # NoCall /\ last' = last
        BY <3>1 DEF FinishCall, ghosts
      <4> QED
        BY <4>1, <1>1 DEF IInv, RequestFresh
    <3>2. CASE StartFresh(c)
      BY <3>2 DEF StartFresh, Accept
    <3> QED
      BY <2>1, <3>1, <3>2
      DEF CallerStep, StartDeferred, Stop, Observe, RestartIfGeneration,
          RestartFaultedGeneration, RestartGeneration
  <2>2. CASE WaiterWakes
    BY <2>2, <1>1 DEF WaiterWakes, ghosts, IInv, RequestFresh
  <2>3. ~DeadlinePasses /\ \A g \in Gens : ~WorkerStep(g)
    BY DEF DeadlinePasses, WorkerStep, WorkerOnly, DelayEnds, CycleCompletes,
           RunReturns, PublishExit, RunCrashes, Quarantine, ThreadEnds,
           BackoffEnds, Resume
  <2> QED
    BY <2>1, <2>2, <2>3 DEF Next
<1> QED
  BY <1>1, Inductive, PTL DEF Spec, NoRevivalAfterStop
-----------------------------------------------------------------------------
(***************************************************************************)
(* The manager.                                                            *)
(***************************************************************************)

(* What the watchdog capability does to the worker and the manager besides  *)
(* the operations every caller has: it looks at any moment, it asks for a   *)
(* restart, and a refused one may put the worker on hold.                   *)
Watched(c) == Observe(c) /\ UNCHANGED <<policy, ctl, gate, job, excused>>

Asked(c) ==
    /\ MayRestart /\ RestartFaultedGeneration(c) /\ ctl' = c
    /\ UNCHANGED <<policy, gate, job, excused>>

PutOnHold ==
    /\ held' = (held \/ (~shutdown /\ enabled /\ paused))
    /\ UNCHANGED <<vars, enabled, active, shutdown, control, paused, ctl, gate,
                   job, excused>>

(* A step of the manager, of the worker or of the watchdog. *)
ManagedStep ==
    \/ \E c \in Callers : ManagerStep(c) \/ Watched(c) \/ Asked(c)
    \/ PutOnHold
    \/ WorkerSide
    \/ UNCHANGED mvars

(* The worker is not there, or was told to stop and nothing is pending.     *)
Quiet == gen = 0 \/ (stopped[gen] /\ request = 0)

(* A step that neither starts, restarts nor stops the worker.               *)
PassiveStep ==
    \/ \E c \in Callers : FinishCall(c) \/ Observe(c)
    \/ \E g \in Gens : WorkerStep(g)
    \/ WaiterWakes \/ DeadlinePasses \/ UNCHANGED vars

(* mod.start() is a call of the API, or nothing.                            *)
LEMMA StartModuleCalls ==
  ASSUME NEW c \in Callers, StartModule(c)
  PROVE  StartFresh(c) \/ StartDeferred(c) \/ UNCHANGED vars
  BY DEF StartModule

(* The manager does nothing to the worker but call its API.                 *)
LEMMA ManagedIsLifecycle ==
  ASSUME ManagedStep
  PROVE  [Next]_vars
<1>1. ASSUME NEW c \in Callers, ManagerStep(c) \/ Watched(c) \/ Asked(c)
      PROVE  CallerStep(c) \/ UNCHANGED vars
  <2>1. \/ StartFresh(c) \/ StartDeferred(c) \/ Stop(c) \/ Observe(c)
        \/ RestartIfGeneration(c) \/ RestartFaultedGeneration(c)
        \/ FinishCall(c) \/ UNCHANGED vars
    BY <1>1, StartModuleCalls
    DEF ManagerStep, Watched, Asked, StartEnabled, SelectEnabled, StartIfEnabled,
        StartRefused, StartCurrent, FirstCycleSeen, FirstCycleTimesOut, Enable,
        EnableVetoed, Disable, PauseForUgcap, ResumeApproved, ResumeDenied,
        RestartModuleGeneration, StopAll, Snapshot, ManagedCallReturns
  <2> QED
    BY <2>1 DEF CallerStep
<1>2. ASSUME WorkerSide PROVE Next
  BY <1>2 DEF WorkerSide, Next
<1>3. ASSUME PutOnHold \/ UNCHANGED mvars PROVE UNCHANGED vars
  BY <1>3 DEF PutOnHold, mvars
<1> QED
  BY <1>1, <1>2, <1>3 DEF ManagedStep, Next

(* A pending request belongs to a generation. *)
RequestHasGeneration == gen = 0 => request = 0

LEMMA NextRequestHasGeneration ==
  ASSUME IInv, RequestHasGeneration, [Next]_vars
  PROVE  RequestHasGeneration'
<1> USE DEF RequestHasGeneration
<1>t. gen \in Nat
  BY BoundsAssumption DEF BoundsAssumption, IInv, TypeOK
<1>s. ASSUME SpawnGeneration PROVE RequestHasGeneration'
  BY <1>s DEF SpawnGeneration
<1>1. ASSUME NEW c \in Callers, CallerStep(c) PROVE RequestHasGeneration'
  <2>1. CASE StartDeferred(c)
    <3>1. gen # 0
      BY <2>1, BoundsAssumption DEF StartDeferred, Alive, Gens, BoundsAssumption
    <3> QED
      BY <2>1, <3>1 DEF StartDeferred
  <2>2. CASE RestartIfGeneration(c) \/ RestartFaultedGeneration(c)
    BY <2>2 DEF RestartIfGeneration, RestartFaultedGeneration, RestartGeneration
  <2>3. CASE StartFresh(c)
    BY <2>3, <1>s DEF StartFresh
  <2>4. CASE FinishCall(c)
    BY <2>4, <1>s DEF FinishCall
  <2>5. CASE Stop(c) \/ Observe(c)
    BY <2>5 DEF Stop, Observe
  <2> QED
    BY <1>1, <2>1, <2>2, <2>3, <2>4, <2>5 DEF CallerStep
<1>2. ASSUME WaiterWakes PROVE RequestHasGeneration'
  BY <1>2, <1>s DEF WaiterWakes
<1>3. ASSUME (\E g \in Gens : WorkerStep(g)) \/ DeadlinePasses PROVE UNCHANGED <<gen, request>>
  BY <1>3 DEF DeadlinePasses, WorkerStep, WorkerOnly, DelayEnds, CycleCompletes,
              RunReturns, PublishExit, RunCrashes, Quarantine, ThreadEnds,
              BackoffEnds, Resume
<1>4. ASSUME UNCHANGED vars PROVE UNCHANGED <<gen, request>>
  BY <1>4 DEF vars
<1> QED
  BY <1>1, <1>2, <1>3, <1>4 DEF Next

(* A quiet worker is not brought back by a call under way, by the waiter or *)
(* by itself, and none of these shows it as stopped.                        *)
LEMMA PassiveKeeps ==
  ASSUME IInv, RequestHasGeneration, PassiveStep
  PROVE  /\ Quiet => Quiet'
         /\ status' = "stopped" => status = "stopped"
<1> USE DEF Quiet, RequestHasGeneration
<1>1. ASSUME NEW c \in Callers, FinishCall(c)
      PROVE  (Quiet => Quiet') /\ (status' = "stopped" => status = "stopped")
  <2>1. call[c].serial # 0
    BY <1>1 DEF FinishCall, IInv, RequestFresh
  <2>2. CASE request = call[c].serial /\ SpawnGeneration
    BY <2>1, <2>2 DEF SpawnGeneration
  <2>3. CASE UNCHANGED <<gen, stopped, request, status>>
    BY <2>3
  <2> QED
    BY <1>1, <2>2, <2>3 DEF FinishCall
<1>2. ASSUME WaiterWakes
      PROVE  (Quiet => Quiet') /\ (status' = "stopped" => status = "stopped")
  BY <1>2 DEF WaiterWakes, SpawnGeneration
<1>3. ASSUME UNCHANGED <<gen, stopped, request>>, status' = status \/ status' # "stopped"
      PROVE  (Quiet => Quiet') /\ (status' = "stopped" => status = "stopped")
  BY <1>3
<1>4. ASSUME (\E g \in Gens : WorkerStep(g)) \/ DeadlinePasses
      PROVE  UNCHANGED <<gen, stopped, request>> /\ (status' = status \/ status' # "stopped")
  BY <1>4 DEF DeadlinePasses, WorkerStep, WorkerOnly, DelayEnds, CycleCompletes,
              RunReturns, PublishExit, RunCrashes, Quarantine, ThreadEnds,
              BackoffEnds, Resume
<1>5. ASSUME (\E c \in Callers : Observe(c)) \/ UNCHANGED vars
      PROVE  UNCHANGED <<gen, stopped, request, status>>
  BY <1>5 DEF Observe, vars
<1> QED
  BY <1>1, <1>2, <1>3, <1>4, <1>5 DEF PassiveStep

(* stop() silences the worker; a start or a restart shows it as not stopped. *)
LEMMA StopQuiets ==
  ASSUME IInv, NEW c \in Callers, Stop(c)
  PROVE  Quiet'
  BY DEF Stop, IInv, TypeOK, Quiet

LEMMA StartShows ==
  ASSUME IInv, NEW c \in Callers,
         StartModule(c) \/ RestartIfGeneration(c) \/ RestartFaultedGeneration(c)
  PROVE  status' # "stopped"
<1>1. CASE Alive(gen) /\ ~stopped[gen] /\ UNCHANGED vars
  <2>1. gen # 0
    BY <1>1, BoundsAssumption DEF Alive, Gens, BoundsAssumption
  <2> QED
    BY <1>1, <2>1 DEF IInv, StoppedMeansSignalled, vars
<1>2. CASE StartFresh(c) \/ StartDeferred(c)
  BY <1>2 DEF StartFresh, StartDeferred, SpawnGeneration
<1>3. CASE RestartIfGeneration(c) \/ RestartFaultedGeneration(c)
  BY <1>3 DEF RestartIfGeneration, RestartFaultedGeneration, RestartGeneration
<1> QED
  BY <1>1, <1>2, <1>3 DEF StartModule

(* The manager's own variables; every thread has a job of the right form.   *)
ManagerTypes ==
    /\ enabled \in BOOLEAN /\ active \in BOOLEAN /\ shutdown \in BOOLEAN
    /\ paused \in BOOLEAN /\ held \in BOOLEAN /\ excused \in BOOLEAN
    /\ control \in 0 .. MaxControls
    /\ ctl \in Callers \cup {Nobody} /\ gate \in Callers \cup {Nobody}
    /\ job \in [Callers -> Jobs]

MInv == /\ IInv
        /\ RequestHasGeneration
        /\ ManagerTypes
        /\ OffMeansQuiet
        /\ NoForgottenWorker

LEMMA JobIsSet ==
  ASSUME job \in [Callers -> Jobs], NEW c \in Callers, NEW task \in Tasks,
         NEW g \in 0 .. MaxControls, SetJob(c, task, g)
  PROVE  /\ job' \in [Callers -> Jobs]
         /\ job'[c].task = task /\ job'[c].control = g
         /\ \A d \in Callers \ {c} : job'[d] = job[d]
  BY DEF SetJob, Jobs

LEMMA JobIsDropped ==
  ASSUME job \in [Callers -> Jobs], NEW c \in Callers,
         job' = [job EXCEPT ![c] = NoJob]
  PROVE  /\ job' \in [Callers -> Jobs]
         /\ \A d \in Callers \ {c} : job'[d] = job[d]
<1>1. NoJob \in Jobs
  BY ControlAssumption DEF NoJob, Jobs, Tasks, ControlAssumption
<1> QED
  BY <1>1

(* The manager's flags, counter and jobs keep their types.                   *)
LEMMA ManagerKeepsTypes ==
  ASSUME ManagerTypes, NEW c \in Callers, ManagerStep(c)
  PROVE  /\ enabled' \in BOOLEAN /\ active' \in BOOLEAN /\ shutdown' \in BOOLEAN
         /\ paused' \in BOOLEAN /\ held' \in BOOLEAN /\ excused' \in BOOLEAN
         /\ control' \in 0 .. MaxControls
         /\ job' \in [Callers -> Jobs]
<1> USE DEF ManagerTypes, policy
<1>j. job[c].control \in 0 .. MaxControls
  BY DEF Jobs
<1>k. {"select", "stage", "start", "await"} \subseteq Tasks
  BY DEF Tasks
<1>1. CASE StartEnabled(c)
  <2>1. control + 1 \in 0 .. MaxControls /\ SetJob(c, "select", control + 1)
    BY <1>1, ControlAssumption DEF StartEnabled, ControlAssumption
  <2>2. job' \in [Callers -> Jobs]
    BY <1>k, <2>1, JobIsSet
  <2> QED
    BY <1>1, <2>1, <2>2 DEF StartEnabled
<1>2. CASE SelectEnabled(c)
  <2>1. job' \in [Callers -> Jobs]
    BY <1>2, <1>j, <1>k, JobIsSet, JobIsDropped DEF SelectEnabled
  <2> QED
    BY <1>2, <2>1 DEF SelectEnabled
<1>3. CASE StartIfEnabled(c)
  <2>1. job' \in [Callers -> Jobs]
    BY <1>3, <1>k, JobIsSet DEF StartIfEnabled
  <2> QED
    BY <1>3, <2>1 DEF StartIfEnabled
<1>4. CASE StartRefused(c)
  <2>1. job' \in [Callers -> Jobs]
    BY <1>4, JobIsDropped DEF StartRefused
  <2> QED
    BY <1>4, <2>1 DEF StartRefused, MayStart
<1>5. CASE StartCurrent(c)
  <2>1. job' \in [Callers -> Jobs]
    BY <1>5, <1>k, JobIsSet, JobIsDropped DEF StartCurrent
  <2> QED
    BY <1>5, <2>1 DEF StartCurrent
<1>6. CASE FirstCycleSeen(c) \/ FirstCycleTimesOut(c)
  <2>1. job' \in [Callers -> Jobs]
    BY <1>6, JobIsDropped DEF FirstCycleSeen, FirstCycleTimesOut
  <2> QED
    BY <1>6, <2>1 DEF FirstCycleSeen, FirstCycleTimesOut
<1>7. CASE Enable(c) \/ EnableVetoed(c) \/ Disable(c) \/ PauseForUgcap(c) \/ ResumeDenied(c)
  BY <1>7 DEF Enable, EnableVetoed, Disable, PauseForUgcap, ResumeDenied
<1>8. CASE ResumeApproved(c)
  <2>1. job' \in [Callers -> Jobs]
    BY <1>8, <1>k, JobIsSet DEF ResumeApproved
  <2> QED
    BY <1>8, <2>1 DEF ResumeApproved
<1>9. CASE RestartModuleGeneration(c)
  BY <1>9 DEF RestartModuleGeneration
<1>10. CASE StopAll(c)
  <2>1. control + 1 \in 0 .. MaxControls
    BY <1>10, ControlAssumption DEF StopAll, ControlAssumption
  <2> QED
    BY <1>10, <2>1 DEF StopAll
<1>11. CASE Snapshot(c) \/ ManagedCallReturns(c)
  BY <1>11 DEF Snapshot, ManagedCallReturns
<1> QED
  BY <1>1, <1>2, <1>3, <1>4, <1>5, <1>6, <1>7, <1>8, <1>9, <1>10, <1>11 DEF ManagerStep

(* Who holds the two locks. *)
LEMMA ManagerKeepsLocks ==
  ASSUME ManagerTypes, NEW c \in Callers, ManagerStep(c)
  PROVE  ctl' \in Callers \cup {Nobody} /\ gate' \in Callers \cup {Nobody}
<1> USE DEF ManagerTypes
<1>1. StartModule(c) => ctl' \in {ctl, c}
  BY DEF StartModule
<1>2. ctl' \in {ctl, c, Nobody}
  BY <1>1 DEF ManagerStep, StartEnabled, SelectEnabled, StartIfEnabled,
        StartRefused, StartCurrent, FirstCycleSeen, FirstCycleTimesOut, Enable,
        EnableVetoed, Disable, PauseForUgcap, ResumeApproved, ResumeDenied,
        RestartModuleGeneration, StopAll, Snapshot, ManagedCallReturns
<1>3. gate' \in {gate, c, Nobody}
  BY DEF ManagerStep, StartEnabled, SelectEnabled, StartIfEnabled,
        StartRefused, StartCurrent, FirstCycleSeen, FirstCycleTimesOut, Enable,
        EnableVetoed, Disable, PauseForUgcap, ResumeApproved, ResumeDenied,
        RestartModuleGeneration, StopAll, Snapshot, ManagedCallReturns
<1> QED
  BY <1>2, <1>3

(* stop_all and set_enabled silence the worker; nothing that is under way   *)
(* starts it while the manager is shut down or it is not selected.          *)
LEMMA ManagerStaysQuiet ==
  ASSUME MInv, NEW c \in Callers, ManagerStep(c) \/ Watched(c) \/ Asked(c)
  PROVE  OffMeansQuiet'
<1> USE DEF MInv, policy
<1>q. OffMeansQuiet <=> (shutdown \/ ~enabled => Quiet)
  BY DEF OffMeansQuiet, Quiet
<1>r. OffMeansQuiet' <=> (shutdown' \/ ~enabled' => Quiet')
  BY DEF OffMeansQuiet, Quiet
<1>1. ASSUME Stop(c) PROVE OffMeansQuiet'
  BY <1>1, <1>r, StopQuiets
<1>2. ASSUME enabled', ~shutdown' PROVE OffMeansQuiet'
  BY <1>2 DEF OffMeansQuiet
<1>3. ASSUME PassiveStep, shutdown' => shutdown, (enabled => enabled')
      PROVE  OffMeansQuiet'
  BY <1>3, <1>q, <1>r, PassiveKeeps
<1>4. CASE \/ StartEnabled(c) \/ SelectEnabled(c) \/ StartIfEnabled(c) \/ StartRefused(c)
           \/ FirstCycleSeen(c) \/ FirstCycleTimesOut(c) \/ EnableVetoed(c)
           \/ ResumeApproved(c) \/ ResumeDenied(c)
  <2>1. UNCHANGED vars /\ (shutdown' => shutdown) /\ (enabled => enabled')
    BY <1>4 DEF StartEnabled, SelectEnabled, StartIfEnabled, StartRefused,
        FirstCycleSeen, FirstCycleTimesOut, EnableVetoed, ResumeApproved, ResumeDenied
  <2> QED
    BY <1>3, <2>1 DEF PassiveStep
<1>5. CASE Snapshot(c) \/ Watched(c) \/ ManagedCallReturns(c)
  <2>1. (Observe(c) \/ FinishCall(c)) /\ UNCHANGED <<shutdown, enabled>>
    BY <1>5 DEF Snapshot, Watched, ManagedCallReturns
  <2> QED
    BY <1>3, <2>1 DEF PassiveStep
<1>6. CASE StartCurrent(c) \/ RestartModuleGeneration(c) \/ Asked(c)
  BY <1>2, <1>6 DEF StartCurrent, MayStart, RestartModuleGeneration, Asked, MayRestart
<1>7. CASE Enable(c)
  BY <1>1, <1>2, <1>7 DEF Enable
<1>8. CASE Disable(c) \/ StopAll(c)
  BY <1>1, <1>8 DEF Disable, StopAll
<1>9. CASE PauseForUgcap(c)
  <2>1. (Stop(c) \/ UNCHANGED vars) /\ UNCHANGED <<shutdown, enabled>>
    BY <1>9 DEF PauseForUgcap
  <2> QED
    BY <1>1, <1>3, <2>1 DEF PassiveStep
<1> QED
  BY <1>4, <1>5, <1>6, <1>7, <1>8, <1>9 DEF ManagerStep

(* A worker that should run and is shown as stopped; a thread that is on    *)
(* its way to start it.                                                     *)
Missing == enabled /\ active /\ ~shutdown /\ status = "stopped" /\ ~excused

StartsIt(c) == /\ job[c].task \in {"select", "stage", "start"}
               /\ job[c].control = control

(* A selected worker is not dropped: whoever stops it puts it on hold or    *)
(* deselects it, and whoever gives up starting it does the same.            *)
LEMMA ManagerForgetsNobody ==
  ASSUME MInv, NEW c \in Callers, ManagerStep(c) \/ Watched(c) \/ Asked(c)
  PROVE  NoForgottenWorker'
<1> USE DEF MInv
<1>q. Missing => (held /\ paused) \/ \E d \in Callers : StartsIt(d)
  BY DEF NoForgottenWorker, Missing, StartsIt
<1>r. (Missing' => (held' /\ paused') \/ \E d \in Callers : StartsIt(d)')
      => NoForgottenWorker'
  BY DEF NoForgottenWorker, Missing, StartsIt
<1>t. job \in [Callers -> Jobs] /\ control \in 0 .. MaxControls
  BY DEF ManagerTypes
<1>k. {"select", "stage", "start", "await"} \subseteq Tasks
  BY DEF Tasks
(* The worker is shown as working, or is on hold.                           *)
<1>1. ASSUME status' # "stopped" PROVE NoForgottenWorker'
  BY <1>1, <1>r DEF Missing
<1>2. ASSUME held', paused' PROVE NoForgottenWorker'
  BY <1>2, <1>r
(* Nothing is taken from the hold list and no thread gives up.              *)
<1>3. ASSUME Missing' => Missing, held => held', paused => paused',
             UNCHANGED <<control, job>>
      PROVE  NoForgottenWorker'
  <2>1. \A d \in Callers : StartsIt(d) => StartsIt(d)'
    BY <1>3 DEF StartsIt
  <2> QED
    BY <1>3, <1>q, <1>r, <2>1
(* One thread that was not going to start the worker takes a job or ends.   *)
<1>4. ASSUME Missing' => Missing, UNCHANGED <<control, held, paused>>, ~StartsIt(c),
             \A d \in Callers \ {c} : job'[d] = job[d]
      PROVE  NoForgottenWorker'
  <2>1. \A d \in Callers : StartsIt(d) => StartsIt(d)'
    BY <1>4 DEF StartsIt
  <2> QED
    BY <1>4, <1>q, <1>r, <2>1
(* This thread is going to start it.                                        *)
<1>5. ASSUME StartsIt(c)' PROVE NoForgottenWorker'
  BY <1>5, <1>r
<1>n. job[c] = NoJob => ~StartsIt(c)
  BY DEF NoJob, StartsIt
<1>6. CASE StartEnabled(c)
  <2>1. control' = control + 1 /\ control' \in 0 .. MaxControls /\ SetJob(c, "select", control')
    BY <1>6, <1>t, ControlAssumption DEF StartEnabled, ControlAssumption
  <2>2. job'[c].task = "select" /\ job'[c].control = control'
    BY <1>k, <1>t, <2>1, JobIsSet
  <2> QED
    BY <1>5, <2>2 DEF StartsIt
<1>7. CASE SelectEnabled(c)
  <2>1. UNCHANGED <<vars, policy>> /\ job[c].task = "select"
    BY <1>7 DEF SelectEnabled
  <2>2. CASE enabled /\ SetJob(c, "stage", job[c].control) /\ UNCHANGED excused
    <3>1. job[c].control \in 0 .. MaxControls
      BY <1>t DEF Jobs
    <3>2. /\ job'[c].task = "stage" /\ job'[c].control = job[c].control
          /\ \A d \in Callers \ {c} : job'[d] = job[d]
      BY <1>k, <1>t, <2>2, <3>1, JobIsSet
    <3>3. CASE StartsIt(c)
      BY <1>5, <2>1, <3>2, <3>3 DEF StartsIt, policy
    <3>4. CASE ~StartsIt(c)
      <4>1. Missing' => Missing
        BY <2>1, <2>2 DEF Missing, vars, policy
      <4> QED
        BY <1>4, <2>1, <3>2, <3>4, <4>1 DEF policy
    <3> QED
      BY <3>3, <3>4
  <2>3. CASE excused' = (excused \/ enabled)
    BY <1>r, <2>1, <2>3 DEF Missing, policy
  <2> QED
    BY <1>7, <2>2, <2>3 DEF SelectEnabled
<1>8. CASE StartIfEnabled(c)
  <2>1. \A d \in Callers \ {c} : job'[d] = job[d]
    BY <1>8, <1>k, <1>t, JobIsSet DEF StartIfEnabled
  <2>2. (Missing' => Missing) /\ UNCHANGED <<control, held, paused>> /\ job[c] = NoJob
    BY <1>8 DEF StartIfEnabled, Missing, vars, policy
  <2> QED
    BY <1>4, <1>n, <2>1, <2>2
<1>9. CASE StartRefused(c)
  <2>1. /\ UNCHANGED <<vars, enabled, active, shutdown, control, paused, excused>>
        /\ held' = (held \/ MayStart(job[c].control))
        /\ ~MayStart(job[c].control) \/ paused
    BY <1>9 DEF StartRefused
  <2>2. \A d \in Callers \ {c} : job'[d] = job[d]
    BY <1>9, <1>t, JobIsDropped DEF StartRefused
  <2>3. Missing' => Missing
    BY <2>1 DEF Missing, vars
  <2>4. CASE MayStart(job[c].control)
    BY <1>2, <2>1, <2>4
  <2>5. CASE ~MayStart(job[c].control) /\ ~Missing'
    BY <1>r, <2>5
  <2>6. CASE ~MayStart(job[c].control) /\ Missing'
    <3>1. ~StartsIt(c)
      BY <2>3, <2>6 DEF MayStart, Missing, StartsIt
    <3>2. held' = held
      BY <2>1, <2>6 DEF ManagerTypes
    <3> QED
      BY <1>4, <2>1, <2>2, <2>3, <3>1, <3>2
  <2> QED
    BY <2>4, <2>5, <2>6
<1>10. CASE StartCurrent(c)
  BY <1>1, <1>10, StartShows DEF StartCurrent
<1>11. CASE FirstCycleSeen(c) \/ FirstCycleTimesOut(c)
  <2>1. /\ UNCHANGED <<vars, policy, excused>> /\ ~StartsIt(c)
        /\ job' = [job EXCEPT ![c] = NoJob]
    BY <1>11 DEF FirstCycleSeen, FirstCycleTimesOut, StartsIt
  <2>2. \A d \in Callers \ {c} : job'[d] = job[d]
    BY <1>t, <2>1, JobIsDropped
  <2>3. (Missing' => Missing) /\ UNCHANGED <<control, held, paused>>
    BY <2>1 DEF Missing, vars, policy
  <2> QED
    BY <1>4, <2>1, <2>2, <2>3
<1>12. CASE Enable(c)
  <2>1. CASE ~shutdown /\ ~paused
    BY <1>1, <1>12, <2>1, StartShows DEF Enable
  <2>2. CASE shutdown
    BY <1>r, <1>12, <2>2 DEF Enable, Missing
  <2>3. CASE ~shutdown /\ paused
    BY <1>2, <1>12, <2>3 DEF Enable
  <2> QED
    BY <2>1, <2>2, <2>3
<1>13. CASE EnableVetoed(c) \/ Disable(c) \/ StopAll(c)
  BY <1>r, <1>13 DEF EnableVetoed, Disable, StopAll, Missing
<1>14. CASE PauseForUgcap(c)
  <2>1. CASE status = "running"
    BY <1>2, <1>14, <2>1 DEF PauseForUgcap
  <2>2. CASE status # "running"
    <3>1. /\ Missing' => Missing
          /\ UNCHANGED <<held, control, job>> /\ (paused => paused')
      BY <1>14, <2>2 DEF PauseForUgcap, Missing, vars
    <3> QED
      BY <1>3, <3>1
  <2> QED
    BY <2>1, <2>2
<1>15. CASE ResumeApproved(c)
  <2>1. Missing' => Missing
    BY <1>15 DEF ResumeApproved, Missing, vars
  <2>2. CASE held
    <3>1. SetJob(c, "start", control) /\ control' = control
      BY <1>15, <2>2 DEF ResumeApproved
    <3>2. job'[c].task = "start" /\ job'[c].control = control
      BY <1>k, <1>t, <3>1, JobIsSet
    <3> QED
      BY <1>5, <3>1, <3>2 DEF StartsIt
  <2>3. CASE ~held
    <3>1. UNCHANGED <<control, job>>
      BY <1>15, <2>3 DEF ResumeApproved
    <3>2. \A d \in Callers : StartsIt(d) => StartsIt(d)'
      BY <3>1 DEF StartsIt
    <3> QED
      BY <1>q, <1>r, <2>1, <2>3, <3>2
  <2> QED
    BY <2>2, <2>3
<1>16. CASE ResumeDenied(c)
  <2>1. /\ Missing' => Missing
        /\ UNCHANGED <<held, control, job>> /\ (paused => paused')
    BY <1>16 DEF ResumeDenied, Missing, vars
  <2> QED
    BY <1>3, <2>1
<1>17. CASE RestartModuleGeneration(c)
  BY <1>1, <1>2, <1>17, StartShows DEF RestartModuleGeneration
<1>18. CASE Snapshot(c) \/ Watched(c) \/ ManagedCallReturns(c)
  <2>1. (Observe(c) \/ FinishCall(c)) /\ UNCHANGED <<policy, job, excused>>
    BY <1>18 DEF Snapshot, Watched, ManagedCallReturns
  <2>2. status' = "stopped" => status = "stopped"
    BY <2>1, PassiveKeeps DEF PassiveStep
  <2> QED
    BY <1>3, <2>1, <2>2 DEF Missing, policy
<1>19. CASE Asked(c)
  BY <1>1, <1>19, StartShows DEF Asked
<1> QED
  BY <1>6, <1>7, <1>8, <1>9, <1>10, <1>11, <1>12, <1>13, <1>14, <1>15, <1>16,
     <1>17, <1>18, <1>19 DEF ManagerStep

(* The invariant of the managed worker is inductive.                        *)
LEMMA ManagedKeeps ==
  ASSUME MInv, ManagedStep
  PROVE  MInv'
<1>1. IInv' /\ RequestHasGeneration'
  BY ManagedIsLifecycle, NextIInv, NextRequestHasGeneration DEF MInv
<1>2. ASSUME NEW c \in Callers, ManagerStep(c) \/ Watched(c) \/ Asked(c) PROVE MInv'
  <2>1. ManagerTypes'
    <3>1. CASE ManagerStep(c)
      BY <3>1, ManagerKeepsTypes, ManagerKeepsLocks DEF MInv, ManagerTypes
    <3>2. CASE Watched(c) \/ Asked(c)
      BY <3>2 DEF Watched, Asked, policy, MInv, ManagerTypes
    <3> QED
      BY <1>2, <3>1, <3>2
  <2> QED
    BY <1>1, <1>2, <2>1, ManagerStaysQuiet, ManagerForgetsNobody DEF MInv
<1>3. CASE PutOnHold
  <2>1. ManagerTypes'
    BY <1>3 DEF PutOnHold, MInv, ManagerTypes
  <2>2. OffMeansQuiet'
    BY <1>3 DEF PutOnHold, vars, MInv, OffMeansQuiet
  <2>3. NoForgottenWorker'
    BY <1>3 DEF PutOnHold, vars, MInv, NoForgottenWorker
  <2> QED
    BY <1>1, <2>1, <2>2, <2>3 DEF MInv
<1>4. CASE WorkerSide \/ UNCHANGED mvars
  <2>1. UNCHANGED <<policy, ctl, gate, job, excused>> /\ PassiveStep
    BY <1>4 DEF WorkerSide, PassiveStep, mvars
  <2>2. (Quiet => Quiet') /\ (status' = "stopped" => status = "stopped")
    BY <2>1, PassiveKeeps DEF MInv
  <2>3. ManagerTypes'
    BY <2>1 DEF policy, MInv, ManagerTypes
  <2>4. OffMeansQuiet'
    BY <2>1, <2>2 DEF policy, MInv, OffMeansQuiet, Quiet
  <2>5. NoForgottenWorker'
    BY <2>1, <2>2 DEF policy, MInv, NoForgottenWorker
  <2> QED
    BY <1>1, <2>3, <2>4, <2>5 DEF MInv
<1> QED
  BY <1>2, <1>3, <1>4 DEF ManagedStep

LEMMA InitMInv == MInit => MInv
<1> SUFFICES ASSUME MInit PROVE MInv
  OBVIOUS
<1>1. IInv
  BY InitIInv DEF MInit
<1>2. RequestHasGeneration
  BY DEF MInit, Init, RequestHasGeneration
<1>3. ManagerTypes
  <2>1. NoJob \in Jobs /\ 0 \in 0 .. MaxControls
    BY ControlAssumption DEF ControlAssumption, NoJob, Jobs, Tasks
  <2> QED
    BY <2>1 DEF MInit, ManagerTypes
<1>4. OffMeansQuiet /\ NoForgottenWorker
  BY DEF MInit, Init, OffMeansQuiet, NoForgottenWorker
<1> QED
  BY <1>1, <1>2, <1>3, <1>4 DEF MInv

LEMMA ManagerInvariance == MSpec => []MInv
<1>1. MInv /\ [MNext]_mvars => MInv'
  BY ManagedKeeps DEF MNext, ManagedStep
<1> QED
  BY <1>1, InitMInv, PTL DEF MSpec

(* The manager implements the lifecycle API's contract of use: every        *)
(* behaviour of manager and worker is one of ModuleLifecycle, so that all   *)
(* that is proved there (NoOverlap, StoppedHonest, SpawnOnce, StopIsFinal)  *)
(* holds under ModuleManager.                                               *)
THEOREM ManagerUsesTheApi == MSpec => Spec
<1>1. MInit => Init
  BY DEF MInit
<1>2. [MNext]_mvars => [Next]_vars
  BY ManagedIsLifecycle DEF MNext, ManagedStep
<1> QED
  BY <1>1, <1>2, PTL DEF MSpec, Spec

(* The variables of the manager and the worker keep their types.            *)
THEOREM ManagerTypeCorrect == MSpec => []MTypeOK
<1>1. MInv => MTypeOK
  BY DEF MInv, IInv, ManagerTypes, MTypeOK
<1> QED
  BY <1>1, ManagerInvariance, PTL

(* stop_all and set_enabled(name, False) win over every start, restart and   *)
(* resume that was under way, whoever made it and however late it goes on.   *)
THEOREM OffHolds == MSpec => []OffMeansQuiet
<1>1. MInv => OffMeansQuiet
  BY DEF MInv
<1> QED
  BY <1>1, ManagerInvariance, PTL

(* A selected worker is never dropped between pause_for_ugcap,               *)
(* resume_after_ugcap, start_enabled and a refused start.                    *)
THEOREM ForgottenHolds == MSpec => []NoForgottenWorker
<1>1. MInv => NoForgottenWorker
  BY DEF MInv
<1> QED
  BY <1>1, ManagerInvariance, PTL

-----------------------------------------------------------------------------
(***************************************************************************)
(* The watchdog.                                                           *)
(***************************************************************************)

(* The entry of the worker is what the sweeps have seen of it, and an       *)
(* accepted restart was charged before it was asked for.                    *)
BudgetInv ==
    /\ debt \in [attempts : 0 .. MaxRestarts, waiting : BOOLEAN,
                 stable : Windows, reported : BOOLEAN]
    /\ spent \in Nat
    /\ debt.stable = quiet
    /\ spent <= debt.attempts
    /\ sweep = "ask" => spent < debt.attempts

(* What a sweep does to an entry.                                           *)
LEMMA Entries ==
  ASSUME BudgetInv
  PROVE  /\ debt.attempts \in 0 .. MaxRestarts /\ debt.waiting \in BOOLEAN
         /\ debt.stable \in Windows /\ debt.reported \in BOOLEAN
         /\ debt = NoDebt => debt.attempts = 0 /\ debt.stable = "none"
         /\ NoDebt.attempts = 0 /\ NoDebt.stable = "none"
         /\ NoDebt \in [attempts : 0 .. MaxRestarts, waiting : BOOLEAN,
                        stable : Windows, reported : BOOLEAN]
  BY WatchdogAssumption DEF WatchdogAssumption, BudgetInv, NoDebt, Windows

(* The looks at the worker.                                                 *)
LEMMA LookSteps ==
  ASSUME BudgetInv, LookDisabled \/ LookEnabled \/ SampleUnavailable \/ SampleExhausted
  PROVE  BudgetInv'
<1> USE WatchdogAssumption, Entries DEF WatchdogAssumption, BudgetInv
<1>1. CASE LookDisabled
  BY <1>1 DEF LookDisabled
<1>2. CASE LookEnabled
  BY <1>2 DEF LookEnabled, SweepTo
<1>3. CASE SampleUnavailable
  BY <1>3 DEF SampleUnavailable, SweepTo, Windows
<1>4. CASE SampleExhausted
  BY <1>4 DEF SampleExhausted, SweepTo, Windows
<1> QED
  BY <1>1, <1>2, <1>3, <1>4

(* A healthy sample forgives exactly when the window was seen to pass.      *)
LEMMA HealthySteps ==
  ASSUME BudgetInv, SampleHealthy
  PROVE  BudgetInv'
<1> USE DEF BudgetInv
<1>1. sweep' = "idle"
  BY DEF SampleHealthy, SweepTo
<1>2. CASE quiet = "over"
  <2>1. debt' = NoDebt /\ spent' = 0 /\ quiet' = "none"
    BY <1>2 DEF SampleHealthy
  <2> QED
    BY <1>1, <2>1, Entries
<1>3. CASE quiet # "over" /\ ~Owes
  <2>1. debt' = NoDebt /\ spent' = spent /\ quiet' = "none"
    BY <1>3 DEF SampleHealthy
  <2>2. spent = 0
    BY <1>3, Entries DEF Owes
  <2> QED
    BY <1>1, <2>1, <2>2, Entries
<1>4. CASE quiet # "over" /\ Owes
  <2>1. debt' = [debt EXCEPT !.stable = "open"] /\ spent' = spent /\ quiet' = "open"
    BY <1>4 DEF SampleHealthy
  <2> QED
    BY <1>1, <2>1, Entries DEF Windows
<1> QED
  BY <1>2, <1>3, <1>4

(* A faulty sample charges the attempt it asks for.                         *)
LEMMA FaultSteps ==
  ASSUME BudgetInv, SampleFault
  PROVE  BudgetInv'
<1> USE WatchdogAssumption, Entries DEF WatchdogAssumption, BudgetInv
<1>1. quiet' = "none" /\ spent' = spent /\ debt.attempts < MaxRestarts
  BY DEF SampleFault
<1>2. CASE debt.waiting
  <2>1. debt' = [debt EXCEPT !.stable = "none"] /\ sweep' = "idle"
    BY <1>2 DEF SampleFault, SweepTo
  <2>2. /\ debt' \in [attempts : 0 .. MaxRestarts, waiting : BOOLEAN,
                      stable : Windows, reported : BOOLEAN]
        /\ debt'.stable = "none" /\ debt'.attempts = debt.attempts
    BY <2>1 DEF Windows
  <2> QED
    BY <1>1, <2>1, <2>2
<1>3. CASE ~debt.waiting
  <2>1. debt' = [debt EXCEPT !.stable = "none", !.waiting = TRUE, !.attempts = @ + 1]
    BY <1>3 DEF SampleFault
  <2>2. /\ debt' \in [attempts : 0 .. MaxRestarts, waiting : BOOLEAN,
                      stable : Windows, reported : BOOLEAN]
        /\ debt'.stable = "none" /\ debt'.attempts = debt.attempts + 1
    <3>1. debt.attempts + 1 \in 0 .. MaxRestarts
      BY <1>1
    <3>2. /\ debt \in [attempts : 0 .. MaxRestarts, waiting : BOOLEAN,
                       stable : Windows, reported : BOOLEAN]
          /\ "none" \in Windows
      BY DEF Windows
    <3> HIDE DEF BudgetInv
    <3> QED
      BY <2>1, <3>1, <3>2
  <2> QED
    BY <1>1, <2>2
<1> QED
  BY <1>2, <1>3

(* The manager's answer.                                                    *)
LEMMA AskSteps ==
  ASSUME BudgetInv, AskAccepted \/ AskRefused \/ AskReturns
  PROVE  BudgetInv'
<1> USE WatchdogAssumption, Entries DEF WatchdogAssumption, BudgetInv, SweepTo
<1>1. CASE AskAccepted
  <2>1. sweep = "ask" /\ sweep' = "asked" /\ spent' = spent + 1 /\ UNCHANGED <<debt, quiet>>
    BY <1>1 DEF AskAccepted
  <2> QED
    BY <2>1
<1>2. CASE AskRefused
  <2>1. sweep' = "idle" /\ UNCHANGED <<spent, debt, quiet>>
    BY <1>2 DEF AskRefused
  <2> QED
    BY <2>1
<1>3. CASE AskReturns
  <2>1. sweep' = "idle" /\ UNCHANGED <<spent, debt, quiet>>
    BY <1>3 DEF AskReturns
  <2> QED
    BY <2>1
<1> QED
  BY <1>1, <1>2, <1>3

(* Time opens and closes windows in the entry and in what was seen alike.   *)
LEMMA TimeSteps ==
  ASSUME BudgetInv, BackoffPasses \/ WindowPasses
  PROVE  BudgetInv'
<1> USE Entries DEF BudgetInv
<1>1. CASE BackoffPasses
  BY <1>1 DEF BackoffPasses
<1>2. CASE WindowPasses
  <2>1. quiet = "open" /\ debt' = [debt EXCEPT !.stable = "over"] /\ quiet' = "over"
        /\ UNCHANGED <<sweep, spent>>
    BY <1>2 DEF WindowPasses
  <2> QED
    BY <2>1 DEF Windows
<1> QED
  BY <1>1, <1>2

(* The invariant is inductive: nothing but the watchdog touches its entry.  *)
LEMMA NextBudgetInv == BudgetInv /\ [WNext]_wdvars => BudgetInv'
<1> SUFFICES ASSUME BudgetInv, [WNext]_wdvars PROVE BudgetInv'
  OBVIOUS
<1>1. ASSUME UNCHANGED <<sweep, debt, spent, quiet>> PROVE BudgetInv'
  BY <1>1 DEF BudgetInv
<1>2. ASSUME Sweep PROVE BudgetInv'
  BY <1>2, LookSteps, HealthySteps, FaultSteps, AskSteps DEF Sweep
<1> QED
  BY <1>1, <1>2, TimeSteps DEF WNext, Others, wdvars

LEMMA InitBudgetInv == WInit => BudgetInv
  BY WatchdogAssumption DEF WatchdogAssumption, WInit, BudgetInv, NoDebt, Windows

(* BudgetHolds: the watchdog never has more than MAX_RESTARTS restarts      *)
(* accepted between two stability windows it has seen pass, for any budget  *)
(* and any behaviour of the worker, the manager and the operators.          *)
THEOREM BudgetIsKept == WSpec => []BudgetHolds
<1>1. BudgetInv => BudgetHolds
  BY Entries, WatchdogAssumption DEF WatchdogAssumption, BudgetInv, BudgetHolds
<1> QED
  BY <1>1, InitBudgetInv, NextBudgetInv, PTL DEF WSpec

(* Between its restart calls the watchdog thread has none under way.        *)
WatchdogIdle == sweep # "asked" => call[Watchdog] = NoCall

LEMMA SweepIsManaged ==
  ASSUME WatchdogIdle, [WNext]_wdvars
  PROVE  ManagedStep
<1>w. Watchdog \in Callers
  BY WatchdogAssumption DEF WatchdogAssumption
<1>1. CASE SampleFault
  <2>1. call[Watchdog] = NoCall
    BY <1>1 DEF SampleFault, WatchdogIdle
  <2>2. Watched(Watchdog)
    BY <1>1, <2>1 DEF SampleFault, Watched, Observe, Seen, OnlySeen
  <2> QED
    BY <1>w, <2>2 DEF ManagedStep
<1>2. CASE AskAccepted
  <2>1. Asked(Watchdog)
    BY <1>2 DEF AskAccepted, Asked
  <2> QED
    BY <1>w, <2>1 DEF ManagedStep
<1>3. CASE AskRefused
  BY <1>3 DEF AskRefused, PutOnHold, ManagedStep
<1>4. CASE AskReturns
  <2>1. ManagerStep(Watchdog)
    BY <1>4 DEF AskReturns, ManagerStep
  <2> QED
    BY <1>w, <2>1 DEF ManagedStep
<1>5. CASE \/ LookDisabled \/ LookEnabled \/ SampleUnavailable \/ SampleHealthy
           \/ SampleExhausted \/ BackoffPasses \/ WindowPasses \/ UNCHANGED wdvars
  <2>1. UNCHANGED mvars
    BY <1>5 DEF LookDisabled, LookEnabled, SampleUnavailable, SampleHealthy,
                SampleExhausted, BackoffPasses, WindowPasses, wdvars
  <2> QED
    BY <2>1 DEF ManagedStep
<1>6. CASE Others
  BY <1>6 DEF Others, ManagedStep
<1> QED
  BY <1>1, <1>2, <1>3, <1>4, <1>5, <1>6 DEF WNext, Sweep

LEMMA NextWatchdogIdle ==
  ASSUME WatchdogIdle, MInv, [WNext]_wdvars
  PROVE  WatchdogIdle'
<1> USE DEF WatchdogIdle
<1>t. Watchdog \in Callers /\ call \in [Callers -> Calls]
  BY WatchdogAssumption DEF WatchdogAssumption, MInv, IInv, TypeOK
<1>u. ASSUME UNCHANGED call, sweep = "asked" => sweep' = "asked" PROVE WatchdogIdle'
  BY <1>u
<1>1. CASE AskReturns
  BY <1>1, <1>t DEF AskReturns, ManagedCallReturns, FinishCall
<1>2. CASE AskAccepted
  BY <1>2 DEF AskAccepted, SweepTo
<1>3. CASE \/ LookDisabled \/ LookEnabled \/ SampleUnavailable \/ SampleHealthy
           \/ SampleFault \/ SampleExhausted \/ AskRefused
           \/ BackoffPasses \/ WindowPasses \/ UNCHANGED wdvars
  BY <1>3, <1>u
  DEF LookDisabled, LookEnabled, SampleUnavailable, SampleHealthy, SampleFault,
      OnlySeen, SampleExhausted, AskRefused, BackoffPasses, WindowPasses,
      wdvars, mvars, vars
<1>4. ASSUME NEW c \in Callers \ {Watchdog}, ManagerStep(c)
      PROVE  call'[Watchdog] = call[Watchdog]
  <2>1. ASSUME StartModule(c) \/ FinishCall(c) \/ RestartIfGeneration(c)
               \/ RestartFaultedGeneration(c)
        PROVE  call'[Watchdog] = call[Watchdog]
    BY <2>1, <1>t
    DEF StartModule, StartFresh, StartDeferred, FinishCall, RestartIfGeneration,
        RestartFaultedGeneration, RestartGeneration, vars
  <2>2. ASSUME Stop(c) \/ Observe(c) \/ UNCHANGED vars
        PROVE  call'[Watchdog] = call[Watchdog]
    BY <2>2 DEF Stop, Observe, vars
  <2>3. \/ StartModule(c) \/ FinishCall(c) \/ RestartIfGeneration(c)
        \/ RestartFaultedGeneration(c) \/ Stop(c) \/ Observe(c) \/ UNCHANGED vars
    BY <1>4
    DEF ManagerStep, StartEnabled, SelectEnabled, StartIfEnabled, StartRefused,
        StartCurrent, FirstCycleSeen, FirstCycleTimesOut, Enable, EnableVetoed,
        Disable, PauseForUgcap, ResumeApproved, ResumeDenied,
        RestartModuleGeneration, StopAll, Snapshot, ManagedCallReturns
  <2> QED
    BY <2>1, <2>2, <2>3
<1>5. ASSUME WorkerSide PROVE call' = call
  BY <1>5 DEF WorkerSide, WaiterWakes, DeadlinePasses, WorkerStep, WorkerOnly,
        DelayEnds, CycleCompletes, RunReturns, PublishExit, RunCrashes,
        Quarantine, ThreadEnds, BackoffEnds, Resume
<1>6. CASE Others
  BY <1>4, <1>5, <1>6 DEF Others
<1> QED
  BY <1>1, <1>2, <1>3, <1>6 DEF WNext, Sweep

LEMMA WatchdogInvariance == WSpec => [](MInv /\ WatchdogIdle)
<1>1. WInit => MInv /\ WatchdogIdle
  <2>1. WInit => WatchdogIdle
    BY WatchdogAssumption DEF WInit, MInit, Init, WatchdogIdle, WatchdogAssumption
  <2> QED
    BY <2>1, InitMInv DEF WInit
<1>2. MInv /\ WatchdogIdle /\ [WNext]_wdvars => (MInv /\ WatchdogIdle)'
  BY SweepIsManaged, ManagedKeeps, NextWatchdogIdle
<1> QED
  BY <1>1, <1>2, PTL DEF WSpec

(* The watchdog is one more caller of the lifecycle API: what holds of the   *)
(* worker for any callers holds with the watchdog at work.                  *)
THEOREM WatchdogUsesTheApi == WSpec => Spec
<1>1. WInit => Init
  BY DEF WInit, MInit
<1>2. WatchdogIdle /\ [WNext]_wdvars => [Next]_vars
  BY SweepIsManaged, ManagedIsLifecycle
<1> QED
  BY <1>1, <1>2, WatchdogInvariance, PTL DEF WSpec, Spec

(* With the watchdog sampling and restarting while the suite starts, pauses, *)
(* resumes and shuts down, off still means quiet, and a refused restart that *)
(* meets the closed gate loses no worker.                                   *)
THEOREM WatchdogRespectsOff == WSpec => [](OffMeansQuiet /\ NoForgottenWorker)
<1>1. MInv => OffMeansQuiet /\ NoForgottenWorker
  BY DEF MInv
<1> QED
  BY <1>1, WatchdogInvariance, PTL

(* A new generation of a managed worker is born only of a selected worker of *)
(* a manager that is not shut down: a start looks before it spawns, and a    *)
(* spawn of a call or of the waiter serves a request that no stop has ended. *)
LEMMA BornSelected ==
  ASSUME MInv, ManagedStep, gen' # gen
  PROVE  enabled' /\ ~shutdown'
<1>1. ASSUME NEW c \in Callers, FinishCall(c), UNCHANGED <<enabled, shutdown>>
      PROVE  enabled' /\ ~shutdown'
  <2>1. request # 0
    BY <1>1 DEF FinishCall, MInv, IInv, RequestFresh
  <2>2. gen # 0
    BY <2>1 DEF MInv, RequestHasGeneration
  <2> QED
    BY <1>1, <2>1, <2>2 DEF MInv, OffMeansQuiet, ManagerTypes
<1>2. ASSUME WorkerSide PROVE enabled' /\ ~shutdown'
  <2>1. WaiterWakes
    BY <1>2 DEF WorkerSide, DeadlinePasses, WorkerStep, WorkerOnly,
                DelayEnds, CycleCompletes, RunReturns, PublishExit, RunCrashes,
                Quarantine, ThreadEnds, BackoffEnds, Resume
  <2>2. request # 0
    BY <2>1 DEF WaiterWakes
  <2>3. gen # 0
    BY <2>2 DEF MInv, RequestHasGeneration
  <2> QED
    BY <1>2, <2>2, <2>3 DEF WorkerSide, policy, MInv, OffMeansQuiet, ManagerTypes
<1>3. ASSUME NEW c \in Callers, StartCurrent(c) PROVE enabled' /\ ~shutdown'
  BY <1>3 DEF StartCurrent, MayStart, policy
<1>4. ASSUME NEW c \in Callers, Enable(c) PROVE enabled' /\ ~shutdown'
  BY <1>4 DEF Enable, Stop
<1>5. ASSUME NEW c \in Callers, ManagedCallReturns(c) PROVE enabled' /\ ~shutdown'
  BY <1>1, <1>5 DEF ManagedCallReturns, policy
<1>6. ASSUME NEW c \in Callers, ManagerStep(c)
      PROVE  StartCurrent(c) \/ Enable(c) \/ ManagedCallReturns(c)
  <2>1. Stop(c) \/ Observe(c) \/ RestartIfGeneration(c) \/ RestartFaultedGeneration(c)
        \/ UNCHANGED vars => FALSE
    BY DEF Stop, Observe, RestartIfGeneration, RestartFaultedGeneration,
           RestartGeneration, vars
  <2> QED
    BY <1>6, <2>1
    DEF ManagerStep, StartEnabled, SelectEnabled, StartIfEnabled, StartRefused,
        FirstCycleSeen, FirstCycleTimesOut, EnableVetoed, Disable, PauseForUgcap,
        ResumeApproved, ResumeDenied, RestartModuleGeneration, StopAll, Snapshot
<1>7. ASSUME NEW c \in Callers, Watched(c) \/ Asked(c) PROVE FALSE
  BY <1>7 DEF Watched, Asked, Observe, RestartFaultedGeneration, RestartGeneration
<1>8. ASSUME PutOnHold \/ UNCHANGED mvars PROVE FALSE
  BY <1>8 DEF PutOnHold, mvars, vars
<1> QED
  BY <1>2, <1>3, <1>4, <1>5, <1>6, <1>7, <1>8 DEF ManagedStep

(* RevivesOnlyTheSelected: whatever the watchdog sampled and however late    *)
(* its restart is decided or carried out, it never brings back a worker that *)
(* set_enabled deselected or stop_all shut down meanwhile.                  *)
THEOREM RevivesSelected == WSpec => RevivesOnlyTheSelected
<1>1. MInv /\ WatchdogIdle /\ [WNext]_wdvars
        => [gen' # gen => enabled' /\ ~shutdown']_wdvars
  BY SweepIsManaged, BornSelected
<1> QED
  BY <1>1, WatchdogInvariance, PTL DEF WSpec, RevivesOnlyTheSelected
=============================================================================
