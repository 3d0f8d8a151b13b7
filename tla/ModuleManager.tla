--------------------------- MODULE ModuleManager ---------------------------
(***************************************************************************)
(* The lifecycle authority over one capability worker: ModuleManager of    *)
(* core/module_manager.py, composed with the worker of ModuleLifecycle.    *)
(*                                                                         *)
(* Every operation holds _module_control_lock, also over the bounded join  *)
(* of a lifecycle call it makes (ctl is its holder).  start_enabled,       *)
(* start_if_enabled and resume_after_ugcap decide in one section and start *)
(* in a later one; what they remember in between is job[c].                *)
(*                                                                         *)
(* The worker is an ordinary capability: not the UGCAP guard, not one that *)
(* Chill pauses and not one with an optional policy.                       *)
(***************************************************************************)
EXTENDS ModuleLifecycle

CONSTANTS Watchers,     \* callers that restart by snapshot: watchdog, Self-Test
          Nobody,       \* the holder of a free lock
          MaxControls   \* bound: values of _control_generation

ASSUME ControlAssumption == /\ Watchers \subseteq Callers
                            /\ Nobody \notin Callers
                            /\ MaxControls \in Nat

VARIABLES
    enabled,     \* is_enabled: the saved selection
    active,      \* _runtime_active
    shutdown,    \* _shutdown
    control,     \* _control_generation
    paused,      \* _ugcap_paused
    held,        \* the worker is in _ugcap_held
    ctl,         \* holder of _module_control_lock
    gate,        \* holder of _ugcap_resume_lock
    job,         \* job[c]: what c has decided and not done yet
    excused      \* ghost: the operator's admission or Eco keeps the worker down

policy == <<enabled, active, shutdown, control, paused, held>>
mvars == <<vars, policy, ctl, gate, job, excused>>

NoJob == [task |-> "none", control |-> 0]
Tasks == {"none",
          "select",  \* start_enabled is about to read the selection
          "stage",   \* start_enabled is about to start the worker
          "await",   \* start_enabled waits for a first cycle
          "start"}   \* another caller of _start_current
Jobs == [task : Tasks, control : 0 .. MaxControls]

MInit == /\ Init
         /\ enabled \in BOOLEAN
         /\ active = FALSE
         /\ shutdown = FALSE
         /\ control = 0
         /\ paused = FALSE
         /\ held = FALSE
         /\ ctl = Nobody
         /\ gate = Nobody
         /\ job = [c \in Callers |-> NoJob]
         /\ excused = FALSE

Locked(c) == ctl = Nobody /\ call[c] = NoCall
SetJob(c, task, g) ==
    job' = [job EXCEPT ![c] = [task |-> task, control |-> g]]

----------------------------------------------------------------------------
(* mod.start() under the control lock, kept while the call joins. *)
StartModule(c) ==
    \/ StartFresh(c) /\ UNCHANGED ctl
    \/ StartDeferred(c) /\ ctl' = c
    \/ Alive(gen) /\ ~stopped[gen] /\ UNCHANGED <<vars, ctl>>

(* The lifecycle call returns and the control lock is released. *)
ManagedCallReturns(c) ==
    /\ FinishCall(c)
    /\ ctl' = Nobody
    /\ UNCHANGED <<policy, gate, job, excused>>

(* start_enabled, first section: a new control generation. *)
StartEnabled(c) ==
    /\ Locked(c) /\ job[c] = NoJob
    /\ control < MaxControls
    /\ control' = control + 1
    /\ active' = TRUE
    /\ shutdown' = FALSE
    /\ SetJob(c, "select", control + 1)
    /\ UNCHANGED <<vars, enabled, paused, held, ctl, gate, excused>>

(* start_enabled: the selection is read without the lock; Eco may defer.    *)
SelectEnabled(c) ==
    /\ job[c].task = "select"
    /\ \/ /\ enabled
          /\ SetJob(c, "stage", job[c].control)
          /\ UNCHANGED excused
       \/ /\ job' = [job EXCEPT ![c] = NoJob]
          /\ excused' = (excused \/ enabled)
    /\ UNCHANGED <<vars, policy, ctl, gate>>

(* start_if_enabled: remember the control generation, start later. *)
StartIfEnabled(c) ==
    /\ call[c] = NoCall /\ job[c] = NoJob
    /\ SetJob(c, "start", control)
    /\ UNCHANGED <<vars, policy, ctl, gate, excused>>

(* Fault: _start_current does not look at _shutdown. *)
MayStartAfterShutdown(g) == g = control /\ enabled

(* _start_current: the control generation is current, not shut down, and    *)
(* the worker is selected.                                                  *)
MayStart(g) == g = control /\ ~shutdown /\ enabled

(* Fault: a start refused by the closed gate does not put the worker on hold. *)
StartRefusedForgets(c) ==
    /\ job[c].task \in {"stage", "start"} /\ Locked(c)
    /\ ~MayStart(job[c].control) \/ paused
    /\ job' = [job EXCEPT ![c] = NoJob]
    /\ gate' = IF gate = c THEN Nobody ELSE gate
    /\ UNCHANGED <<vars, policy, ctl, excused>>

(* _start_current refuses; what UGCAP holds back is put on its hold list.   *)
StartRefused(c) ==
    /\ job[c].task \in {"stage", "start"} /\ Locked(c)
    /\ ~MayStart(job[c].control) \/ paused
    /\ held' = (held \/ MayStart(job[c].control))
    /\ job' = [job EXCEPT ![c] = NoJob]
    /\ gate' = IF gate = c THEN Nobody ELSE gate
    /\ UNCHANGED <<vars, enabled, active, shutdown, control, paused, ctl, excused>>

(* _start_current starts; start_enabled then waits for a first cycle.       *)
StartCurrent(c) ==
    /\ job[c].task \in {"stage", "start"} /\ Locked(c)
    /\ MayStart(job[c].control) /\ ~paused
    /\ StartModule(c)
    /\ IF job[c].task = "stage"
       THEN SetJob(c, "await", control)
       ELSE job' = [job EXCEPT ![c] = NoJob]
    /\ gate' = IF gate = c THEN Nobody ELSE gate
    /\ excused' = FALSE
    /\ UNCHANGED policy

(* wait_for_first_cycle returns True and the next worker may be started. *)
FirstCycleSeen(c) ==
    /\ job[c].task = "await" /\ call[c] = NoCall
    /\ firstCycle
    /\ job' = [job EXCEPT ![c] = NoJob]
    /\ UNCHANGED <<vars, policy, ctl, gate, excused>>

(* wait_for_first_cycle times out. *)
FirstCycleTimesOut(c) ==
    /\ job[c].task = "await" /\ call[c] = NoCall
    /\ ~firstCycle
    /\ job' = [job EXCEPT ![c] = NoJob]
    /\ UNCHANGED <<vars, policy, ctl, gate, excused>>

----------------------------------------------------------------------------
(* set_enabled(name, True): save, then start unless shut down or held. *)
Enable(c) ==
    /\ Locked(c) /\ job[c] = NoJob
    /\ enabled' = TRUE
    /\ held' = (held \/ (~shutdown /\ paused))
    /\ IF ~shutdown /\ ~paused THEN StartModule(c) ELSE Stop(c) /\ UNCHANGED ctl
    /\ excused' = FALSE
    /\ UNCHANGED <<active, shutdown, control, paused, gate, job>>

(* The same with a start_admission callback that vetoes the start. *)
EnableVetoed(c) ==
    /\ Locked(c) /\ job[c] = NoJob
    /\ ~shutdown /\ ~paused
    /\ enabled' = TRUE
    /\ excused' = TRUE
    /\ UNCHANGED <<vars, active, shutdown, control, paused, held, ctl, gate, job>>

(* set_enabled(name, False): save, then stop. *)
Disable(c) ==
    /\ Locked(c) /\ job[c] = NoJob
    /\ enabled' = FALSE
    /\ Stop(c)
    /\ UNCHANGED <<active, shutdown, control, paused, held, ctl, gate, job, excused>>

(* pause_for_ugcap: hold and stop the workers that are shown as running. *)
PauseForUgcap(c) ==
    /\ Locked(c) /\ job[c] = NoJob
    /\ paused' = TRUE
    /\ IF status = "running"
       THEN held' = TRUE /\ Stop(c)
       ELSE UNCHANGED <<held, vars>>
    /\ UNCHANGED <<enabled, active, shutdown, control, ctl, gate, job, excused>>

(* Fault: the hold list is cleared before it is taken over. *)
ResumeLosesHeld(c) ==
    /\ Locked(c) /\ job[c] = NoJob /\ gate = Nobody
    /\ ~shutdown
    /\ paused' = FALSE
    /\ held' = FALSE
    /\ UNCHANGED <<vars, enabled, active, shutdown, control, ctl, gate, job, excused>>

(* resume_after_ugcap, approved: open the gate and take over what was held. *)
ResumeApproved(c) ==
    /\ Locked(c) /\ job[c] = NoJob /\ gate = Nobody
    /\ ~shutdown
    /\ paused' = FALSE
    /\ held' = FALSE
    /\ IF held THEN /\ SetJob(c, "start", control)
                    /\ gate' = c
               ELSE UNCHANGED <<job, gate>>
    /\ UNCHANGED <<vars, enabled, active, shutdown, control, ctl, excused>>

(* resume_after_ugcap after a shutdown, or without a valid permit. *)
ResumeDenied(c) ==
    /\ Locked(c) /\ job[c] = NoJob /\ gate = Nobody
    /\ paused' = TRUE
    /\ UNCHANGED <<vars, enabled, active, shutdown, control, held, ctl, gate,
                   job, excused>>

(* restart_module_generation and its watchdog variant. *)
RestartModuleGeneration(c) ==
    /\ c \in Watchers /\ Locked(c) /\ job[c] = NoJob
    /\ ~shutdown /\ enabled
    /\ IF paused
       THEN held' = TRUE /\ UNCHANGED <<vars, ctl>>
       ELSE /\ RestartIfGeneration(c) \/ RestartFaultedGeneration(c)
            /\ ctl' = c
            /\ UNCHANGED held
    /\ UNCHANGED <<enabled, active, shutdown, control, paused, gate, job, excused>>

(* stop_all *)
StopAll(c) ==
    /\ Locked(c) /\ job[c] = NoJob
    /\ control < MaxControls
    /\ control' = control + 1
    /\ active' = FALSE
    /\ shutdown' = TRUE
    /\ Stop(c)
    /\ UNCHANGED <<enabled, paused, held, ctl, gate, job, excused>>

----------------------------------------------------------------------------
Snapshot(c) == c \in Watchers /\ Observe(c) /\ UNCHANGED <<policy, ctl, gate, job, excused>>

ManagerStep(c) ==
    \/ StartEnabled(c) \/ SelectEnabled(c) \/ StartIfEnabled(c)
    \/ StartRefused(c) \/ StartCurrent(c)
    \/ FirstCycleSeen(c) \/ FirstCycleTimesOut(c)
    \/ Enable(c) \/ EnableVetoed(c) \/ Disable(c)
    \/ PauseForUgcap(c) \/ ResumeApproved(c) \/ ResumeDenied(c)
    \/ RestartModuleGeneration(c) \/ StopAll(c)
    \/ Snapshot(c) \/ ManagedCallReturns(c)

(* The worker, its waiter and the clock are those of ModuleLifecycle. *)
WorkerSide ==
    /\ (\E g \in Gens : WorkerStep(g)) \/ WaiterWakes \/ DeadlinePasses
    /\ UNCHANGED <<policy, ctl, gate, job, excused>>

MNext == (\E c \in Callers : ManagerStep(c)) \/ WorkerSide

MSpec == MInit /\ [][MNext]_mvars

(* A thread that has begun an operation goes on with it, and the control    *)
(* lock is handed to a thread that keeps asking for it.                     *)
MFairness ==
    \A c \in Callers : /\ WF_mvars(ManagedCallReturns(c))
                       /\ WF_mvars(SelectEnabled(c))
                       /\ WF_mvars(FirstCycleSeen(c) \/ FirstCycleTimesOut(c))
                       /\ SF_mvars(StartCurrent(c) \/ StartRefused(c))

MFairSpec == MSpec /\ MFairness

----------------------------------------------------------------------------
(* Types; at most one thread holds each of the manager's two locks.         *)
MTypeOK ==
    /\ TypeOK
    /\ {enabled, active, shutdown, paused, held, excused} \subseteq BOOLEAN
    /\ control \in 0 .. MaxControls
    /\ {ctl, gate} \subseteq Callers \cup {Nobody}
    /\ job \in [Callers -> Jobs]

(* While the manager is shut down or the worker is not selected, the worker *)
(* is told to stop and no caller or waiter is left that would start it:     *)
(* stop_all and set_enabled win over every start that was under way.        *)
OffMeansQuiet ==
    shutdown \/ ~enabled => gen = 0 \/ (stopped[gen] /\ request = 0)

(* A selected worker that is down in a running suite is always somebody's   *)
(* business: it is on the hold list of the closed gate, or a thread is on   *)
(* its way to start it under the current control generation.                *)
NoForgottenWorker ==
    enabled /\ active /\ ~shutdown /\ status = "stopped" /\ ~excused =>
        \/ held /\ paused
        \/ \E c \in Callers : /\ job[c].task \in {"select", "stage", "start"}
                              /\ job[c].control = control

(* And it is started, or the situation changes. *)
WaitingWorkerReturns ==
    (enabled /\ active /\ ~shutdown /\ ~paused /\ ~excused /\ status = "stopped")
        ~> \/ ~(enabled /\ active /\ ~shutdown /\ ~paused /\ ~excused)
           \/ status # "stopped"
           \/ serial = MaxActions
=============================================================================
