--------------------------- MODULE WatchdogMonitor ---------------------------
(***************************************************************************)
(* The watchdog capability (modules/watchdog_monitor.py) over one sibling   *)
(* worker, composed with the manager and the lifecycle of that worker       *)
(* (ModuleManager, ModuleLifecycle): a background thread that samples the   *)
(* worker, charges a restart budget and asks the manager to restart the     *)
(* exact generation it saw, while operators, UGCAP and the worker's own     *)
(* crash handling act on it at any moment.                                  *)
(*                                                                          *)
(* A sweep takes three looks at the worker, with everything else in         *)
(* between: is it selected, how is it, and the manager's decision.  The     *)
(* restart call itself has the two sections of ModuleLifecycle.  Of time    *)
(* only its limits are kept: a backoff and the stability window end at any  *)
(* moment after they began.                                                 *)
(***************************************************************************)
EXTENDS ModuleManager

CONSTANTS Watchdog,      \* the thread that sweeps
          MaxRestarts    \* MAX_RESTARTS

ASSUME WatchdogAssumption == /\ Watchdog \in Callers \ Watchers
                             /\ MaxRestarts \in Nat \ {0}

VARIABLES
    sweep,   \* where the sweep is with this worker
    debt,    \* its entry of _restart_state
    spent,   \* history: restarts accepted since the debt was last forgiven
    quiet    \* history: what the sweeps have seen since the last fault

wdvars == <<mvars, sweep, debt, spent, quiet>>

Windows == {"none", "open", "over"}

NoDebt == [attempts |-> 0, waiting |-> FALSE, stable |-> "none", reported |-> FALSE]

(* A worker without an entry is one whose entry is NoDebt. *)
Owes == debt # NoDebt

WTypeOK ==
    /\ MTypeOK
    /\ sweep \in {"idle", "sample", "ask", "asked"}
    /\ debt \in [attempts : 0 .. MaxRestarts, waiting : BOOLEAN,
                 stable : Windows, reported : BOOLEAN]
    /\ spent \in 0 .. MaxActions /\ quiet \in Windows

WInit == MInit /\ sweep = "idle" /\ debt = NoDebt /\ spent = 0 /\ quiet = "none"

SweepTo(label) == sweep' = label

----------------------------------------------------------------------------
(* One sweep. *)

(* A deselected worker owes nothing. *)
LookDisabled ==
    /\ sweep = "idle" /\ ~enabled
    /\ debt' = NoDebt /\ spent' = 0 /\ quiet' = "none"
    /\ UNCHANGED <<mvars, sweep>>

LookEnabled ==
    /\ sweep = "idle" /\ enabled
    /\ SweepTo("sample")
    /\ UNCHANGED <<mvars, debt, spent, quiet>>

(* try_watchdog_snapshot finds the lifecycle lock taken: an unknown sample  *)
(* restarts the stability window.                                           *)
SampleUnavailable ==
    /\ sweep = "sample"
    /\ SweepTo("idle")
    /\ debt' = [debt EXCEPT !.stable = "none"]
    /\ quiet' = "none"
    /\ UNCHANGED <<mvars, spent>>

(* Fault: one healthy sample is proof enough. *)
HealthyForgives ==
    /\ sweep = "sample" /\ FaultKind = "none"
    /\ SweepTo("idle")
    /\ debt' = NoDebt
    /\ quiet' = IF Owes /\ quiet = "none" THEN "open" ELSE quiet
    /\ UNCHANGED <<mvars, spent>>

(* _healthy_state: the window opens at the first healthy sample, and a      *)
(* healthy sample after it has passed forgives the debt.                    *)
SampleHealthy ==
    /\ sweep = "sample" /\ FaultKind = "none"
    /\ SweepTo("idle")
    /\ IF debt.stable = "over" \/ ~Owes
       THEN debt' = NoDebt
       ELSE debt' = [debt EXCEPT !.stable = "open"]
    /\ IF quiet = "over"
       THEN spent' = 0 /\ quiet' = "none"
       ELSE quiet' = (IF Owes THEN "open" ELSE "none") /\ UNCHANGED spent
    /\ UNCHANGED mvars

Seen == seen' = [seen EXCEPT ![Watchdog] = gen]

OnlySeen == UNCHANGED <<gen, worker, stopped, serial, request, waiter, status,
                        firstCycle, late, call, last>>

(* A faulty sample.  The attempt is charged, and its backoff begins, before *)
(* the manager is asked; inside a backoff nothing is asked.                 *)
SampleFault ==
    /\ sweep = "sample" /\ FaultKind # "none" /\ debt.attempts < MaxRestarts
    /\ Seen /\ OnlySeen /\ quiet' = "none"
    /\ IF debt.waiting
       THEN debt' = [debt EXCEPT !.stable = "none"] /\ SweepTo("idle")
       ELSE /\ debt' = [debt EXCEPT !.stable = "none", !.waiting = TRUE,
                                    !.attempts = @ + 1]
            /\ SweepTo("ask")
    /\ UNCHANGED <<policy, ctl, gate, job, excused, spent>>

(* Out of attempts: one terminal alert. *)
SampleExhausted ==
    /\ sweep = "sample" /\ FaultKind # "none" /\ debt.attempts = MaxRestarts
    /\ SweepTo("idle")
    /\ debt' = [debt EXCEPT !.stable = "none", !.reported = TRUE]
    /\ quiet' = "none"
    /\ UNCHANGED <<mvars, spent>>

(* restart_faulted_module_generation: the manager checks under its lock,    *)
(* the worker compares generation and fault again under its own.            *)
MayRestart == ~shutdown /\ enabled /\ ~paused

(* Fault: the worker is asked and not the manager, which alone knows of the *)
(* selection and the shutdown.                                              *)
AskUnguarded ==
    /\ sweep = "ask" /\ Locked(Watchdog)
    /\ RestartFaultedGeneration(Watchdog)
    /\ ctl' = Watchdog
    /\ SweepTo("asked")
    /\ spent' = spent + 1
    /\ UNCHANGED <<policy, gate, job, excused, debt, quiet>>

AskAccepted ==
    /\ sweep = "ask" /\ Locked(Watchdog) /\ MayRestart
    /\ RestartFaultedGeneration(Watchdog)
    /\ ctl' = Watchdog
    /\ SweepTo("asked")
    /\ spent' = spent + 1
    /\ UNCHANGED <<policy, gate, job, excused, debt, quiet>>

(* Fault: a refused attempt is not charged. *)
AskRefusedForFree ==
    /\ sweep = "ask" /\ Locked(Watchdog)
    /\ debt' = [debt EXCEPT !.attempts = @ - 1, !.waiting = FALSE]
    /\ SweepTo("idle")
    /\ UNCHANGED <<mvars, spent, quiet>>

(* Refused by the manager, by the comparison, because the lifecycle lock is *)
(* taken, or with an exception; a closed UGCAP gate puts the worker on hold.*)
AskRefused ==
    /\ sweep = "ask" /\ Locked(Watchdog)
    /\ held' = (held \/ (~shutdown /\ enabled /\ paused))
    /\ SweepTo("idle")
    /\ UNCHANGED <<vars, enabled, active, shutdown, control, paused, ctl, gate,
                   job, excused, debt, spent, quiet>>

(* The call returns, whether or not it was overtaken. *)
AskReturns ==
    /\ sweep = "asked"
    /\ ManagedCallReturns(Watchdog)
    /\ SweepTo("idle")
    /\ UNCHANGED <<debt, spent, quiet>>

----------------------------------------------------------------------------
(* Time. *)

BackoffPasses ==
    /\ debt.waiting
    /\ debt' = [debt EXCEPT !.waiting = FALSE]
    /\ UNCHANGED <<mvars, sweep, spent, quiet>>

WindowPasses ==
    /\ debt.stable = "open" \/ quiet = "open"
    /\ debt' = [debt EXCEPT !.stable = IF @ = "open" THEN "over" ELSE @]
    /\ quiet' = IF quiet = "open" THEN "over" ELSE quiet
    /\ UNCHANGED <<mvars, sweep, spent>>

----------------------------------------------------------------------------
Sweep ==
    \/ LookDisabled \/ LookEnabled
    \/ SampleUnavailable \/ SampleHealthy \/ SampleFault \/ SampleExhausted
    \/ AskAccepted \/ AskRefused \/ AskReturns

(* Start-up, operators, the UGCAP gate, the shutdown and the worker itself  *)
(* go on meanwhile.                                                         *)
Others ==
    /\ (\E c \in Callers \ {Watchdog} : ManagerStep(c)) \/ WorkerSide
    /\ UNCHANGED <<sweep, debt, spent, quiet>>

WNext == Sweep \/ BackoffPasses \/ WindowPasses \/ Others

WSpec == WInit /\ [][WNext]_wdvars

(* The watchdog's own thread is stopped by pause_for_ugcap and stop_all like *)
(* any other.                                                               *)
WatchdogUp == ~paused /\ ~shutdown

(* The sweep loop goes on while the watchdog is up, a backoff and a          *)
(* lifecycle call end, the lifecycle lock is not found taken by every        *)
(* sample, and the control lock is handed to a thread that keeps asking.     *)
WFairness ==
    /\ WF_wdvars(WatchdogUp /\ (LookDisabled \/ LookEnabled \/ SampleUnavailable))
    /\ WF_mvars(\E c \in Callers : ManagedCallReturns(c))
    /\ SF_wdvars(AskAccepted \/ AskRefused)
    /\ SF_wdvars(SampleHealthy \/ SampleFault \/ SampleExhausted)
    /\ WF_wdvars(BackoffPasses)

WFairSpec == WSpec /\ WFairness

----------------------------------------------------------------------------
(* The watchdog accepts at most MAX_RESTARTS restarts of a worker until the *)
(* worker was seen healthy, without a faulty or unknown sample in between,  *)
(* for a whole stability window - or was deselected by the operator.        *)
BudgetHolds == spent <= MaxRestarts

(* However late the manager decides on an old sample, and however late the  *)
(* restart it accepted is carried out by the call or by the waiter: no      *)
(* generation is born of a worker that is deselected or shut down.          *)
RevivesOnlyTheSelected == [][gen' # gen => enabled' /\ ~shutdown']_wdvars

(* A selected worker that stays faulty is restarted or reported, unless the *)
(* watchdog is itself stopped.                                              *)
FaultIsAnswered ==
    (enabled /\ FaultKind # "none") ~>
        (debt.reported \/ ~enabled \/ FaultKind = "none" \/ ~WatchdogUp)
=============================================================================
