----------------------------- MODULE MCWatchdog ------------------------------
(***************************************************************************)
(* The watchdog for TLC, with the bound that keeps the manager's larger     *)
(* operations small.                                                        *)
(***************************************************************************)
EXTENDS WatchdogMonitor

(* Bound: the operator and the watchdog have all lifecycle actions between   *)
(* them; a started suite leaves the last one out, a closed gate and a thread *)
(* on its way to a start the last two; neither an admission callback nor Eco *)
(* keeps the worker down.                                                   *)
FewOrders ==
    /\ active => serial < MaxActions
    /\ paused \/ (\E c \in Callers : job[c] # NoJob) => serial < MaxActions - 1
    /\ ~excused
=============================================================================
