--------------------------- MODULE ExportContract ---------------------------
(***************************************************************************)
(* What an at-least-once exporter promises for every event of interest (the *)
(* module docstrings of core/durable_outbox.py and                          *)
(* modules/siem_forwarder.py).  An event lives on the volatile bus until it *)
(* is committed, and from then on it is delivered or given up as a dead     *)
(* letter.  On the bus it can only be lost as part of a reported gap, or    *)
(* with everything else on the bus when the process dies.                   *)
(***************************************************************************)
EXTENDS Naturals

CONSTANT Items

VARIABLES fate,     \* fate[i]: what has become of the event
          deaths    \* how often the exporting process has died

Fates == {"unborn", "ignored", "volatile", "durable", "delivered", "abandoned",
          "reported", "forgotten"}

Init == fate = [i \in Items |-> "unborn"] /\ deaths = 0

\* The events of S, all in state a, go to state b.
Move(S, a, b) ==
    /\ \A i \in S : fate[i] = a
    /\ fate' = [i \in Items |-> IF i \in S THEN b ELSE fate[i]]

Volatile == {i \in Items : fate[i] = "volatile"}

Publish == \E i \in Items, b \in {"ignored", "volatile"} : Move({i}, "unborn", b)
Persist == \E S \in SUBSET Volatile : Move(S, "volatile", "durable")
Deliver == \E i \in Items : Move({i}, "durable", "delivered")
GiveUp  == \E i \in Items : Move({i}, "durable", "abandoned")
ReportGap == \E S \in SUBSET Volatile : Move(S, "volatile", "reported")
ProcessDies == Move(Volatile, "volatile", "forgotten") /\ deaths' = deaths + 1

Next == \/ /\ Publish \/ Persist \/ Deliver \/ GiveUp \/ ReportGap
           /\ UNCHANGED deaths
        \/ ProcessDies

Spec == Init /\ [][Next]_<<fate, deaths>>
=============================================================================
