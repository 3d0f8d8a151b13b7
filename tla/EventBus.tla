------------------------------ MODULE EventBus ------------------------------
(***************************************************************************)
(* The EventBus as its threads use it (core/eventbus.py).  A publisher      *)
(* appends its event and copies the subscriber list in one locked step,     *)
(* then runs the copied callbacks one after the other outside the lock:     *)
(* other publishers, and subscribe and unsubscribe calls, interleave        *)
(* between two callbacks.                                                   *)
(***************************************************************************)
EXTENDS EventRings

CONSTANTS Publishers,       \* threads that publish
          Subscribers,      \* callbacks that may register
          Severities,       \* the severities published
          MaxEvents         \* bound on the publications of a run

ASSUME BusAssumption == MaxEvents \in Nat

VARIABLES subs,             \* _subs, in registration order
          todo,             \* todo[p]: callbacks publisher p has still to run
          current,          \* current[p]: revision p is delivering, 0 if none
          heard,            \* history: revisions each subscriber was called with
          owed              \* history: <<s, r>>, s was registered when r was appended

busVars == <<subs, todo, current, heard, owed>>
vars == <<ringVars, busVars>>

Registered == EntriesOf(subs)

Init ==
    /\ RingsInit
    /\ subs = <<>>
    /\ todo = [p \in Publishers |-> <<>>]
    /\ current = [p \in Publishers |-> 0]
    /\ heard = [s \in Subscribers |-> <<>>]
    /\ owed = {}

\* _deliver up to the copy of the subscriber list.
Publish(p, severity) ==
    /\ current[p] = 0
    /\ revision < MaxEvents
    /\ AppendEvent([severity |-> severity, publisher |-> p])
    /\ todo' = [todo EXCEPT ![p] = subs]
    /\ current' = [current EXCEPT ![p] = revision + 1]
    /\ owed' = owed \cup {<<s, revision + 1>> : s \in Registered}
    /\ UNCHANGED <<subs, heard>>

\* Fault: a callback that raises ends the loop over the remaining ones.
CallbackEndsLoop(p) ==
    /\ todo[p] # <<>>
    /\ heard' = [heard EXCEPT ![Head(todo[p])] = Append(@, current[p])]
    /\ todo' = [todo EXCEPT ![p] = <<>>]
    /\ UNCHANGED <<ringVars, subs, current, owed>>

\* One callback of the loop; one that raises is swallowed and the loop goes on.
Callback(p) ==
    /\ todo[p] # <<>>
    /\ heard' = [heard EXCEPT ![Head(todo[p])] = Append(@, current[p])]
    /\ todo' = [todo EXCEPT ![p] = Tail(@)]
    /\ UNCHANGED <<ringVars, subs, current, owed>>

\* publish() returns to the publisher.
Return(p) ==
    /\ current[p] # 0 /\ todo[p] = <<>>
    /\ current' = [current EXCEPT ![p] = 0]
    /\ UNCHANGED <<ringVars, subs, todo, heard, owed>>

\* Fault: a module that subscribes again on every start is added again.
SubscribeAgain(s) ==
    /\ Len(subs) < 3
    /\ subs' = Append(subs, s)
    /\ UNCHANGED <<ringVars, todo, current, heard, owed>>

\* subscribe: a callback that is registered already is not added again.
Subscribe(s) ==
    /\ s \notin Registered
    /\ subs' = Append(subs, s)
    /\ UNCHANGED <<ringVars, todo, current, heard, owed>>

\* unsubscribe: the first entry of the callback is taken out of the list;
\* copies in flight do not change.
Unsubscribe(s) ==
    /\ \E index \in DOMAIN subs :
          /\ subs[index] = s
          /\ \A earlier \in 1 .. index - 1 : subs[earlier] # s
          /\ subs' = SubSeq(subs, 1, index - 1) \o SubSeq(subs, index + 1, Len(subs))
    /\ UNCHANGED <<ringVars, todo, current, heard, owed>>

Next ==
    \/ \E p \in Publishers :
          \/ \E severity \in Severities : Publish(p, severity)
          \/ Callback(p)
          \/ Return(p)
    \/ \E s \in Subscribers : Subscribe(s) \/ Unsubscribe(s)

Spec == Init /\ [][Next]_vars

\* A publisher's thread runs its loop to the end; callbacks are bounded.
Fairness == \A p \in Publishers : WF_vars(Callback(p) \/ Return(p))

FairSpec == Spec /\ Fairness
-----------------------------------------------------------------------------
\* Types; a publisher only delivers a revision that was appended (_deliver).
TypeOK ==
    /\ RingsTypeOK
    /\ Registered \subseteq Subscribers
    /\ \A p \in Publishers : current[p] \in 0 .. revision
    /\ \A p \in Publishers : EntriesOf(todo[p]) \subseteq Subscribers
    /\ owed \subseteq Subscribers \X (1 .. revision)

\* A subscriber is called at most once for one publication and only for one
\* made while it was registered, however often modules stop, start and
\* subscribe again while publications are in flight.
HeardAtMostOnce ==
    \A s \in Subscribers :
        /\ \A i, j \in DOMAIN heard[s] : heard[s][i] = heard[s][j] => i = j
        /\ \A i \in DOMAIN heard[s] : <<s, heard[s][i]>> \in owed

\* A callback that was registered when an event was appended is called with
\* it in the end, whatever the callbacks before it do and even if it is
\* unregistered meanwhile.
RegisteredIsCalled ==
    \A s \in Subscribers, r \in 1 .. MaxEvents :
        <<s, r>> \in owed ~> \E i \in DOMAIN heard[s] : heard[s][i] = r
=============================================================================
