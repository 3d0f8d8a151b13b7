---------------------------- MODULE RemoteBridge ----------------------------
(***************************************************************************)
(* The telemetry link of modules/remote_bridge.py: a sender drains its      *)
(* outbox over one connection per event, a receiver answers STORED after it *)
(* published the event on its own bus.  Each connection has a helper thread *)
(* on the receiver, which goes on when the sender has timed out.  The       *)
(* receiver's inbox is a second durable outbox; it survives the receiver,   *)
(* the helpers do not.                                                      *)
(*                                                                          *)
(* The handshake, encryption, redaction and the rejection of malformed      *)
(* frames are left out: they end a connection without an answer, which      *)
(* GiveUp covers.  How events get into the sender's outbox is the staging   *)
(* of SiemForwarder and enters here as Stage.                               *)
(***************************************************************************)
EXTENDS DurableOutbox

CONSTANTS MaxHelpers,       \* receiver helpers that may run at once (16)
          InboxItems,       \* max_items of the receiver's inbox
          InboxTombstones,  \* delivered_tombstones of the receiver's inbox
          MaxFaults         \* bound on the deaths of either process and failed calls

ASSUME BridgeAssumption ==
    /\ Owners # {}
    /\ MaxHelpers \in Nat \ {0}
    /\ InboxItems \in Nat \ {0} /\ InboxTombstones \in Nat \ {0}
    /\ MaxFaults \in Nat

VARIABLES owner,            \* _sender_owner of the sender process that runs
          retired,          \* owners of sender processes that died
          call,             \* the sender's open connection, or NoCall
          helper,           \* helper[s]: the connection helper in slot s
          inbox,            \* the table of the receiver's inbox
          staged,           \* history: ids ever staged by the sender
          published,        \* history: publications per id, counted up to 2
          excuse,           \* history: why an id may be published again
          faults            \* faults so far

linkVars == <<owner, retired, call, helper, inbox, staged, published, excuse, faults>>
vars == <<outboxVars, linkVars>>

Slots == 1 .. MaxHelpers
NoCall == [open |-> FALSE]
Idle == [phase |-> "idle"]

\* The inbox uses the table only: nothing is claimed from it.
Inbox == INSTANCE DurableOutbox
         WITH rows <- inbox, waiting <- {}, lapsed <- {}, taken <- {},
              hand <- [o \in {} |-> {}], accepted <- [o \in {} |-> {}],
              Owners <- {}, MaxItems <- InboxItems, Tombstones <- InboxTombstones

Init ==
    /\ OutboxInit
    /\ owner = CHOOSE o \in Owners : TRUE
    /\ retired = {}
    /\ call = NoCall
    /\ helper = [s \in Slots |-> Idle]
    /\ inbox = [i \in Ids |-> NoRow]
    /\ staged = {}
    /\ published = [i \in Ids |-> 0]
    /\ excuse = [i \in Ids |-> {}]
    /\ faults = 0
-----------------------------------------------------------------------------
\* A delta of the sender's bus is staged, in the order of the event times.
Stage(S) ==
    /\ S \cap staged = {}
    /\ Store(S, [i \in S |-> Cardinality(staged) + 1])
    /\ staged' = staged \cup S
    /\ UNCHANGED <<owner, retired, call, helper, inbox, published, excuse, faults>>

\* _drain_sender takes a batch.
SenderClaims ==
    /\ Claim(owner)
    /\ UNCHANGED linkVars

\* The sender connects, and a helper that is started for the connection has the
\* decrypted frame.
Connect(i, s) ==
    /\ i \in hand[owner] /\ accepted[owner] = {} /\ call = NoCall
    /\ helper[s] = Idle /\ \A t \in Slots : helper[t] = Idle => s <= t
    /\ call' = [open |-> TRUE, slot |-> s, id |-> i]
    /\ helper' = [helper EXCEPT ![s] =
                     [phase |-> "received", id |-> i, ts |-> rows[i].created]]
    /\ UNCHANGED <<outboxVars, owner, retired, inbox, staged, published, excuse, faults>>

\* No answer: nobody listens, no helper is free, the connection breaks or the
\* 4 s pass; or the answer came and the row could not be acknowledged.
GiveUp(i) ==
    /\ call = NoCall \/ (call.open /\ call.id = i)
    /\ Retry(owner, i) \/ LeaseLost(owner, i)
    /\ call' = NoCall
    /\ UNCHANGED <<owner, retired, helper, inbox, staged, published, excuse, faults>>

SenderAcknowledges(i) ==
    /\ Acknowledge(owner, i)
    /\ UNCHANGED linkVars

\* The sender's process ends and another one takes over the table, under an
\* owner name of its own.
SenderDies ==
    /\ faults < MaxFaults
    /\ faults' = faults + 1
    /\ \E o \in Owners \ (retired \cup {owner}) : owner' = o
    /\ retired' = retired \cup {owner}
    /\ DropBatch(owner)
    /\ call' = NoCall
    /\ UNCHANGED <<helper, inbox, staged, published, excuse>>

\* Backoffs and leases run out.  A lapse matters to the next claim only, and the
\* running sender claims when it has settled its batch, so the leases whose
\* lapse is modelled are those of dead senders.
Timers ==
    /\ \E i \in Ids : BackoffElapses(i) \/ (rows[i].owner \in retired /\ LeaseLapses(i))
    /\ UNCHANGED linkVars
-----------------------------------------------------------------------------
\* A helper between its look into the inbox and the completion of the row.
Working(s) == helper[s].phase \in {"fresh", "kept", "announced"}

Turn(s, phase) ==
    helper' = [helper EXCEPT ![s] = [phase |-> phase, id |-> @.id, ts |-> @.ts]]
Leave(s) == helper' = [helper EXCEPT ![s] = Idle]

Blame(S, why) == excuse' = [i \in Ids |-> IF i \in S THEN excuse[i] \cup {why} ELSE excuse[i]]

\* Ids whose publication the inbox no longer remembers after this step.
Forgotten == {i \in Ids : published[i] > 0 /\ inbox[i] # NoRow /\ inbox'[i] = NoRow}

\* Fault: the helper does not look into the inbox.
LookNowhere(s) ==
    /\ helper[s].phase = "received"
    /\ Turn(s, "fresh")
    /\ UNCHANGED <<outboxVars, owner, retired, call, inbox, staged, published, excuse, faults>>

\* Fault: an id that is in the inbox at all counts as done.
LookForAnyRow(s) ==
    /\ helper[s].phase = "received"
    /\ Turn(s, IF inbox[helper[s].id] # NoRow THEN "stored" ELSE "fresh")
    /\ UNCHANGED <<outboxVars, owner, retired, call, inbox, staged, published, excuse, faults>>

\* _republish: an event whose tombstone is there is answered at once.
Look(s) ==
    LET i == helper[s].id
    IN  /\ helper[s].phase = "received"
        /\ IF Inbox!IsDelivered(i)
           THEN Turn(s, "stored") /\ UNCHANGED excuse
           ELSE /\ Turn(s, "fresh")
                /\ IF \E t \in Slots \ {s} : Working(t) /\ helper[t].id = i
                   THEN Blame({i}, "overlap")
                   ELSE UNCHANGED excuse
        /\ UNCHANGED <<outboxVars, owner, retired, call, inbox, staged, published, faults>>

\* The id is committed to the inbox; an id that is there already is a replay.
Keep(s) ==
    /\ helper[s].phase = "fresh"
    /\ Inbox!Store({helper[s].id}, [i \in {helper[s].id} |-> helper[s].ts])
    /\ Blame(Forgotten, "pruned")
    /\ Turn(s, "kept")
    /\ UNCHANGED <<outboxVars, owner, retired, call, staged, published, faults>>

\* The inbox is full: the call raises and the connection closes unanswered.
Refuse(s) ==
    /\ helper[s].phase = "fresh"
    /\ helper[s].id \notin Inbox!Stored /\ ~Inbox!RoomFor({helper[s].id})
    /\ Leave(s)
    /\ UNCHANGED <<outboxVars, owner, retired, call, inbox, staged, published, excuse, faults>>

\* The event reaches the receiver's bus.
Publish(s) ==
    LET i == helper[s].id
    IN  /\ helper[s].phase = "kept"
        /\ published' = [published EXCEPT ![i] = IF @ < 2 THEN @ + 1 ELSE @]
        /\ Turn(s, "announced")
        /\ UNCHANGED <<outboxVars, owner, retired, call, inbox, staged, excuse, faults>>

\* Fault: the inbox row is completed before the event is published.
CompleteFirst(s) ==
    /\ helper[s].phase \in {"kept", "announced"}
    /\ Inbox!CompletePending(helper[s].id) /\ Turn(s, "stored")
    /\ Blame(Forgotten, "pruned")
    /\ UNCHANGED <<outboxVars, owner, retired, call, staged, published, faults>>

\* complete_pending, which raises when another helper completed the row first.
Complete(s) ==
    /\ helper[s].phase = "announced"
    /\ \/ Inbox!CompletePending(helper[s].id) /\ Turn(s, "stored")
       \/ /\ inbox[helper[s].id].state \notin {"pending", "leased"}
          /\ Leave(s) /\ UNCHANGED inbox
    /\ Blame(Forgotten, "pruned")
    /\ UNCHANGED <<outboxVars, owner, retired, call, staged, published, faults>>

\* STORED is sent; it counts if the sender still waits on this connection.
Answer(s) ==
    /\ helper[s].phase = "stored"
    /\ IF call.open /\ call.slot = s
       THEN Send(owner, call.id) /\ call' = NoCall
       ELSE UNCHANGED <<outboxVars, call>>
    /\ Leave(s)
    /\ UNCHANGED <<owner, retired, inbox, staged, published, excuse, faults>>

\* The receiver's process dies (all helpers) or one call on the inbox raises
\* (one helper); whatever was published is not recorded as such.
ReceiverFault(S) ==
    /\ faults < MaxFaults
    /\ faults' = faults + 1
    /\ \A s \in S : helper[s] # Idle
    /\ Blame({helper[s].id : s \in {t \in S : helper[t].phase = "announced"}}, "fault")
    /\ helper' = [s \in Slots |-> IF s \in S THEN Idle ELSE helper[s]]
    /\ UNCHANGED <<outboxVars, owner, retired, call, inbox, staged, published>>
-----------------------------------------------------------------------------
SenderStep ==
    \/ SenderClaims
    \/ \E i \in Ids : \/ \E s \in Slots : Connect(i, s)
                      \/ SenderAcknowledges(i)
                      \/ GiveUp(i)

HelperStep(s) == Look(s) \/ Keep(s) \/ Refuse(s) \/ Publish(s) \/ Complete(s) \/ Answer(s)

Next ==
    \/ \E S \in SUBSET Ids \ {{}} : Stage(S)
    \/ SenderStep
    \/ SenderDies
    \/ Timers
    \/ \E s \in Slots : HelperStep(s) \/ ReceiverFault({s})
    \/ ReceiverFault({s \in Slots : helper[s] # Idle})

Spec == Init /\ [][Next]_vars

\* Both processes go on and time passes as long as any of them can; nothing is
\* assumed of the network, so every connection may fail.
Fairness == WF_vars(SenderStep \/ Timers \/ \E s \in Slots : HelperStep(s))

FairSpec == Spec /\ Fairness
-----------------------------------------------------------------------------
\* Types, and that a sender answers one item before it opens the next connection:
\* an accepted item still to be acknowledged and an open connection exclude each
\* other (_drain_sender).
BTypeOK ==
    /\ OutboxTypeOK
    /\ owner \in Owners \ retired /\ retired \subseteq Owners
    /\ call = NoCall \/ call \in [open : {TRUE}, slot : Slots, id : Ids]
    /\ \A s \in Slots :
         \/ helper[s] = Idle
         \/ helper[s] \in [phase : {"received", "fresh", "kept", "announced", "stored"},
                           id : Ids, ts : Nat]
    /\ \A i \in Ids : inbox[i].state \in {"none", "pending", "delivered"}
    /\ staged \subseteq Ids
    /\ published \in [Ids -> 0 .. 2]
    /\ faults \in 0 .. MaxFaults
    /\ accepted[owner] # {} => call = NoCall

\* From the sender's disk to the receiver's bus nothing vanishes: an event that
\* was staged is still retained by the sender, or was published.  The sender's
\* tombstone is written in one process and the publication happens in another,
\* with answers lost and either process dying in between.
NothingVanishes == \A i \in staged : i \in Undelivered \/ published[i] > 0

\* The receiver publishes an event twice only if two helpers worked on it at
\* once, a fault hit between the publication and its record, or the tombstone
\* was pruned: a repeated connection alone does not do it.
DuplicatesAreExplained == \A i \in Ids : published[i] > 1 => excuse[i] # {}

\* A row of the inbox does not stay half done for ever: it is completed by a
\* later connection, unless the sender gave the event up or its tombstone was
\* pruned while a helper still worked on it.
InboxRowsComplete ==
    \A i \in Ids : inbox[i].state = "pending" ~>
                     \/ inbox[i].state # "pending"
                     \/ rows[i].state = "dead_letter"
                     \/ "pruned" \in excuse[i]
=============================================================================
