------------------------ MODULE OutboxClientsProofs ------------------------
(***************************************************************************)
(* What the users of the outbox guarantee on top of DurableOutboxProofs.    *)
(*                                                                          *)
(* Part 1: OutboxClients, for any number of ids and exporters.              *)
(* Part 2: RemoteBridge, for any number of events, helpers, sender          *)
(* processes and faults.                                                    *)
(***************************************************************************)
EXTENDS OutboxClients, RemoteBridge, DurableOutboxProofs

(* The counters, and stamps that are not ahead of them. *)
CountsOK == /\ enqueues \in Nat /\ crashes \in Nat
            /\ crashes <= MaxCrashes
            /\ \A i \in Ids : rows[i].created <= enqueues

(* Every step is an operation of the outbox or leaves it alone.             *)
LEMMA StepIsOutboxStep ==
  ASSUME CountsOK, [ClientsNext]_clientVars
  PROVE  OutboxStep \/ UNCHANGED outboxVars
<1>1. ASSUME NEW S \in SUBSET Ids, Enqueue(S) PROVE OutboxStep
  <2>1. [i \in S |-> enqueues + 1] \in [S -> Nat]
    BY DEF CountsOK
  <2> QED
    BY <1>1, <2>1 DEF Enqueue, OutboxStep
<1>2. ASSUME NEW o \in Owners, Crash(o) PROVE OutboxStep
  BY <1>2 DEF Crash, OutboxStep
<1>3. ASSUME NEW o \in Owners, Drain(o) PROVE OutboxStep
  BY <1>3 DEF Drain, OutboxStep
<1>4. ASSUME ClientsTimers PROVE OutboxStep
  BY <1>4 DEF ClientsTimers, OutboxStep
<1>5. ASSUME UNCHANGED clientVars PROVE UNCHANGED outboxVars
  BY <1>5 DEF clientVars
<1> QED
  BY <1>1, <1>2, <1>3, <1>4, <1>5 DEF ClientsNext

(* No row is ahead of the enqueue calls.                                    *)
LEMMA StepCounts ==
  ASSUME OutboxInv, CountsOK, [ClientsNext]_clientVars
  PROVE  CountsOK'
<1> USE ClientsAssumption DEF ClientsAssumption
<1>t. /\ enqueues \in Nat /\ crashes \in Nat /\ crashes <= MaxCrashes
      /\ \A i \in Ids : rows[i].created <= enqueues /\ rows[i].created \in Nat
      /\ rows \in [Ids -> Row]
  BY DEF CountsOK, OutboxInv, OutboxTypeOK, Row
<1>n. NoRow.created = 0 /\ \A t : NewRow(t).created = t
  BY DEF NoRow, NewRow
<1>1. ASSUME NEW S \in SUBSET Ids, Enqueue(S) PROVE CountsOK'
  <2> DEFINE stamps == [i \in S |-> enqueues + 1]
  <2>1. stamps \in [S -> Nat] /\ Store(S, stamps)
        /\ enqueues' = enqueues + 1 /\ crashes' = crashes
    BY <1>1, <1>t DEF Enqueue
  <2>2. \A i \in Ids : \/ rows'[i] \in {rows[i], NoRow}
                       \/ i \in S /\ rows'[i] = NewRow(stamps[i])
    <3> HIDE DEF stamps
    <3> QED
      BY <2>1, StoreRows
  <2>3. \A i \in Ids : rows'[i].created <= enqueues'
    BY <1>t, <1>n, <2>1, <2>2
  <2> QED
    BY <1>t, <2>1, <2>3 DEF CountsOK
<1>2. ASSUME UNCHANGED enqueues, crashes' \in Nat, crashes' <= MaxCrashes,
             \A i \in Ids : rows'[i].created \in {0, rows[i].created}
      PROVE  CountsOK'
  BY <1>t, <1>2 DEF CountsOK
<1>3. ASSUME NEW o \in Owners, Crash(o) PROVE CountsOK'
  BY <1>t, <1>2, <1>3 DEF Crash, DropBatch
<1>4. ASSUME NEW o \in Owners, Drain(o) PROVE CountsOK'
  <2>1. UNCHANGED <<enqueues, crashes>>
    BY <1>4 DEF Drain
  <2>2. CASE Claim(o)
    <3>1. ASSUME NEW i \in Ids PROVE rows'[i].created = rows[i].created
      <4>1. RowStep(i) /\ (rows[i].state \in {"delivered", "none"} => rows'[i] = rows[i])
        BY <2>2, ClaimRows DEF RowsStep
      <4>2. rows[i] = NoRow => rows[i].state = "none"
        BY DEF NoRow
      <4>3. rows[i].state = "leased" /\ rows'[i] = NoRow => FALSE
        BY <2>2, ClaimRows DEF NoRow
      <4> QED
        BY <4>1, <4>2, <4>3 DEF RowStep, Requeued
    <3> QED
      BY <1>t, <1>2, <2>1, <3>1
  <2>3. ASSUME NEW i \in Ids, Acknowledge(o, i) PROVE CountsOK'
    <3>1. ASSUME NEW j \in Ids PROVE rows'[j].created \in {0, rows[j].created}
      <4>1. \/ rows'[j] = rows[j]
            \/ rows'[j] = Moved(rows[j], "delivered", Nobody)
            \/ rows'[j] = NoRow
        BY <2>3, AcknowledgeRows
      <4> QED
        BY <1>n, <4>1 DEF Moved
    <3> QED
      BY <1>t, <1>2, <2>1, <3>1
  <2>4. ASSUME NEW i \in Ids, Retry(o, i) PROVE CountsOK'
    <3>1. ASSUME NEW j \in Ids PROVE rows'[j].created \in {0, rows[j].created}
      <4>1. CASE j = i
        <5>1. RowStep(i) /\ rows[i].state = "leased"
          BY <2>4, RetryRows DEF RowsStep
        <5>2. rows[i] # NoRow
          BY <5>1 DEF NoRow
        <5> QED
          BY <1>n, <4>1, <5>1, <5>2 DEF RowStep, Requeued
      <4>2. CASE j # i
        BY <2>4, <4>2, RetryRows
      <4> QED
        BY <4>1, <4>2
    <3> QED
      BY <1>t, <1>2, <2>1, <3>1
  <2>5. ASSUME NEW i \in Ids, Send(o, i) \/ LeaseLost(o, i) PROVE CountsOK'
    BY <1>t, <1>2, <2>1, <2>5 DEF Send, LeaseLost, DropBatch
  <2> QED
    BY <1>4, <2>2, <2>3, <2>4, <2>5 DEF Drain
<1>5. ASSUME ClientsTimers PROVE CountsOK'
  BY <1>t, <1>2, <1>5 DEF ClientsTimers, BackoffElapses, LeaseLapses
<1>6. ASSUME UNCHANGED clientVars PROVE CountsOK'
  BY <1>6 DEF clientVars, outboxVars, CountsOK
<1> QED
  BY <1>1, <1>3, <1>4, <1>5, <1>6 DEF ClientsNext

ClientsInv == OutboxInv /\ CountsOK

(* The invariant holds initially, every step preserves it, and so it holds. *)
LEMMA ClientsInvariance == ClientsSpec => []ClientsInv
<1>1. ClientsInit => ClientsInv
  <2> SUFFICES ASSUME ClientsInit PROVE ClientsInv
    OBVIOUS
  <2>1. OutboxInv
    BY InitOutboxInv DEF ClientsInit
  <2>2. CountsOK
    BY ClientsAssumption DEF ClientsInit, OutboxInit, CountsOK, ClientsAssumption, NoRow
  <2> QED
    BY <2>1, <2>2 DEF ClientsInv
<1>2. ClientsInv /\ [ClientsNext]_clientVars => ClientsInv'
  <2> SUFFICES ASSUME ClientsInv, [ClientsNext]_clientVars PROVE ClientsInv'
    OBVIOUS
  <2>1. CountsOK'
    BY StepCounts DEF ClientsInv
  <2>2. OutboxInv'
    <3>1. CASE OutboxStep
      BY <3>1, StepOutboxInv DEF ClientsInv
    <3>2. CASE UNCHANGED outboxVars
      BY <3>2 DEF ClientsInv, outboxVars, OutboxInv, OutboxTypeOK, RowsSound,
                  AcceptedWasTaken, DeliveredWasTaken, RetentionIsBounded,
                  Undelivered, InState
    <3> QED
      BY <3>1, <3>2, StepIsOutboxStep DEF ClientsInv
  <2> QED
    BY <2>1, <2>2 DEF ClientsInv
<1> QED
  BY <1>1, <1>2, PTL DEF ClientsSpec

(* The variables keep their types (durable_outbox.py: the table's columns,   *)
(* and what an exporter holds between two transactions).                    *)
THEOREM TypeCorrect == ClientsSpec => []OTypeOK
<1>1. ClientsInv => OTypeOK
  BY DEF ClientsInv, OutboxInv, CountsOK, OTypeOK
<1> QED
  BY <1>1, ClientsInvariance, PTL

(* enqueue_many and acknowledge keep the table within max_items and the      *)
(* tombstones within their number, dead letters counted.                    *)
THEOREM RetentionHolds == ClientsSpec => []RetentionIsBounded
<1>1. ClientsInv => RetentionIsBounded
  BY DEF ClientsInv, OutboxInv
<1> QED
  BY <1>1, ClientsInvariance, PTL

(* A tombstone is never written for an item the transport did not take.     *)
THEOREM DeliveredHolds == ClientsSpec => []DeliveredWasTaken
<1>1. ClientsInv => DeliveredWasTaken
  BY DEF ClientsInv, OutboxInv
<1> QED
  BY <1>1, ClientsInvariance, PTL

(* retry, acknowledge, claim and enqueue_many never put a delivered or       *)
(* dead-lettered item back into the queue.                                  *)
THEOREM SettledHolds == ClientsSpec => SettledStaysSettled
<1>1. ClientsInv /\ [ClientsNext]_clientVars =>
        [\A i \in Ids :
           /\ rows[i].state = "dead_letter" => rows'[i] = rows[i]
           /\ rows[i].state = "delivered" =>
                 rows'[i] = rows[i] \/ rows'[i] = NoRow]_outboxVars
  BY StepIsOutboxStep, StepSettled DEF ClientsInv
<1> QED
  BY <1>1, ClientsInvariance, PTL DEF ClientsSpec, SettledStaysSettled

(* Until its lease lapses, a claimed row changes only when its holder        *)
(* settles it, however many exporters share the outbox.                     *)
THEOREM LeaseHolds == ClientsSpec => LeaseIsExclusive
<1>1. ClientsInv /\ [ClientsNext]_clientVars =>
        [\A i \in Ids, o \in Owners :
           HoldsLease(o, i) /\ i \notin lapsed =>
               rows'[i] = rows[i] \/ (i \in hand[o] /\ i \notin hand'[o])]_outboxVars
  BY StepIsOutboxStep, StepLease DEF ClientsInv
<1> QED
  BY <1>1, ClientsInvariance, PTL DEF ClientsSpec, LeaseIsExclusive
-----------------------------------------------------------------------------
(***************************************************************************)
(* The bridge.  The invariant follows a publication back from the sender's  *)
(* tombstone: to the answer it rests on (taken), to the helper that sent    *)
(* the answer, to the inbox row that helper saw or completed, and to the    *)
(* publication before the completion.                                       *)
(***************************************************************************)

HelperStates ==
    [phase : {"received", "fresh", "kept", "announced", "stored"}, id : Ids, ts : Nat]

LinkTypeOK ==
    /\ owner \in Owners
    /\ staged \subseteq Ids
    /\ published \in [Ids -> Nat]
    /\ inbox = [i \in Ids |-> inbox[i]]
    /\ helper = [s \in Slots |-> helper[s]]
    /\ \A s \in Slots : helper[s] = Idle \/ helper[s] \in HelperStates

(* The open connection is the one its helper serves, if that still runs. *)
CallIsServed ==
    \/ call = NoCall
    \/ /\ call \in [open : {TRUE}, slot : Slots, id : Ids]
       /\ helper[call.slot] = Idle \/ helper[call.slot].id = call.id

HelperPublished ==
    \A s \in Slots : helper[s].phase \in {"announced", "stored"} =>
                         published[helper[s].id] > 0

InboxPublished == \A i \in Ids : inbox[i].state = "delivered" => published[i] > 0

TakenPublished == \A i \in taken : published[i] > 0

StagedKept == \A i \in staged : rows[i] = NoRow => published[i] > 0

LinkInv == /\ LinkTypeOK /\ CallIsServed
           /\ HelperPublished /\ InboxPublished /\ TakenPublished /\ StagedKept

IInv == OutboxInv /\ LinkInv
-----------------------------------------------------------------------------
(* A row only leaves the sender's table once its item was taken.            *)
LEMMA RowGone ==
  ASSUME OutboxInv, OutboxStep, NEW i \in Ids, rows[i] # NoRow, rows'[i] = NoRow
  PROVE  i \in taken
<1>n. NoRow.state = "none"
  BY DEF NoRow
<1>d. rows[i].state = "delivered" => i \in taken
  BY DEF OutboxInv, DeliveredWasTaken, InState
<1>r. ASSUME RowsStep, rows[i].state = "leased" => rows'[i].state # "none"
      PROVE  i \in taken
  <2>1. RowStep(i)
    BY <1>r DEF RowsStep
  <2>2. ~Requeued(i, rows'[i])
    BY <1>n DEF Requeued
  <2>3. rows[i].state \in {"leased", "delivered"}
    BY <2>1, <2>2 DEF RowStep
  <2> QED
    BY <1>r, <1>n, <1>d, <2>3
<1>1. ASSUME NEW S \in SUBSET Ids, NEW stamps \in [S -> Nat], Store(S, stamps)
      PROVE  i \in taken
  BY <1>1, <1>r, <1>n, StoreRows
<1>2. ASSUME NEW o \in Owners, Claim(o) PROVE i \in taken
  BY <1>2, <1>r, ClaimRows
<1>3. ASSUME NEW o \in Owners, NEW j \in Ids, Acknowledge(o, j) PROVE i \in taken
  <2>1. i = j \/ rows[i].state = "delivered"
    BY <1>3, <1>n, AcknowledgeRows DEF Moved
  <2>2. j \in taken
    BY <1>3 DEF Acknowledge, OutboxInv, AcceptedWasTaken
  <2> QED
    BY <1>d, <2>1, <2>2
<1>4. ASSUME NEW o \in Owners, NEW j \in Ids, Retry(o, j) PROVE i \in taken
  BY <1>4, <1>n, RetryRows
<1>5. ASSUME UNCHANGED rows PROVE i \in taken
  BY <1>5
<1>6. ASSUME NEW o \in Owners, DropBatch(o) PROVE i \in taken
  BY <1>6, <1>5 DEF DropBatch
<1>7. ASSUME NEW o \in Owners, NEW j \in Ids, Send(o, j) \/ LeaseLost(o, j)
      PROVE  i \in taken
  BY <1>7, <1>5 DEF Send, LeaseLost, DropBatch
<1>8. ASSUME NEW j \in Ids, BackoffElapses(j) \/ LeaseLapses(j) PROVE i \in taken
  BY <1>8, <1>5 DEF BackoffElapses, LeaseLapses
<1> QED
  BY <1>1, <1>2, <1>3, <1>4, <1>6, <1>7, <1>8 DEF OutboxStep

(* What is staged is stored, unless it was taken before.                    *)
LEMMA StagedIsStored ==
  ASSUME OutboxInv, NEW S \in SUBSET Ids, NEW stamps \in [S -> Nat],
         Store(S, stamps), NEW i \in S, rows'[i] = NoRow
  PROVE  i \in taken
<1>1. CASE rows[i] # NoRow
  <2>1. OutboxStep
    BY DEF OutboxStep
  <2> QED
    BY <1>1, <2>1, RowGone
<1>2. CASE rows[i] = NoRow
  <2>1. i \in S \ Stored
    BY <1>2 DEF Stored
  <2>2. rows'[i] = NewRow(stamps[i])
    BY <2>1 DEF Store
  <2>3. NewRow(stamps[i]).state = "pending" /\ NoRow.state = "none"
    BY DEF NewRow, NoRow
  <2> QED
    BY <2>2, <2>3
<1> QED
  BY <1>1, <1>2

(* enqueue completes no row of the inbox, complete_pending only its own.    *)
LEMMA InboxStores ==
  ASSUME LinkTypeOK, NEW S \in SUBSET Ids, NEW stamps, Inbox!Store(S, stamps)
  PROVE  /\ inbox' = [i \in Ids |-> inbox'[i]]
         /\ \A i \in Ids : inbox'[i].state = "delivered" => inbox[i].state = "delivered"
<1>n. /\ Inbox!NoRow.state = "none"
      /\ \A t : Inbox!NewRow(t).state = "pending"
  BY DEF Inbox!NoRow, Inbox!NewRow
<1>1. CASE S \ Inbox!Stored = {}
  BY <1>1 DEF Inbox!Store, LinkTypeOK
<1>2. CASE S \ Inbox!Stored # {}
  <2>1. PICK kept : inbox' = [i \in Ids |-> IF i \in S \ Inbox!Stored
                                            THEN Inbox!NewRow(stamps[i])
                                            ELSE Inbox!Pruned(inbox, kept)[i]]
    BY <1>2 DEF Inbox!Store
  <2> QED
    BY <1>n, <2>1 DEF Inbox!Pruned
<1> QED
  BY <1>1, <1>2

LEMMA InboxCompletes ==
  ASSUME LinkTypeOK, NEW i \in Ids, Inbox!CompletePending(i)
  PROVE  /\ inbox' = [j \in Ids |-> inbox'[j]]
         /\ \A j \in Ids \ {i} :
              inbox'[j].state = "delivered" => inbox[j].state = "delivered"
<1> DEFINE done == [inbox EXCEPT ![i] = Inbox!Moved(@, "delivered", Nobody)]
<1>n. Inbox!NoRow.state = "none"
  BY DEF Inbox!NoRow
<1>1. PICK kept : inbox' = Inbox!Pruned(done, kept)
  BY DEF Inbox!CompletePending
<1>2. \A j \in Ids \ {i} : done[j] = inbox[j]
  BY DEF LinkTypeOK
<1> HIDE DEF done
<1> QED
  BY <1>n, <1>1, <1>2 DEF Inbox!Pruned
-----------------------------------------------------------------------------
(* What no step of the link undoes: publications, and rows until their item *)
(* was taken.                                                               *)
LEMMA StagedKeeps ==
  ASSUME OutboxInv, LinkInv, OutboxStep \/ UNCHANGED outboxVars,
         \A i \in Ids : published'[i] \in Nat /\ published'[i] >= published[i],
         UNCHANGED staged
  PROVE  StagedKept'
<1> SUFFICES ASSUME NEW i \in staged, rows'[i] = NoRow PROVE published'[i] > 0
  BY DEF StagedKept
<1>t. i \in Ids /\ published[i] \in Nat
  BY DEF LinkInv, LinkTypeOK
<1>1. CASE rows[i] = NoRow
  BY <1>1, <1>t DEF LinkInv, StagedKept
<1>2. CASE rows[i] # NoRow
  <2>1. OutboxStep
    BY <1>2 DEF outboxVars
  <2>2. i \in taken
    BY <1>2, <1>t, <2>1, RowGone
  <2> QED
    BY <1>t, <2>2 DEF LinkInv, TakenPublished
<1> QED
  BY <1>1, <1>2

(* The steps of the sender that no helper is involved in.                   *)
LEMMA SenderKeeps ==
  ASSUME OutboxInv, LinkInv, OutboxStep \/ UNCHANGED outboxVars,
         taken' = taken, owner' \in Owners, call' \in {call, NoCall},
         UNCHANGED <<helper, inbox, staged, published>>
  PROVE  LinkInv'
<1>1. LinkTypeOK'
  BY DEF LinkInv, LinkTypeOK
<1>2. CallIsServed'
  BY DEF LinkInv, CallIsServed, NoCall
<1>3. HelperPublished' /\ InboxPublished' /\ TakenPublished'
  BY DEF LinkInv, HelperPublished, InboxPublished, TakenPublished
<1>4. \A i \in Ids : published'[i] \in Nat /\ published'[i] >= published[i]
  BY DEF LinkInv, LinkTypeOK
<1>5. StagedKept'
  BY <1>4, StagedKeeps
<1> QED
  BY <1>1, <1>2, <1>3, <1>5 DEF LinkInv

LEMMA StageStep ==
  ASSUME OutboxInv, LinkInv, NEW S \in SUBSET Ids, Stage(S)
  PROVE  OutboxStep /\ LinkInv'
<1> DEFINE stamps == [i \in S |-> Cardinality(staged) + 1]
<1>1. stamps \in [S -> Nat]
  <2>1. IsFiniteSet(staged)
    BY OutboxAssumption, FS_Subset DEF OutboxAssumption, LinkInv, LinkTypeOK
  <2> QED
    BY <2>1, FS_CardinalityType
<1>2. Store(S, stamps) /\ staged' = staged \cup S
      /\ UNCHANGED <<owner, call, helper, inbox, published, taken>>
  BY DEF Stage, Store
<1> HIDE DEF stamps
<1>3. OutboxStep
  BY <1>1, <1>2 DEF OutboxStep
<1>4. LinkTypeOK' /\ CallIsServed'
  BY <1>2 DEF LinkInv, LinkTypeOK, CallIsServed
<1>5. HelperPublished' /\ InboxPublished' /\ TakenPublished'
  BY <1>2 DEF LinkInv, HelperPublished, InboxPublished, TakenPublished
<1>6. ASSUME NEW i \in staged', rows'[i] = NoRow PROVE published'[i] > 0
  <2>1. CASE i \in S
    <3>1. i \in taken
      BY <1>1, <1>2, <1>6, <2>1, StagedIsStored
    <3> QED
      BY <1>2, <3>1 DEF LinkInv, TakenPublished
  <2>2. CASE i \in staged /\ rows[i] # NoRow
    <3>1. i \in taken
      BY <1>3, <1>6, <2>2, RowGone DEF LinkInv, LinkTypeOK
    <3> QED
      BY <1>2, <3>1 DEF LinkInv, TakenPublished
  <2>3. CASE i \in staged /\ rows[i] = NoRow
    BY <1>2, <2>3 DEF LinkInv, StagedKept
  <2> QED
    BY <1>2, <1>6, <2>1, <2>2, <2>3
<1> QED
  BY <1>3, <1>4, <1>5, <1>6 DEF LinkInv, StagedKept

LEMMA ConnectStep ==
  ASSUME OutboxInv, LinkInv, NEW i \in Ids, NEW s \in Slots, Connect(i, s)
  PROVE  LinkInv'
<1>1. /\ call = NoCall /\ helper[s] = Idle
      /\ call' = [open |-> TRUE, slot |-> s, id |-> i]
      /\ helper' = [helper EXCEPT ![s] =
                       [phase |-> "received", id |-> i, ts |-> rows[i].created]]
      /\ UNCHANGED <<rows, taken, owner, inbox, staged, published>>
  BY DEF Connect, outboxVars
<1>2. rows[i].created \in Nat
  BY DEF OutboxInv, OutboxTypeOK, Row
<1>3. /\ helper'[s] = [phase |-> "received", id |-> i, ts |-> rows[i].created]
      /\ \A t \in Slots \ {s} : helper'[t] = helper[t]
      /\ helper' = [t \in Slots |-> helper'[t]]
  BY <1>1 DEF LinkInv, LinkTypeOK
<1>4. LinkTypeOK'
  BY <1>1, <1>2, <1>3 DEF LinkInv, LinkTypeOK, HelperStates
<1>5. CallIsServed'
  BY <1>1, <1>3 DEF CallIsServed
<1>6. HelperPublished' /\ InboxPublished' /\ TakenPublished' /\ StagedKept'
  BY <1>1, <1>3 DEF LinkInv, HelperPublished, InboxPublished, TakenPublished, StagedKept
<1> QED
  BY <1>4, <1>5, <1>6 DEF LinkInv
-----------------------------------------------------------------------------
Turned(s, phase) ==
    [helper EXCEPT ![s] = [phase |-> phase, id |-> helper[s].id, ts |-> helper[s].ts]]

(* One helper moves on, or leaves, without an answer.                       *)
LEMMA HelperKeeps ==
  ASSUME OutboxInv, LinkInv, NEW s \in Slots, helper[s] \in HelperStates,
         NEW phase \in {"received", "fresh", "kept", "announced", "stored"},
         UNCHANGED <<outboxVars, owner, call, staged>>,
         \/ helper' = [helper EXCEPT ![s] = Idle]
         \/ /\ helper' = Turned(s, phase)
            /\ phase \in {"announced", "stored"} => published'[helper[s].id] > 0,
         published' \in [Ids -> Nat],
         \A i \in Ids : published'[i] >= published[i],
         inbox' = [i \in Ids |-> inbox'[i]],
         InboxPublished'
  PROVE  LinkInv'
<1>t. helper[s].id \in Ids /\ helper[s].ts \in Nat /\ published \in [Ids -> Nat]
  BY DEF HelperStates, LinkInv, LinkTypeOK
<1>1. /\ helper' = [t \in Slots |-> helper'[t]]
      /\ \A t \in Slots \ {s} : helper'[t] = helper[t]
      /\ \/ helper'[s] = Idle
         \/ helper'[s] = [phase |-> phase, id |-> helper[s].id, ts |-> helper[s].ts]
            /\ (phase \in {"announced", "stored"} => published'[helper[s].id] > 0)
  BY DEF LinkInv, LinkTypeOK, Turned
<1>i. Idle.phase = "idle"
  BY DEF Idle
<1>2. LinkTypeOK'
  BY <1>1, <1>t DEF LinkInv, LinkTypeOK, HelperStates
<1>3. CallIsServed'
  <2>1. call' = call
    OBVIOUS
  <2>2. ASSUME call # NoCall
        PROVE  call.slot \in Slots
               /\ (helper'[call.slot] = Idle \/ helper'[call.slot].id = call.id)
    <3>1. /\ call.slot \in Slots
          /\ helper[call.slot] = Idle \/ helper[call.slot].id = call.id
      BY <2>2 DEF LinkInv, CallIsServed
    <3>2. CASE call.slot = s
      <4>1. helper[s].phase # "idle"
        BY DEF HelperStates
      <4>2. helper[s].id = call.id
        BY <1>i, <3>1, <3>2, <4>1
      <4> QED
        BY <1>1, <3>1, <3>2, <4>2
    <3>3. CASE call.slot # s
      BY <1>1, <3>1, <3>3
    <3> QED
      BY <3>2, <3>3, <3>1
  <2> QED
    BY <2>1, <2>2 DEF LinkInv, CallIsServed
<1>4. HelperPublished'
  <2> SUFFICES ASSUME NEW t \in Slots, helper'[t].phase \in {"announced", "stored"}
               PROVE  published'[helper'[t].id] > 0
    BY DEF HelperPublished
  <2>1. CASE t = s
    BY <1>1, <1>i, <2>1
  <2>2. CASE t # s
    <3>1. helper'[t] = helper[t] /\ published[helper[t].id] > 0
      BY <1>1, <2>2 DEF LinkInv, HelperPublished
    <3>2. helper[t].id \in Ids
      BY <1>i, <2>2, <3>1 DEF LinkInv, LinkTypeOK, HelperStates
    <3> QED
      BY <1>t, <3>1, <3>2
  <2> QED
    BY <2>1, <2>2
<1>5. TakenPublished'
  <2>1. taken' = taken /\ taken \subseteq Ids
    BY DEF outboxVars, OutboxInv, OutboxTypeOK
  <2> QED
    BY <1>t, <2>1 DEF LinkInv, TakenPublished
<1>6. StagedKept'
  BY StagedKeeps
<1> QED
  BY <1>2, <1>3, <1>4, <1>5, <1>6 DEF LinkInv

(* A helper that is at work has an event. *)
LEMMA AtWork ==
  ASSUME LinkInv, NEW s \in Slots, helper[s].phase # "idle"
  PROVE  helper[s] \in HelperStates /\ helper[s].id \in Ids
BY DEF LinkInv, LinkTypeOK, HelperStates, Idle

LEMMA LookStep ==
  ASSUME OutboxInv, LinkInv, NEW s \in Slots, Look(s)
  PROVE  LinkInv'
<1>1. /\ helper[s] \in HelperStates /\ helper[s].id \in Ids
      /\ UNCHANGED <<outboxVars, owner, call, staged, published, inbox>>
  BY AtWork DEF Look
<1>2. /\ published' \in [Ids -> Nat] /\ \A i \in Ids : published'[i] >= published[i]
      /\ inbox' = [i \in Ids |-> inbox'[i]] /\ InboxPublished'
  BY <1>1 DEF LinkInv, LinkTypeOK, InboxPublished
<1>3. CASE Inbox!IsDelivered(helper[s].id)
  <2>1. published'[helper[s].id] > 0
    BY <1>1, <1>3 DEF Inbox!IsDelivered, LinkInv, InboxPublished
  <2>2. helper' = Turned(s, "stored")
    BY <1>3 DEF Look, Turn, Turned
  <2> QED
    BY <1>1, <1>2, <2>1, <2>2, HelperKeeps
<1>4. CASE ~Inbox!IsDelivered(helper[s].id)
  <2>1. helper' = Turned(s, "fresh")
    BY <1>4 DEF Look, Turn, Turned
  <2> QED
    BY <1>1, <1>2, <2>1, HelperKeeps
<1> QED
  BY <1>3, <1>4

LEMMA KeepStep ==
  ASSUME OutboxInv, LinkInv, NEW s \in Slots, Keep(s)
  PROVE  LinkInv'
<1> DEFINE i == helper[s].id
           stamps == [j \in {i} |-> helper[s].ts]
<1>1. /\ helper[s] \in HelperStates /\ i \in Ids
      /\ UNCHANGED <<outboxVars, owner, call, staged, published>>
      /\ Inbox!Store({i}, stamps)
      /\ helper' = Turned(s, "kept")
  BY AtWork DEF Keep, Turn, Turned
<1>2. /\ inbox' = [j \in Ids |-> inbox'[j]]
      /\ \A j \in Ids : inbox'[j].state = "delivered" => inbox[j].state = "delivered"
  <2> HIDE DEF stamps
  <2> QED
    BY <1>1, InboxStores DEF LinkInv
<1>3. published' \in [Ids -> Nat] /\ \A j \in Ids : published'[j] >= published[j]
  BY <1>1 DEF LinkInv, LinkTypeOK
<1>4. InboxPublished'
  BY <1>1, <1>2 DEF LinkInv, InboxPublished
<1> QED
  BY <1>1, <1>2, <1>3, <1>4, HelperKeeps

LEMMA RefuseStep ==
  ASSUME OutboxInv, LinkInv, NEW s \in Slots, Refuse(s)
  PROVE  LinkInv'
<1>1. /\ helper[s] \in HelperStates
      /\ UNCHANGED <<outboxVars, owner, call, staged, published, inbox>>
      /\ helper' = [helper EXCEPT ![s] = Idle]
  BY AtWork DEF Refuse, Leave
<1>2. /\ published' \in [Ids -> Nat] /\ \A i \in Ids : published'[i] >= published[i]
      /\ inbox' = [i \in Ids |-> inbox'[i]] /\ InboxPublished'
  BY <1>1 DEF LinkInv, LinkTypeOK, InboxPublished
<1> QED
  BY <1>1, <1>2, HelperKeeps

LEMMA PublishStep ==
  ASSUME OutboxInv, LinkInv, NEW s \in Slots, Publish(s)
  PROVE  LinkInv'
<1> DEFINE i == helper[s].id
<1>1. /\ helper[s] \in HelperStates /\ i \in Ids
      /\ UNCHANGED <<outboxVars, owner, call, staged, inbox>>
      /\ published' = [published EXCEPT ![i] = IF @ < 2 THEN @ + 1 ELSE @]
      /\ helper' = Turned(s, "announced")
  BY AtWork DEF Publish, Turn, Turned
<1>2. /\ published' \in [Ids -> Nat] /\ \A j \in Ids : published'[j] >= published[j]
      /\ published'[i] > 0
  BY <1>1 DEF LinkInv, LinkTypeOK
<1>3. inbox' = [j \in Ids |-> inbox'[j]] /\ InboxPublished'
  BY <1>1, <1>2 DEF LinkInv, LinkTypeOK, InboxPublished
<1> QED
  BY <1>1, <1>2, <1>3, HelperKeeps

LEMMA CompleteStep ==
  ASSUME OutboxInv, LinkInv, NEW s \in Slots, Complete(s)
  PROVE  LinkInv'
<1> DEFINE i == helper[s].id
<1>1. /\ helper[s] \in HelperStates /\ i \in Ids
      /\ UNCHANGED <<outboxVars, owner, call, staged, published>>
      /\ published[i] > 0
  BY AtWork DEF Complete, LinkInv, HelperPublished
<1>2. published' \in [Ids -> Nat] /\ \A j \in Ids : published'[j] >= published[j]
  BY <1>1 DEF LinkInv, LinkTypeOK
<1>3. CASE Inbox!CompletePending(i) /\ Turn(s, "stored")
  <2>1. /\ inbox' = [j \in Ids |-> inbox'[j]]
        /\ \A j \in Ids \ {i} :
              inbox'[j].state = "delivered" => inbox[j].state = "delivered"
    BY <1>1, <1>3, InboxCompletes DEF LinkInv
  <2>2. InboxPublished'
    BY <1>1, <2>1 DEF LinkInv, InboxPublished
  <2>3. helper' = Turned(s, "stored")
    BY <1>3 DEF Turn, Turned
  <2> QED
    BY <1>1, <1>2, <2>1, <2>2, <2>3, HelperKeeps
<1>4. CASE Leave(s) /\ UNCHANGED inbox
  <2>1. inbox' = [j \in Ids |-> inbox'[j]] /\ InboxPublished'
    BY <1>1, <1>4 DEF LinkInv, LinkTypeOK, InboxPublished
  <2>2. helper' = [helper EXCEPT ![s] = Idle]
    BY <1>4 DEF Leave
  <2> QED
    BY <1>1, <1>2, <2>1, <2>2, HelperKeeps
<1> QED
  BY <1>3, <1>4 DEF Complete

LEMMA AnswerStep ==
  ASSUME OutboxInv, LinkInv, NEW s \in Slots, Answer(s)
  PROVE  (OutboxStep \/ UNCHANGED outboxVars) /\ LinkInv'
<1>1. /\ helper[s] \in HelperStates /\ published[helper[s].id] > 0
      /\ UNCHANGED <<owner, inbox, staged, published>>
      /\ helper' = [helper EXCEPT ![s] = Idle]
  BY AtWork DEF Answer, Leave, LinkInv, HelperPublished
<1>2. /\ published' \in [Ids -> Nat] /\ \A i \in Ids : published'[i] >= published[i]
      /\ inbox' = [i \in Ids |-> inbox'[i]] /\ InboxPublished'
  BY <1>1 DEF LinkInv, LinkTypeOK, InboxPublished
<1>3. CASE call.open /\ call.slot = s
  <2>1. Send(owner, call.id) /\ call' = NoCall
    BY <1>3 DEF Answer
  <2>2. call # NoCall
    BY <1>3 DEF NoCall
  <2>3. call.id \in Ids /\ (helper[s] = Idle \/ helper[s].id = call.id)
    BY <1>3, <2>2 DEF LinkInv, CallIsServed
  <2>4. published[call.id] > 0
    BY <1>1, <2>3 DEF HelperStates, Idle
  <2>5. OutboxStep
    BY <2>1, <2>3 DEF OutboxStep, LinkInv, LinkTypeOK
  <2>6. TakenPublished'
    BY <1>1, <2>1, <2>4 DEF Send, LinkInv, TakenPublished
  <2>7. StagedKept'
    BY <1>1, <1>2, <2>5, StagedKeeps
  <2>8. LinkTypeOK' /\ HelperPublished'
    BY <1>1, <1>2 DEF LinkInv, LinkTypeOK, HelperPublished, Idle
  <2>9. CallIsServed'
    BY <2>1 DEF CallIsServed
  <2> QED
    BY <1>2, <2>5, <2>6, <2>7, <2>8, <2>9 DEF LinkInv
<1>4. CASE ~(call.open /\ call.slot = s)
  <2>1. UNCHANGED <<outboxVars, call>>
    BY <1>4 DEF Answer
  <2> QED
    BY <1>1, <1>2, <2>1, HelperKeeps
<1> QED
  BY <1>3, <1>4

LEMMA ReceiverFaultStep ==
  ASSUME OutboxInv, LinkInv, NEW S \in SUBSET Slots, ReceiverFault(S)
  PROVE  LinkInv'
<1>1. /\ helper' = [s \in Slots |-> IF s \in S THEN Idle ELSE helper[s]]
      /\ UNCHANGED <<outboxVars, owner, call, inbox, staged, published>>
  BY DEF ReceiverFault
<1>2. LinkTypeOK' /\ CallIsServed' /\ HelperPublished'
  BY <1>1 DEF LinkInv, LinkTypeOK, CallIsServed, HelperPublished, Idle
<1>3. InboxPublished' /\ TakenPublished' /\ StagedKept'
  BY <1>1 DEF LinkInv, InboxPublished, TakenPublished, StagedKept, outboxVars
<1> QED
  BY <1>2, <1>3 DEF LinkInv

LEMMA GiveUpStep ==
  ASSUME OutboxInv, LinkInv, NEW i \in Ids, GiveUp(i)
  PROVE  OutboxStep /\ LinkInv'
<1>1. /\ owner \in Owners
      /\ Retry(owner, i) \/ LeaseLost(owner, i)
      /\ call' = NoCall /\ UNCHANGED <<owner, helper, inbox, staged, published>>
  BY DEF GiveUp, LinkInv, LinkTypeOK
<1>2. OutboxStep /\ taken' = taken
  BY <1>1 DEF OutboxStep, Retry, LeaseLost, DropBatch
<1> QED
  BY <1>1, <1>2, SenderKeeps

(* The sender's steps that leave the connection alone, and its death.       *)
LEMMA QuietStep ==
  ASSUME OutboxInv, LinkInv,
         \/ SenderClaims
         \/ \E i \in Ids : SenderAcknowledges(i)
         \/ SenderDies
         \/ Timers
  PROVE  OutboxStep /\ LinkInv'
<1>o. owner \in Owners
  BY DEF LinkInv, LinkTypeOK
<1>1. CASE SenderClaims
  <2>1. OutboxStep /\ taken' = taken /\ UNCHANGED linkVars
    BY <1>o, <1>1 DEF SenderClaims, OutboxStep, Claim
  <2> QED
    BY <1>o, <2>1, SenderKeeps DEF linkVars
<1>2. ASSUME NEW i \in Ids, SenderAcknowledges(i) PROVE OutboxStep /\ LinkInv'
  <2>1. OutboxStep /\ taken' = taken /\ UNCHANGED linkVars
    BY <1>o, <1>2 DEF SenderAcknowledges, OutboxStep, Acknowledge
  <2> QED
    BY <1>o, <2>1, SenderKeeps DEF linkVars
<1>3. CASE SenderDies
  <2>1. /\ OutboxStep /\ taken' = taken /\ owner' \in Owners /\ call' = NoCall
        /\ UNCHANGED <<helper, inbox, staged, published>>
    BY <1>o, <1>3 DEF SenderDies, OutboxStep, DropBatch
  <2> QED
    BY <2>1, SenderKeeps
<1>4. CASE Timers
  <2>1. OutboxStep /\ taken' = taken /\ UNCHANGED linkVars
    BY <1>4 DEF Timers, OutboxStep, BackoffElapses, LeaseLapses
  <2> QED
    BY <1>o, <2>1, SenderKeeps DEF linkVars
<1> QED
  BY <1>1, <1>2, <1>3, <1>4

LEMMA NextKeeps == IInv /\ [Next]_vars => IInv'
<1> SUFFICES ASSUME IInv, [Next]_vars PROVE IInv'
  OBVIOUS
<1>0. OutboxInv /\ LinkInv
  BY DEF IInv
<1>1. ASSUME NEW S \in SUBSET Ids, Stage(S)
      PROVE  (OutboxStep \/ UNCHANGED outboxVars) /\ LinkInv'
  BY <1>0, <1>1, StageStep
<1>2. ASSUME NEW i \in Ids, NEW s \in Slots, Connect(i, s)
      PROVE  (OutboxStep \/ UNCHANGED outboxVars) /\ LinkInv'
  BY <1>0, <1>2, ConnectStep DEF Connect
<1>3. ASSUME NEW i \in Ids, GiveUp(i)
      PROVE  (OutboxStep \/ UNCHANGED outboxVars) /\ LinkInv'
  BY <1>0, <1>3, GiveUpStep
<1>4. ASSUME SenderClaims \/ (\E i \in Ids : SenderAcknowledges(i)) \/ SenderDies \/ Timers
      PROVE  (OutboxStep \/ UNCHANGED outboxVars) /\ LinkInv'
  BY <1>0, <1>4, QuietStep
<1>5. ASSUME NEW s \in Slots, HelperStep(s)
      PROVE  (OutboxStep \/ UNCHANGED outboxVars) /\ LinkInv'
  <2>1. CASE Look(s)
    BY <1>0, <2>1, LookStep DEF Look
  <2>2. CASE Keep(s)
    BY <1>0, <2>2, KeepStep DEF Keep
  <2>3. CASE Refuse(s)
    BY <1>0, <2>3, RefuseStep DEF Refuse
  <2>4. CASE Publish(s)
    BY <1>0, <2>4, PublishStep DEF Publish
  <2>5. CASE Complete(s)
    BY <1>0, <2>5, CompleteStep DEF Complete
  <2>6. CASE Answer(s)
    BY <1>0, <2>6, AnswerStep
  <2> QED
    BY <1>0, <1>5, <2>1, <2>2, <2>3, <2>4, <2>5, <2>6 DEF HelperStep
<1>6. ASSUME NEW S \in SUBSET Slots, ReceiverFault(S)
      PROVE  (OutboxStep \/ UNCHANGED outboxVars) /\ LinkInv'
  BY <1>0, <1>6, ReceiverFaultStep DEF ReceiverFault
<1>7. ASSUME UNCHANGED vars
      PROVE  (OutboxStep \/ UNCHANGED outboxVars) /\ LinkInv'
  BY <1>0, <1>7 DEF vars, linkVars, outboxVars, LinkInv, LinkTypeOK, CallIsServed,
              HelperPublished, InboxPublished, TakenPublished, StagedKept
<1>8. ASSUME NEW s \in Slots, ReceiverFault({s})
      PROVE  (OutboxStep \/ UNCHANGED outboxVars) /\ LinkInv'
  BY <1>6, <1>8
<1>9. ASSUME ReceiverFault({s \in Slots : helper[s] # Idle})
      PROVE  (OutboxStep \/ UNCHANGED outboxVars) /\ LinkInv'
  BY <1>6, <1>9
<1>a. (OutboxStep \/ UNCHANGED outboxVars) /\ LinkInv'
  BY <1>1, <1>2, <1>3, <1>4, <1>5, <1>7, <1>8, <1>9 DEF Next, SenderStep
<1>b. CASE OutboxStep
  BY <1>0, <1>a, <1>b, StepOutboxInv DEF IInv
<1>c. CASE UNCHANGED outboxVars
  BY <1>0, <1>a, <1>c DEF IInv, outboxVars, OutboxInv, OutboxTypeOK, RowsSound, AcceptedWasTaken,
                    DeliveredWasTaken, RetentionIsBounded, Undelivered, InState
<1> QED
  BY <1>a, <1>b, <1>c

LEMMA Invariance == Spec => []IInv
<1>1. Init => IInv
  <2> SUFFICES ASSUME Init PROVE IInv
    OBVIOUS
  <2>1. OutboxInv
    BY InitOutboxInv DEF Init
  <2>2. owner \in Owners
    BY BridgeAssumption DEF Init, BridgeAssumption
  <2>3. LinkInv
    BY <2>2 DEF Init, OutboxInit, LinkInv, LinkTypeOK, CallIsServed, HelperPublished,
                InboxPublished, TakenPublished, StagedKept, Idle, NoRow
  <2> QED
    BY <2>1, <2>3 DEF IInv
<1> QED
  BY <1>1, NextKeeps, PTL DEF Spec

(* Whatever is lost on the wire and whoever dies, an event staged in the     *)
(* sender's outbox is still there or was published by the receiver           *)
(* (_drain_sender, _forward_payload, _serve, _republish).                   *)
THEOREM NothingVanishesHolds == Spec => []NothingVanishes
<1>1. IInv => NothingVanishes
  <2> SUFFICES ASSUME IInv, NEW i \in staged, i \notin Undelivered
               PROVE  published[i] > 0
    BY DEF NothingVanishes
  <2>1. i \in Ids /\ rows[i] \in Row
    BY DEF IInv, OutboxInv, OutboxTypeOK, LinkInv, LinkTypeOK
  <2>2. rows[i].state \in {"none", "delivered"}
    BY <2>1 DEF Row, Undelivered, InState
  <2>3. CASE rows[i].state = "none"
    BY <2>1, <2>3 DEF IInv, OutboxInv, RowsSound, LinkInv, StagedKept
  <2>4. CASE rows[i].state = "delivered"
    BY <2>1, <2>4 DEF IInv, OutboxInv, DeliveredWasTaken, InState, LinkInv, TakenPublished
  <2> QED
    BY <2>2, <2>3, <2>4
<1> QED
  BY <1>1, Invariance, PTL
-----------------------------------------------------------------------------
(***************************************************************************)
(* No second publication without a reason.  As long as an event has no      *)
(* excuse, one helper at the most works on it, the row of the inbox is      *)
(* pending for that helper alone, and once the event is published either    *)
(* its tombstone is there or its helper is about to write it.               *)
(***************************************************************************)
At(s, i) == Working(s) /\ helper[s].id = i

Sole(i) ==
    /\ \A s, t \in Slots : At(s, i) /\ At(t, i) => s = t
    /\ published[i] <= 1
    /\ \A s \in Slots : At(s, i) /\ helper[s].phase # "fresh" => inbox[i].state = "pending"
    /\ published[i] > 0 =>
          /\ \A s \in Slots : At(s, i) => helper[s].phase = "announced"
          /\ inbox[i].state = "delivered" \/ \E s \in Slots : At(s, i)

InboxSound ==
    \A i \in Ids : /\ inbox[i].state \in {"none", "pending", "delivered"}
                   /\ inbox[i].state = "none" => inbox[i] = NoRow

SoleInv == InboxSound /\ \A i \in Ids : excuse[i] = {} => Sole(i)

(* What the two operations of the inbox do to its rows.                     *)
LEMMA InboxStoreRows ==
  ASSUME LinkTypeOK, NEW k \in Ids, NEW stamps, Inbox!Store({k}, stamps)
  PROVE  \A i \in Ids :
           \/ inbox'[i] = inbox[i] /\ (i = k => inbox[i] # NoRow)
           \/ inbox[i].state = "delivered" /\ inbox'[i] = NoRow /\ i # k
           \/ i = k /\ inbox[i] = NoRow /\ inbox'[i].state = "pending"
<1>n. /\ Inbox!NoRow = NoRow /\ \A t : Inbox!NewRow(t).state = "pending"
      /\ Inbox!Stored = {i \in Ids : inbox[i] # NoRow}
  BY DEF Inbox!NoRow, NoRow, Inbox!NewRow, Inbox!Stored
<1>1. CASE inbox[k] # NoRow
  BY <1>1, <1>n DEF Inbox!Store
<1>2. CASE inbox[k] = NoRow
  <2>1. PICK kept : inbox' = [i \in Ids |-> IF i \in {k} \ Inbox!Stored
                                            THEN Inbox!NewRow(stamps[i])
                                            ELSE Inbox!Pruned(inbox, kept)[i]]
    BY <1>2, <1>n DEF Inbox!Store
  <2>2. ASSUME NEW i \in Ids \ {k}
        PROVE  inbox'[i] = inbox[i] \/ (inbox[i].state = "delivered" /\ inbox'[i] = NoRow)
    BY <1>n, <2>1 DEF Inbox!Pruned
  <2>3. inbox'[k].state = "pending"
    BY <1>2, <1>n, <2>1
  <2> QED
    BY <1>2, <2>2, <2>3
<1> QED
  BY <1>1, <1>2

LEMMA InboxCompleteRows ==
  ASSUME LinkTypeOK, NEW k \in Ids, Inbox!CompletePending(k)
  PROVE  /\ inbox[k].state \in {"pending", "leased"}
         /\ inbox'[k] = NoRow \/ inbox'[k].state = "delivered"
         /\ \A i \in Ids \ {k} :
              \/ inbox'[i] = inbox[i]
              \/ inbox[i].state = "delivered" /\ inbox'[i] = NoRow
<1> DEFINE done == [inbox EXCEPT ![k] = Inbox!Moved(@, "delivered", Nobody)]
<1>n. Inbox!NoRow = NoRow /\ Inbox!Moved(inbox[k], "delivered", Nobody).state = "delivered"
  BY DEF Inbox!NoRow, NoRow, Inbox!Moved
<1>1. PICK kept : inbox' = Inbox!Pruned(done, kept)
  BY DEF Inbox!CompletePending
<1>2. /\ done[k].state = "delivered"
      /\ \A i \in Ids \ {k} : done[i] = inbox[i]
  BY <1>n DEF LinkTypeOK
<1>3. inbox[k].state \in {"pending", "leased"}
  BY DEF Inbox!CompletePending
<1> HIDE DEF done
<1> QED
  BY <1>n, <1>1, <1>2, <1>3 DEF Inbox!Pruned

(* A row that is taken out of the inbox is blamed for what follows.         *)
LEMMA BlamedOrKept ==
  ASSUME LinkInv, Blame(Forgotten, "pruned"), NEW i \in Ids, excuse'[i] = {}
  PROVE  /\ excuse[i] = {}
         /\ ~(published[i] > 0 /\ inbox[i].state # "none" /\ inbox'[i] = NoRow)
<1>1. NoRow.state = "none"
  BY DEF NoRow
<1>2. i \notin Forgotten /\ excuse[i] = {}
  BY DEF Blame
<1> QED
  BY <1>1, <1>2 DEF Forgotten

(* An event a step is not about. *)
LEMMA SoleElsewhere ==
  ASSUME NEW s \in Slots, NEW i \in Ids, Sole(i), helper[s].id # i,
         \A t \in Slots \ {s} : helper'[t] = helper[t],
         helper'[s] = Idle \/ helper'[s].id = helper[s].id,
         published'[i] = published[i], inbox'[i] = inbox[i]
  PROVE  Sole(i)'
<1>1. ASSUME NEW t \in Slots
      PROVE  (At(t, i)' <=> At(t, i)) /\ (At(t, i) => helper'[t] = helper[t])
  <2>1. CASE t = s
    BY <2>1 DEF At, Working, Idle
  <2>2. CASE t # s
    BY <2>2 DEF At, Working
  <2> QED
    BY <2>1, <2>2
<1> QED
  BY <1>1 DEF Sole

(* The same for an event nobody starts or stops to work on.                 *)
LEMMA SoleStays ==
  ASSUME NEW i \in Ids, Sole(i),
         \A t \in Slots : /\ At(t, i)' <=> At(t, i)
                          /\ At(t, i) => helper'[t] = helper[t],
         published'[i] = published[i], inbox'[i] = inbox[i]
  PROVE  Sole(i)'
BY DEF Sole

LEMMA LookSole ==
  ASSUME LinkInv, SoleInv, NEW s \in Slots, Look(s)
  PROVE  SoleInv'
<1> DEFINE k == helper[s].id
<1>1. /\ helper[s].phase = "received" /\ UNCHANGED <<inbox, published>>
      /\ \A t \in Slots \ {s} : helper'[t] = helper[t]
      /\ helper'[s] \in {[phase |-> p, id |-> k, ts |-> helper[s].ts] : p \in {"stored", "fresh"}}
  BY DEF Look, Turn, LinkInv, LinkTypeOK
<1>2. InboxSound'
  BY <1>1 DEF SoleInv, InboxSound
<1>3. ~At(s, k)
  BY <1>1 DEF At, Working
<1>4. \A t \in Slots \ {s}, j \in Ids : At(t, j)' <=> At(t, j)
  BY <1>1 DEF At, Working
<1>5. ASSUME NEW i \in Ids, excuse'[i] = {} PROVE Sole(i)'
  <2>1. excuse[i] = {}
    BY <1>5 DEF Look, Blame
  <2>2. Sole(i)
    BY <2>1 DEF SoleInv
  <2>3. CASE i # k
    BY <1>1, <2>2, <2>3, SoleElsewhere
  <2>4. CASE i = k /\ Inbox!IsDelivered(k)
    <3>1. helper'[s].phase = "stored"
      BY <2>4 DEF Look, Turn, LinkInv, LinkTypeOK
    <3>2. ~At(s, i)'
      BY <3>1 DEF At, Working
    <3> QED
      BY <1>1, <1>3, <1>4, <2>2, <2>4, <3>2, SoleStays
  <2>5. CASE i = k /\ ~Inbox!IsDelivered(k)
    <3>1. helper'[s].phase = "fresh"
      BY <2>5 DEF Look, Turn, LinkInv, LinkTypeOK
    <3>2. \A t \in Slots \ {s} : ~At(t, i)
      BY <1>5, <2>5 DEF Look, Blame, At
    <3>3. ~(published[i] > 0)
      BY <1>3, <2>2, <2>5, <3>2 DEF Sole, Inbox!IsDelivered
    <3>4. \A t \in Slots : At(t, i)' => t = s
      BY <1>4, <3>2
    <3> QED
      BY <1>1, <2>2, <3>1, <3>3, <3>4 DEF Sole
  <2> QED
    BY <2>3, <2>4, <2>5
<1> QED
  BY <1>2, <1>5 DEF SoleInv

LEMMA KeepSole ==
  ASSUME LinkInv, SoleInv, NEW s \in Slots, Keep(s)
  PROVE  SoleInv'
<1> DEFINE k == helper[s].id
           stamps == [j \in {k} |-> helper[s].ts]
<1>1. /\ helper[s].phase = "fresh" /\ k \in Ids /\ published' = published
      /\ \A t \in Slots \ {s} : helper'[t] = helper[t]
      /\ helper'[s] = [phase |-> "kept", id |-> k, ts |-> helper[s].ts]
      /\ Inbox!Store({k}, stamps) /\ Blame(Forgotten, "pruned")
  BY AtWork DEF Keep, Turn, LinkInv, LinkTypeOK
<1>2. \A i \in Ids :
        \/ inbox'[i] = inbox[i] /\ (i = k => inbox[i] # NoRow)
        \/ inbox[i].state = "delivered" /\ inbox'[i] = NoRow /\ i # k
        \/ i = k /\ inbox[i] = NoRow /\ inbox'[i].state = "pending"
  <2> HIDE DEF k, stamps
  <2> QED
    BY <1>1, InboxStoreRows DEF LinkInv
<1>3. InboxSound'
  BY <1>2 DEF SoleInv, InboxSound, NoRow
<1>4. At(s, k) /\ \A t \in Slots, j \in Ids : At(t, j)' <=> At(t, j)
  BY <1>1 DEF At, Working
<1>5. ASSUME NEW i \in Ids, excuse'[i] = {} PROVE Sole(i)'
  <2>1. Sole(i) /\ ~(published[i] > 0 /\ inbox[i].state # "none" /\ inbox'[i] = NoRow)
    BY <1>1, <1>5, BlamedOrKept DEF SoleInv
  <2>2. inbox[i].state = "delivered" => published[i] > 0
    BY DEF LinkInv, InboxPublished
  <2>3. CASE i # k
    <3>1. inbox'[i] = inbox[i]
      BY <1>2, <2>1, <2>2, <2>3
    <3> QED
      BY <1>1, <2>1, <2>3, <3>1, SoleElsewhere
  <2>4. CASE i = k
    <3>1. ~(published[i] > 0)
      BY <1>1, <1>4, <2>1, <2>4 DEF Sole
    <3>2. inbox'[i].state = "pending"
      <4>1. CASE inbox'[i] = inbox[i] /\ inbox[i] # NoRow
        BY <2>2, <3>1, <4>1 DEF SoleInv, InboxSound
      <4> QED
        BY <1>2, <2>4, <4>1
    <3> QED
      BY <1>1, <1>4, <2>1, <2>4, <3>1, <3>2 DEF Sole
  <2> QED
    BY <2>3, <2>4
<1> QED
  BY <1>3, <1>5 DEF SoleInv

LEMMA PublishSole ==
  ASSUME LinkInv, SoleInv, NEW s \in Slots, Publish(s) \/ Refuse(s) \/ Answer(s)
  PROVE  SoleInv'
<1> DEFINE k == helper[s].id
<1>1. /\ helper[s].phase \in {"kept", "fresh", "stored"} /\ k \in Ids
      /\ UNCHANGED <<inbox, excuse>>
      /\ \A t \in Slots \ {s} : helper'[t] = helper[t]
      /\ helper'[s] = Idle \/ helper'[s].id = k
      /\ \A i \in Ids \ {k} : published'[i] = published[i]
  <2>1. helper[s].phase \in {"kept", "fresh", "stored"} /\ UNCHANGED <<inbox, excuse>>
    BY DEF Publish, Refuse, Answer
  <2>2. k \in Ids
    BY <2>1, AtWork
  <2>3. /\ \A t \in Slots \ {s} : helper'[t] = helper[t]
        /\ helper'[s] = Idle \/ helper'[s].id = k
    BY DEF Publish, Refuse, Answer, Turn, Leave, LinkInv, LinkTypeOK
  <2>4. \A i \in Ids \ {k} : published'[i] = published[i]
    BY DEF Publish, Refuse, Answer, LinkInv, LinkTypeOK
  <2> QED
    BY <2>1, <2>2, <2>3, <2>4
<1>2. InboxSound'
  BY <1>1 DEF SoleInv, InboxSound
<1>4. \A t \in Slots \ {s}, j \in Ids : At(t, j)' <=> At(t, j)
  BY <1>1 DEF At, Working
<1>5. ASSUME NEW i \in Ids, excuse'[i] = {} PROVE Sole(i)'
  <2>1. Sole(i)
    BY <1>1, <1>5 DEF SoleInv
  <2>2. CASE i # k
    BY <1>1, <2>1, <2>2, SoleElsewhere
  <2>3. CASE i = k /\ Publish(s)
    <3>1. At(s, i) /\ ~(published[i] > 0) /\ inbox[i].state = "pending"
      BY <2>1, <2>3 DEF Publish, At, Working, Sole
    <3>2. published[i] \in Nat /\ published \in [Ids -> Nat]
      BY DEF LinkInv, LinkTypeOK
    <3>3. published'[i] = 1 /\ helper'[s].phase = "announced" /\ helper'[s].id = i
      BY <2>3, <3>1, <3>2 DEF Publish, Turn, LinkInv, LinkTypeOK
    <3>4. At(s, i)' /\ \A t \in Slots : At(t, i)' => t = s
      <4>1. At(s, i)'
        BY <3>3 DEF At, Working
      <4> QED
        BY <1>4, <2>1, <2>3, <3>1, <4>1 DEF Sole
    <3> QED
      BY <1>1, <3>1, <3>3, <3>4 DEF Sole
  <2>4. CASE i = k /\ Refuse(s)
    <3>1. At(s, i) /\ ~(published[i] > 0) /\ published' = published
      BY <2>1, <2>4 DEF Refuse, At, Working, Sole
    <3>2. helper'[s] = Idle
      BY <2>4 DEF Refuse, Leave, LinkInv, LinkTypeOK
    <3>3. \A t \in Slots : ~At(t, i)'
      <4>1. ~At(s, i)'
        BY <3>2 DEF At, Working, Idle
      <4> QED
        BY <1>4, <2>1, <2>4, <3>1, <4>1 DEF Sole
    <3> QED
      BY <1>1, <2>1, <3>1, <3>3 DEF Sole
  <2>5. CASE i = k /\ Answer(s)
    <3>1. ~At(s, i) /\ published' = published /\ helper'[s] = Idle
      BY <2>5 DEF Answer, Leave, At, Working, LinkInv, LinkTypeOK
    <3>2. ~At(s, i)'
      BY <3>1 DEF At, Working, Idle
    <3> QED
      BY <1>1, <1>4, <2>1, <2>5, <3>1, <3>2, SoleStays
  <2> QED
    BY <2>2, <2>3, <2>4, <2>5
<1> QED
  BY <1>2, <1>5 DEF SoleInv

LEMMA CompleteSole ==
  ASSUME LinkInv, SoleInv, NEW s \in Slots, Complete(s)
  PROVE  SoleInv'
<1> DEFINE k == helper[s].id
<1>1. /\ helper[s].phase = "announced" /\ k \in Ids /\ published' = published
      /\ \A t \in Slots \ {s} : helper'[t] = helper[t]
      /\ helper'[s] = Idle \/ helper'[s] = [phase |-> "stored", id |-> k, ts |-> helper[s].ts]
      /\ Blame(Forgotten, "pruned")
  <2>1. helper[s].phase = "announced" /\ published' = published /\ Blame(Forgotten, "pruned")
    BY DEF Complete
  <2>2. k \in Ids
    BY <2>1, AtWork
  <2>3. /\ \A t \in Slots \ {s} : helper'[t] = helper[t]
        /\ helper'[s] = Idle \/ helper'[s] = [phase |-> "stored", id |-> k, ts |-> helper[s].ts]
    BY DEF Complete, Turn, Leave, LinkInv, LinkTypeOK
  <2> QED
    BY <2>1, <2>2, <2>3
<1>2. /\ \A i \in Ids \ {k} : \/ inbox'[i] = inbox[i]
                              \/ inbox[i].state = "delivered" /\ inbox'[i] = NoRow
      /\ \/ inbox'[k] = NoRow \/ inbox'[k].state = "delivered"
         \/ inbox[k].state # "pending" /\ inbox' = inbox
  <2> HIDE DEF k
  <2>1. CASE Inbox!CompletePending(k)
    BY <1>1, <2>1, InboxCompleteRows DEF LinkInv
  <2>2. CASE inbox[k].state \notin {"pending", "leased"} /\ UNCHANGED inbox
    BY <2>2
  <2> QED
    BY <2>1, <2>2 DEF Complete, k
<1>3. InboxSound'
  BY <1>2 DEF SoleInv, InboxSound, NoRow
<1>4. /\ At(s, k) /\ published[k] > 0
      /\ \A j \in Ids : ~At(s, j)'
      /\ \A t \in Slots \ {s}, j \in Ids : At(t, j)' <=> At(t, j)
  <2>1. published[k] > 0
    BY <1>1 DEF LinkInv, HelperPublished
  <2> QED
    BY <1>1, <2>1 DEF At, Working, Idle
<1>5. ASSUME NEW i \in Ids, excuse'[i] = {} PROVE Sole(i)'
  <2>1. Sole(i) /\ ~(published[i] > 0 /\ inbox[i].state # "none" /\ inbox'[i] = NoRow)
    BY <1>1, <1>5, BlamedOrKept DEF SoleInv
  <2>2. CASE i # k
    <3>1. inbox[i].state = "delivered" => published[i] > 0
      BY DEF LinkInv, InboxPublished
    <3>2. inbox'[i] = inbox[i]
      BY <1>2, <2>1, <2>2, <3>1
    <3> QED
      BY <1>1, <2>1, <2>2, <3>2, SoleElsewhere
  <2>3. CASE i = k
    <3>1. inbox[i].state = "pending"
      BY <1>1, <1>4, <2>1, <2>3 DEF Sole
    <3>2. inbox'[i].state = "delivered"
      BY <1>2, <1>4, <2>1, <2>3, <3>1
    <3>3. \A t \in Slots : ~At(t, i)'
      BY <1>4, <2>1, <2>3 DEF Sole
    <3> QED
      BY <1>1, <2>1, <3>2, <3>3 DEF Sole
  <2> QED
    BY <2>2, <2>3
<1> QED
  BY <1>3, <1>5 DEF SoleInv

LEMMA FaultSole ==
  ASSUME LinkInv, SoleInv, NEW S \in SUBSET Slots, ReceiverFault(S)
  PROVE  SoleInv'
<1>1. /\ helper' = [s \in Slots |-> IF s \in S THEN Idle ELSE helper[s]]
      /\ UNCHANGED <<inbox, published>>
      /\ Blame({helper[s].id : s \in {t \in S : helper[t].phase = "announced"}}, "fault")
  BY DEF ReceiverFault
<1>2. InboxSound'
  BY <1>1 DEF SoleInv, InboxSound
<1>3. \A t \in Slots, j \in Ids : At(t, j)' <=> (t \notin S /\ At(t, j))
  BY <1>1 DEF At, Working, Idle
<1>4. ASSUME NEW i \in Ids, excuse'[i] = {} PROVE Sole(i)'
  <2>1. /\ excuse[i] = {}
        /\ \A t \in S : helper[t].phase = "announced" => helper[t].id # i
    BY <1>1, <1>4 DEF Blame
  <2>2. Sole(i)
    BY <2>1 DEF SoleInv
  <2>3. ASSUME published[i] > 0, inbox[i].state # "delivered"
        PROVE  \E t \in Slots : At(t, i)'
    <3>1. PICK t \in Slots : At(t, i) /\ helper[t].phase = "announced"
      BY <2>2, <2>3 DEF Sole
    <3> QED
      BY <1>3, <2>1, <3>1 DEF At
  <2>4. \A t \in Slots : At(t, i)' => At(t, i) /\ helper'[t] = helper[t]
    BY <1>1, <1>3
  <2>5. published'[i] = published[i] /\ inbox'[i] = inbox[i]
    BY <1>1
  <2> QED
    BY <2>2, <2>3, <2>4, <2>5 DEF Sole
<1> QED
  BY <1>2, <1>4 DEF SoleInv

LEMMA NextSole ==
  ASSUME IInv, SoleInv, [Next]_vars
  PROVE  SoleInv'
<1>0. LinkInv
  BY DEF IInv
<1>1. ASSUME UNCHANGED <<helper, inbox, published, excuse>> PROVE SoleInv'
  <2>1. \A t \in Slots, j \in Ids : At(t, j)' <=> At(t, j)
    BY <1>1 DEF At, Working
  <2>2. \A j \in Ids : Sole(j) => Sole(j)'
    BY <1>1, <2>1 DEF Sole
  <2> QED
    BY <1>1, <2>2 DEF SoleInv, InboxSound
<1>2. ASSUME NEW i \in Ids, NEW s \in Slots, Connect(i, s) PROVE SoleInv'
  <2>1. /\ helper[s] = Idle /\ UNCHANGED <<inbox, published, excuse>>
        /\ \A t \in Slots \ {s} : helper'[t] = helper[t]
        /\ helper'[s].phase = "received"
    BY <1>0, <1>2 DEF Connect, LinkInv, LinkTypeOK
  <2>2. \A t \in Slots, j \in Ids : /\ At(t, j)' <=> At(t, j)
                                    /\ At(t, j) => helper'[t] = helper[t]
    BY <2>1 DEF At, Working, Idle
  <2>3. \A j \in Ids : Sole(j) => Sole(j)'
    BY <2>1, <2>2, SoleStays
  <2> QED
    BY <2>1, <2>3 DEF SoleInv, InboxSound
<1>3. ASSUME NEW s \in Slots, HelperStep(s) PROVE SoleInv'
  BY <1>0, <1>3, LookSole, KeepSole, PublishSole, CompleteSole DEF HelperStep
<1>4. ASSUME NEW S \in SUBSET Slots, ReceiverFault(S) PROVE SoleInv'
  BY <1>0, <1>4, FaultSole
<1>5. ASSUME NEW s \in Slots, ReceiverFault({s}) PROVE SoleInv'
  BY <1>4, <1>5
<1>6. ASSUME ReceiverFault({s \in Slots : helper[s] # Idle}) PROVE SoleInv'
  BY <1>4, <1>6
<1>7. ASSUME NEW S \in SUBSET Ids, Stage(S) PROVE SoleInv'
  BY <1>1, <1>7 DEF Stage
<1>8. ASSUME NEW i \in Ids, SenderAcknowledges(i) \/ GiveUp(i) PROVE SoleInv'
  BY <1>1, <1>8 DEF SenderAcknowledges, GiveUp, linkVars
<1>9. ASSUME SenderClaims \/ SenderDies \/ Timers \/ UNCHANGED vars PROVE SoleInv'
  BY <1>1, <1>9 DEF SenderClaims, SenderDies, Timers, linkVars, vars
<1> QED
  BY <1>2, <1>3, <1>5, <1>6, <1>7, <1>8, <1>9 DEF Next, SenderStep

LEMMA InitSole == Init => SoleInv
<1> SUFFICES ASSUME Init PROVE SoleInv
  OBVIOUS
<1>1. \A s \in Slots, i \in Ids : ~At(s, i)
  BY DEF Init, At, Working, Idle
<1>2. \A i \in Ids : published[i] = 0
  BY DEF Init
<1>3. \A i \in Ids : Sole(i)
  BY <1>1, <1>2 DEF Sole
<1>4. InboxSound
  BY DEF Init, InboxSound, NoRow
<1> QED
  BY <1>3, <1>4 DEF SoleInv

(* The receiver's inbox makes a repeated connection harmless: a second       *)
(* publication takes two helpers at once, a fault between publish and        *)
(* complete_pending, or a pruned tombstone (_republish, _serve).            *)
THEOREM DuplicatesHold == Spec => []DuplicatesAreExplained
<1>1. IInv /\ SoleInv => DuplicatesAreExplained
  <2> SUFFICES ASSUME IInv, SoleInv, NEW i \in Ids, published[i] > 1, excuse[i] = {}
               PROVE  FALSE
    BY DEF DuplicatesAreExplained
  <2>1. published[i] <= 1 /\ published[i] \in Nat
    BY DEF SoleInv, Sole, IInv, LinkInv, LinkTypeOK
  <2> QED
    BY <2>1
<1>2. Init => SoleInv
  BY InitSole
<1>3. IInv /\ SoleInv /\ [Next]_vars => SoleInv'
  BY NextSole
<1> QED
  BY <1>1, <1>2, <1>3, Invariance, PTL DEF Spec
=============================================================================
