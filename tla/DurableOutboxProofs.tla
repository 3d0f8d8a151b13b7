------------------------ MODULE DurableOutboxProofs ------------------------
(***************************************************************************)
(* What the operations of the outbox preserve, for any number of ids and    *)
(* owners and whatever their callers do: the invariant OutboxInv, and that  *)
(* settled rows and leases that have not lapsed are left alone.             *)
(***************************************************************************)
EXTENDS DurableOutbox, FiniteSetTheorems, TLAPS

(* One operation of the outbox, by whoever calls it. *)
OutboxStep ==
    \/ \E S \in SUBSET Ids : \E stamps \in [S -> Nat] : Store(S, stamps)
    \/ \E o \in Owners : \/ Claim(o) \/ DropBatch(o)
                         \/ \E i \in Ids : \/ Send(o, i) \/ Acknowledge(o, i)
                                           \/ Retry(o, i) \/ LeaseLost(o, i)
    \/ \E i \in Ids : BackoffElapses(i) \/ LeaseLapses(i)

(* A row in the queue has an attempt left, and a row that is gone is gone   *)
(* with all its columns.                                                    *)
RowsSound ==
    \A i \in Ids : /\ rows[i].state \in {"pending", "leased"} =>
                          rows[i].attempts < MaxAttempts
                   /\ rows[i].state = "none" => rows[i] = NoRow

(* An exporter only acknowledges what the transport took. *)
AcceptedWasTaken == \A o \in Owners : accepted[o] \subseteq taken

OutboxInv == /\ OutboxTypeOK
             /\ RowsSound
             /\ AcceptedWasTaken
             /\ DeliveredWasTaken
             /\ RetentionIsBounded

----------------------------------------------------------------------------
(* Choosing the oldest of a set chooses from it, as many as were asked for. *)
LEMMA OldestOf ==
  ASSUME NEW S, NEW k, NEW stamp, NEW T \in Oldest(S, k, stamp)
  PROVE  /\ T \subseteq S
         /\ Cardinality(T) = IF Cardinality(S) < k THEN Cardinality(S) ELSE k
BY DEF Oldest

DeliveredIn(table) == {i \in Ids : table[i].state = "delivered"}

(* A pruning keeps delivered rows only, and no more than the bound. *)
LEMMA KeptBound ==
  ASSUME NEW table, NEW kept \in Kept(table)
  PROVE  kept \subseteq DeliveredIn(table) /\ Cardinality(kept) <= Tombstones
<1> DEFINE D == DeliveredIn(table)
           excess == Cardinality(D) - Tombstones
<1>1. IsFiniteSet(D) /\ Cardinality(D) \in Nat
  BY OutboxAssumption, FS_Subset, FS_CardinalityType
     DEF DeliveredIn, OutboxAssumption
<1>2. CASE excess <= 0
  <2>1. kept = D
    BY <1>2 DEF Kept, DeliveredIn
  <2> QED
    BY <1>1, <1>2, <2>1, OutboxAssumption DEF OutboxAssumption
<1>3. CASE ~(excess <= 0)
  <2>1. PICK gone \in Oldest(D, excess, Created(table)) : kept = D \ gone
    BY <1>3 DEF Kept, DeliveredIn
  <2>2. gone \subseteq D /\ Cardinality(gone) = excess
    <3> HIDE DEF D
    <3> QED
      BY <1>1, <2>1, OldestOf, OutboxAssumption DEF OutboxAssumption
  <2>3. D \cap gone = gone
    BY <2>2
  <2>4. Cardinality(kept) = Cardinality(D) - Cardinality(gone)
    BY <1>1, <2>1, <2>3, FS_Difference
  <2> QED
    BY <1>1, <2>1, <2>2, <2>4, OutboxAssumption DEF OutboxAssumption
<1> QED
  BY <1>2, <1>3

(* A pruned table differs from the table in delivered rows that are gone. *)
LEMMA PrunedRows ==
  ASSUME NEW table, NEW kept \in SUBSET DeliveredIn(table), NEW i \in Ids
  PROVE  Pruned(table, kept)[i] =
             IF i \in DeliveredIn(table) /\ i \notin kept THEN NoRow ELSE table[i]
BY DEF Pruned, DeliveredIn

----------------------------------------------------------------------------
(* What may become of one row in one step: it is inserted where there was   *)
(* none, pruned once delivered (at once, if it is the oldest tombstone), or *)
(* moved while it is in the queue.                                          *)
Requeued(i, row) ==
    /\ rows[i].state \in {"pending", "leased"}
    /\ row \in Row
    /\ row.state # "none"
    /\ row.created = rows[i].created
    /\ row.owner # Nobody <=> row.state = "leased"
    /\ row.state \in {"pending", "leased"} => row.attempts < MaxAttempts

RowStep(i) ==
    \/ rows'[i] = rows[i]
    \/ rows[i] = NoRow /\ \E t \in Nat : rows'[i] = NewRow(t)
    \/ rows[i].state \in {"leased", "delivered"} /\ rows'[i] = NoRow
    \/ Requeued(i, rows'[i])

RowsStep == rows' \in [Ids -> Row] /\ \A i \in Ids : RowStep(i)

(* Rows that make such steps stay well-formed. *)
LEMMA RowsStepSound ==
  ASSUME OutboxTypeOK, RowsSound, RowsStep
  PROVE  /\ RowsSound'
         /\ \A i \in Ids : rows'[i].owner # Nobody <=> rows'[i].state = "leased"
<1> SUFFICES ASSUME NEW i \in Ids
             PROVE  /\ rows'[i].state \in {"pending", "leased"} =>
                          rows'[i].attempts < MaxAttempts
                    /\ rows'[i].state = "none" => rows'[i] = NoRow
                    /\ rows'[i].owner # Nobody <=> rows'[i].state = "leased"
  BY DEF RowsSound, NoRow
<1>1. RowStep(i)
  BY DEF RowsStep
<1>2. CASE rows'[i] = rows[i]
  BY <1>2 DEF OutboxTypeOK, RowsSound
<1>3. CASE \E t \in Nat : rows'[i] = NewRow(t)
  BY <1>3, OutboxAssumption DEF NewRow, OutboxAssumption
<1>4. CASE rows'[i] = NoRow
  BY <1>4 DEF NoRow
<1>5. CASE Requeued(i, rows'[i])
  BY <1>5 DEF Requeued
<1> QED
  BY <1>1, <1>2, <1>3, <1>4, <1>5 DEF RowStep

(* The bounds hold as long as neither set of rows grows. *)
LEMMA RetentionKept ==
  ASSUME RetentionIsBounded,
         Undelivered' \subseteq Undelivered,
         Cardinality(InState({"delivered"})') <= Tombstones
  PROVE  RetentionIsBounded'
<1>1. IsFiniteSet(Undelivered) /\ IsFiniteSet(Undelivered')
  BY OutboxAssumption, FS_Subset DEF OutboxAssumption, Undelivered, InState
<1>2. /\ Cardinality(Undelivered') <= Cardinality(Undelivered)
      /\ Cardinality(Undelivered') \in Nat /\ Cardinality(Undelivered) \in Nat
  BY <1>1, FS_Subset, FS_CardinalityType
<1> QED
  BY <1>2, OutboxAssumption DEF RetentionIsBounded, OutboxAssumption

LEMMA FewerTombstones ==
  ASSUME RetentionIsBounded, InState({"delivered"})' \subseteq InState({"delivered"})
  PROVE  Cardinality(InState({"delivered"})') <= Tombstones
<1>1. IsFiniteSet(InState({"delivered"})) /\ IsFiniteSet(InState({"delivered"})')
  BY OutboxAssumption, FS_Subset DEF OutboxAssumption, InState
<1>2. /\ Cardinality(InState({"delivered"})') <= Cardinality(InState({"delivered"}))
      /\ Cardinality(InState({"delivered"})') \in Nat
      /\ Cardinality(InState({"delivered"})) \in Nat
  BY <1>1, FS_Subset, FS_CardinalityType
<1> QED
  BY <1>2, OutboxAssumption DEF RetentionIsBounded, OutboxAssumption

----------------------------------------------------------------------------
(* enqueue_many: only absent rows are inserted, only tombstones pruned.     *)
LEMMA StoreRows ==
  ASSUME OutboxInv, NEW S \in SUBSET Ids, NEW stamps \in [S -> Nat],
         Store(S, stamps)
  PROVE  /\ RowsStep
         /\ \A i \in Ids : rows[i].state = "leased" => rows'[i] = rows[i]
         /\ InState({"delivered"})' \subseteq InState({"delivered"})
         /\ Cardinality(Undelivered') <= MaxItems
         /\ \A i \in Ids : \/ rows'[i] \in {rows[i], NoRow}
                           \/ i \in S /\ rows'[i] = NewRow(stamps[i])
         /\ \A i \in S \ Stored : rows'[i] = NewRow(stamps[i])
<1> DEFINE new == S \ Stored
<1>t. rows \in [Ids -> Row]
  BY DEF OutboxInv, OutboxTypeOK
<1>1. CASE new = {}
  <2>1. rows' = rows
    BY <1>1 DEF Store
  <2>2. Undelivered' = Undelivered /\ InState({"delivered"})' = InState({"delivered"})
    BY <2>1 DEF Undelivered, InState
  <2>3. \A i \in S \ Stored : rows'[i] = NewRow(stamps[i])
    BY <1>1
  <2> QED
    BY <1>t, <2>1, <2>2, <2>3 DEF RowsStep, RowStep, OutboxInv, RetentionIsBounded
<1>2. CASE new # {}
  <2>1. PICK kept \in Kept(rows) :
          rows' = [i \in Ids |-> IF i \in new THEN NewRow(stamps[i])
                                 ELSE Pruned(rows, kept)[i]]
    BY <1>2 DEF Store
  <2>2. kept \in SUBSET DeliveredIn(rows)
    BY <2>1, KeptBound
  <2>3. \A i \in Ids : \/ i \in new /\ rows'[i] = NewRow(stamps[i]) /\ rows[i] = NoRow
                       \/ i \notin new /\ rows'[i] = rows[i]
                       \/ /\ i \notin new /\ rows[i].state = "delivered"
                          /\ rows'[i] = NoRow
    BY <2>1, <2>2, PrunedRows DEF Stored, DeliveredIn
  <2>4. RowsStep
    <3>1. NoRow \in Row /\ \A t \in Nat : NewRow(t) \in Row
      BY OutboxAssumption DEF OutboxAssumption, Row, NoRow, NewRow
    <3>2. \A i \in new : stamps[i] \in Nat
      OBVIOUS
    <3>3. rows' \in [Ids -> Row]
      BY <1>t, <2>1, <2>3, <3>1, <3>2
    <3>4. \A i \in Ids : RowStep(i)
      BY <2>3, <3>2 DEF RowStep
    <3> QED
      BY <3>3, <3>4 DEF RowsStep
  <2>5. /\ \A i \in Ids : rows[i].state = "leased" => rows'[i] = rows[i]
        /\ InState({"delivered"})' \subseteq InState({"delivered"})
        /\ Undelivered' \subseteq Undelivered \cup new
    <3>1. NoRow.state = "none"
      BY DEF NoRow
    <3>2. \A i \in Ids : rows[i].state = "leased" => rows'[i] = rows[i]
      BY <2>3, <3>1
    <3>3. InState({"delivered"})' \subseteq InState({"delivered"})
      <4> SUFFICES ASSUME NEW i \in Ids, rows'[i].state = "delivered"
                   PROVE  rows[i].state = "delivered"
        BY DEF InState
      <4>1. NewRow(stamps[i]).state = "pending"
        BY DEF NewRow
      <4> QED
        BY <2>3, <3>1, <4>1
    <3>4. Undelivered' \subseteq Undelivered \cup new
      BY <2>3, <3>1 DEF InState, Undelivered
    <3> QED
      BY <3>2, <3>3, <3>4
  <2>6. /\ IsFiniteSet(Undelivered) /\ IsFiniteSet(new)
        /\ IsFiniteSet(Undelivered \cup new)
    BY OutboxAssumption, FS_Subset, FS_Union DEF OutboxAssumption, Undelivered, InState
  <2>7. Cardinality(Undelivered) + Cardinality(new) <= MaxItems
    BY <1>2 DEF Store, RoomFor
  <2>8. /\ Cardinality(Undelivered') <= Cardinality(Undelivered \cup new)
        /\ Cardinality(Undelivered') \in Nat
    <3> HIDE DEF new
    <3> QED
      BY <2>5, <2>6, FS_Subset, FS_CardinalityType
  <2>9. /\ Cardinality(Undelivered \cup new)
                <= Cardinality(Undelivered) + Cardinality(new)
        /\ Cardinality(Undelivered \cup new) \in Nat
    <3> HIDE DEF new
    <3>1. IsFiniteSet(Undelivered \cap new)
      BY <2>6, FS_Intersection
    <3>2. /\ Cardinality(Undelivered \cup new) = Cardinality(Undelivered)
                 + Cardinality(new) - Cardinality(Undelivered \cap new)
          /\ Cardinality(Undelivered) \in Nat /\ Cardinality(new) \in Nat
          /\ Cardinality(Undelivered \cap new) \in Nat
          /\ Cardinality(Undelivered \cup new) \in Nat
      BY <2>6, <3>1, FS_Union, FS_CardinalityType
    <3> QED
      BY <3>2
  <2>10. Cardinality(Undelivered) \in Nat /\ Cardinality(new) \in Nat
    BY <2>6, FS_CardinalityType
  <2>11. Cardinality(Undelivered') <= MaxItems
    <3> HIDE DEF new
    <3> QED
      BY <2>7, <2>8, <2>9, <2>10, OutboxAssumption DEF OutboxAssumption
  <2>12. \A i \in new : rows'[i] = NewRow(stamps[i])
    BY <2>3
  <2> QED
    BY <2>3, <2>4, <2>5, <2>11, <2>12
<1> QED
  BY <1>1, <1>2

(* claim: rows move between pending and leased; a lease that has not lapsed *)
(* stays where it is.                                                       *)
LEMMA ClaimRows ==
  ASSUME OutboxInv, NEW o \in Owners, Claim(o)
  PROVE  /\ RowsStep
         /\ \A i \in Ids : /\ rows[i].state = "leased" /\ i \notin lapsed =>
                                 rows'[i] = rows[i]
                           /\ rows[i].state \in {"delivered", "dead_letter", "none"} =>
                                 rows'[i] = rows[i]
                           /\ rows[i].state \in {"pending", "leased"} =>
                                 rows'[i].state \in {"pending", "leased"}
         /\ hand' \in [Owners -> SUBSET Ids]
<1> DEFINE freed == [i \in Ids |->
                      IF rows[i].state = "leased" /\ i \in lapsed
                      THEN Moved(rows[i], "pending", Nobody)
                      ELSE rows[i]]
           ready == {i \in Ids : freed[i].state = "pending" /\ i \notin waiting}
<1>t. /\ rows \in [Ids -> Row] /\ hand \in [Owners -> SUBSET Ids]
      /\ \A i \in Ids : rows[i].owner # Nobody <=> rows[i].state = "leased"
      /\ RowsSound
  BY DEF OutboxInv, OutboxTypeOK
<1>1. PICK batch \in Oldest(ready, ClaimLimit, Created(rows)) :
        rows' = [i \in Ids |-> IF i \in batch
                               THEN Moved(freed[i], "leased", o)
                               ELSE freed[i]]
  BY DEF Claim
<1>2. batch \subseteq ready
  BY <1>1, OldestOf
<1>3. \A i \in Ids :
        \/ rows'[i] = rows[i]
        \/ /\ rows[i].state = "leased" /\ i \in lapsed
           /\ rows'[i] = Moved(rows[i], "pending", Nobody)
        \/ /\ rows[i].state = "pending" \/ (rows[i].state = "leased" /\ i \in lapsed)
           /\ rows'[i] = Moved(rows[i], "leased", o)
  <2> TAKE i \in Ids
  <2>1. CASE i \notin batch
    BY <1>1, <2>1
  <2>2. CASE i \in batch
    <3>1. freed[i].state = "pending"
      BY <1>2, <2>2
    <3>2. CASE rows[i].state = "leased" /\ i \in lapsed
      <4>1. /\ freed[i] = Moved(rows[i], "pending", Nobody)
            /\ rows[i] \in Row
        BY <3>2, <1>t
      <4>2. Moved(freed[i], "leased", o) = Moved(rows[i], "leased", o)
        BY <4>1 DEF Moved
      <4> QED
        BY <1>1, <2>2, <3>2, <4>2
    <3>3. CASE ~(rows[i].state = "leased" /\ i \in lapsed)
      <4>1. freed[i] = rows[i]
        BY <3>3
      <4> QED
        BY <1>1, <2>2, <3>1, <3>3, <4>1
    <3> QED
      BY <3>2, <3>3
  <2> QED
    BY <2>1, <2>2
<1>4. \A i \in Ids : rows'[i] \in Row /\ RowStep(i)
  <2> TAKE i \in Ids
  <2>1. rows[i] \in Row
    BY <1>t
  <2>2. o # Nobody /\ o \in Owners
    BY OutboxAssumption DEF OutboxAssumption
  <2>3. CASE rows'[i] = rows[i]
    BY <2>1, <2>3 DEF RowStep
  <2>4. ASSUME NEW s \in {"pending", "leased"}, NEW w \in Owners \cup {Nobody},
               w # Nobody <=> s = "leased",
               rows[i].state \in {"pending", "leased"},
               rows'[i] = Moved(rows[i], s, w)
        PROVE  rows'[i] \in Row /\ RowStep(i)
    <3>1. rows[i].attempts < MaxAttempts
      BY <1>t, <2>4 DEF RowsSound
    <3>2. rows'[i] \in Row
      BY <2>1, <2>4 DEF Row, Moved
    <3>3. /\ rows'[i].state = s /\ rows'[i].owner = w
          /\ rows'[i].created = rows[i].created
          /\ rows'[i].attempts = rows[i].attempts
      BY <2>4 DEF Moved
    <3>4. Requeued(i, rows'[i])
      BY <2>4, <3>1, <3>2, <3>3 DEF Requeued
    <3> QED
      BY <3>2, <3>4 DEF RowStep
  <2> QED
    BY <1>3, <2>2, <2>3, <2>4
<1>5. RowsStep
  BY <1>1, <1>4 DEF RowsStep
<1>6. hand' \in [Owners -> SUBSET Ids]
  <2>1. PICK mine \in Oldest({i \in Ids : rows'[i].state = "leased"
                                         /\ rows'[i].owner = o},
                             ClaimLimit, Created(rows)) :
          hand' = [hand EXCEPT ![o] = mine]
    BY DEF Claim
  <2>2. mine \subseteq Ids
    BY <2>1, OldestOf
  <2> QED
    BY <1>t, <2>1, <2>2
<1>7. \A i \in Ids : /\ rows[i].state = "leased" /\ i \notin lapsed =>
                            rows'[i] = rows[i]
                     /\ rows[i].state \in {"delivered", "dead_letter", "none"} =>
                            rows'[i] = rows[i]
                     /\ rows[i].state \in {"pending", "leased"} =>
                            rows'[i].state \in {"pending", "leased"}
  <2> TAKE i \in Ids
  <2>1. CASE rows'[i] = rows[i]
    BY <2>1
  <2>2. CASE rows'[i] # rows[i]
    <3>1. /\ rows[i].state = "pending" \/ (rows[i].state = "leased" /\ i \in lapsed)
          /\ rows'[i] \in {Moved(rows[i], "pending", Nobody), Moved(rows[i], "leased", o)}
      BY <1>3, <2>2
    <3>2. rows'[i].state \in {"pending", "leased"}
      BY <3>1 DEF Moved
    <3> QED
      BY <3>1, <3>2
  <2> QED
    BY <2>1, <2>2
<1> HIDE DEF freed, ready
<1> QED
  BY <1>5, <1>6, <1>7

(* acknowledge: the row the caller holds becomes a tombstone, and others may *)
(* be pruned.                                                               *)
LEMMA AcknowledgeRows ==
  ASSUME OutboxInv, NEW o \in Owners, NEW i \in Ids, Acknowledge(o, i)
  PROVE  /\ RowsStep
         /\ \A j \in Ids : \/ rows'[j] = rows[j]
                           \/ j = i /\ rows'[j] = Moved(rows[j], "delivered", Nobody)
                           \/ rows'[j] = NoRow
                              /\ (j = i \/ rows[j].state = "delivered")
         /\ rows'[i].state \in {"delivered", "none"}
         /\ Cardinality(InState({"delivered"})') <= Tombstones
<1> DEFINE done == [rows EXCEPT ![i] = Moved(@, "delivered", Nobody)]
<1>t. /\ rows \in [Ids -> Row] /\ RowsSound
      /\ rows[i].state = "leased"
  BY DEF OutboxInv, OutboxTypeOK, Acknowledge, HoldsLease
<1>1. PICK kept \in Kept(done) : rows' = Pruned(done, kept)
  BY DEF Acknowledge
<1>2. kept \in SUBSET DeliveredIn(done) /\ Cardinality(kept) <= Tombstones
  <2> HIDE DEF done
  <2> QED
    BY <1>1, KeptBound
<1>3. \A j \in Ids : done[j] = IF j = i THEN Moved(rows[i], "delivered", Nobody)
                               ELSE rows[j]
  BY <1>t
<1>4. \A j \in Ids : rows'[j] = IF j \in DeliveredIn(done) /\ j \notin kept
                                THEN NoRow ELSE done[j]
  <2> HIDE DEF done
  <2> QED
    BY <1>1, <1>2, PrunedRows
<1>5. \A j \in Ids : j \in DeliveredIn(done) <=> j = i \/ rows[j].state = "delivered"
  BY <1>3 DEF DeliveredIn, Moved
<1> HIDE DEF done
<1>6. \A j \in Ids : \/ rows'[j] = rows[j]
                     \/ j = i /\ rows'[j] = Moved(rows[j], "delivered", Nobody)
                     \/ rows'[j] = NoRow /\ (j = i \/ rows[j].state = "delivered")
  <2> TAKE j \in Ids
  <2>1. CASE rows'[j] = done[j]
    BY <1>3, <2>1
  <2>2. CASE rows'[j] = NoRow /\ j \in DeliveredIn(done)
    BY <1>5, <2>2
  <2> QED
    BY <1>4, <2>1, <2>2
<1>7. InState({"delivered"})' = kept
  <2> SUFFICES ASSUME NEW j \in Ids PROVE rows'[j].state = "delivered" <=> j \in kept
    BY <1>2 DEF InState, DeliveredIn
  <2>1. NoRow.state # "delivered"
    BY DEF NoRow
  <2>2. done[j].state = "delivered" <=> j \in DeliveredIn(done)
    BY DEF DeliveredIn
  <2> QED
    BY <1>2, <1>4, <2>1, <2>2
<1>8. rows'[i].state \in {"delivered", "none"}
  BY <1>3, <1>4 DEF Moved, NoRow
<1>9. RowsStep
  <2>1. \A j \in Ids : rows'[j] \in Row /\ RowStep(j)
    <3> TAKE j \in Ids
    <3>1. CASE j # i
      <4>1. NoRow \in Row
        BY OutboxAssumption DEF OutboxAssumption, Row, NoRow
      <4> QED
        BY <1>t, <1>6, <3>1, <4>1 DEF RowStep
    <3>2. CASE j = i
      <4>1. rows'[i] = Moved(rows[i], "delivered", Nobody) \/ rows'[i] = NoRow
        BY <1>3, <1>4
      <4>2. Moved(rows[i], "delivered", Nobody) \in Row
        BY <1>t DEF Row, Moved
      <4>3. CASE rows'[i] = Moved(rows[i], "delivered", Nobody)
        BY <1>t, <3>2, <4>2, <4>3 DEF RowStep, Requeued, Moved
      <4>4. CASE rows'[i] = NoRow
        <5>1. NoRow \in Row
          BY OutboxAssumption DEF OutboxAssumption, Row, NoRow
        <5> QED
          BY <1>t, <3>2, <4>4, <5>1 DEF RowStep
      <4> QED
        BY <3>2, <4>1, <4>3, <4>4
    <3> QED
      BY <3>1, <3>2
  <2> QED
    BY <1>1, <2>1 DEF RowsStep, Pruned
<1> QED
  BY <1>2, <1>6, <1>7, <1>8, <1>9

(* retry: the row goes back to the queue with an attempt less, or is given   *)
(* up.                                                                      *)
LEMMA RetryRows ==
  ASSUME OutboxInv, NEW o \in Owners, NEW i \in Ids, Retry(o, i)
  PROVE  /\ RowsStep
         /\ \A j \in Ids : j # i => rows'[j] = rows[j]
         /\ rows[i].state = "leased" /\ rows[i].owner = o
         /\ rows'[i].state \in {"pending", "dead_letter"}
<1> DEFINE dead == rows[i].attempts + 1 >= MaxAttempts
           row == Charged(rows[i], IF dead THEN "dead_letter" ELSE "pending")
<1>t. /\ rows \in [Ids -> Row] /\ RowsSound
      /\ rows[i].state = "leased" /\ rows[i].owner = o
  BY DEF OutboxInv, OutboxTypeOK, Retry, HoldsLease
<1>1. rows' = [rows EXCEPT ![i] = row]
  BY <1>t DEF Retry
<1>2. /\ row.state = IF dead THEN "dead_letter" ELSE "pending"
      /\ row.attempts = rows[i].attempts + 1
      /\ row.owner = Nobody /\ row.created = rows[i].created
      /\ row \in Row
  <2>1. rows[i].attempts \in 0 .. MaxAttempts /\ rows[i].attempts < MaxAttempts
    BY <1>t DEF Row, RowsSound
  <2>2. rows[i].attempts + 1 \in 0 .. MaxAttempts
    BY <2>1, OutboxAssumption DEF OutboxAssumption
  <2>3. rows[i].created \in Nat
    BY <1>t DEF Row
  <2> HIDE DEF dead
  <2> QED
    BY <2>2, <2>3 DEF Charged, Row
<1>3. Requeued(i, row)
  <2>1. row.state \in {"pending", "leased"} => row.attempts < MaxAttempts
    <3>1. rows[i].attempts \in Nat
      BY <1>t DEF Row
    <3>2. row.state = "pending" => ~dead
      BY <1>2
    <3>3. ~dead => rows[i].attempts + 1 < MaxAttempts
      BY <3>1, OutboxAssumption DEF OutboxAssumption
    <3>4. row.state # "leased"
      BY <1>2
    <3> HIDE DEF row, dead
    <3> QED
      BY <1>2, <3>2, <3>3, <3>4
  <2> HIDE DEF row, dead
  <2> QED
    BY <1>t, <1>2, <2>1 DEF Requeued
<1> HIDE DEF row, dead
<1>4. rows'[i] = row /\ \A j \in Ids : j # i => rows'[j] = rows[j]
  BY <1>t, <1>1
<1>5. RowsStep
  BY <1>t, <1>1, <1>2, <1>3, <1>4 DEF RowsStep, RowStep
<1> QED
  BY <1>t, <1>2, <1>4, <1>5

(* The invariant from what a step makes of the rows and of the rest.        *)
LEMMA InvFromRows ==
  ASSUME OutboxInv, RowsStep,
         waiting' \in SUBSET Ids, taken' \in SUBSET Ids,
         hand' \in [Owners -> SUBSET Ids], accepted' \in [Owners -> SUBSET Ids],
         lapsed' \in SUBSET Ids,
         \A i \in lapsed' : rows'[i].state = "leased",
         \A o \in Owners : accepted'[o] \subseteq hand'[o],
         AcceptedWasTaken', DeliveredWasTaken', RetentionIsBounded'
  PROVE  OutboxInv'
<1>1. /\ RowsSound'
      /\ \A i \in Ids : rows'[i].owner # Nobody <=> rows'[i].state = "leased"
  BY RowsStepSound DEF OutboxInv
<1>2. OutboxTypeOK'
  BY <1>1 DEF OutboxTypeOK, RowsStep, InState
<1> QED
  BY <1>1, <1>2 DEF OutboxInv

----------------------------------------------------------------------------
(* Initially the table is empty.                                            *)
LEMMA InitOutboxInv == OutboxInit => OutboxInv
<1> SUFFICES ASSUME OutboxInit PROVE OutboxInv
  OBVIOUS
<1> USE OutboxAssumption DEF OutboxAssumption
<1>1. /\ rows \in [Ids -> Row]
      /\ \A i \in Ids : rows[i] = NoRow /\ rows[i].state = "none"
                         /\ rows[i].owner = Nobody
  BY DEF OutboxInit, Row, NoRow
<1>2. OutboxTypeOK
  BY <1>1 DEF OutboxInit, OutboxTypeOK, InState
<1>3. RowsSound /\ AcceptedWasTaken
  BY <1>1 DEF OutboxInit, RowsSound, AcceptedWasTaken
<1>4. InState({"delivered"}) = {} /\ Undelivered = {}
  BY <1>1 DEF InState, Undelivered
<1>5. DeliveredWasTaken /\ RetentionIsBounded
  BY <1>4, FS_EmptySet DEF DeliveredWasTaken, RetentionIsBounded
<1> QED
  BY <1>2, <1>3, <1>5 DEF OutboxInv

(* Every operation preserves the invariant.                                 *)
LEMMA StepOutboxInv == OutboxInv /\ OutboxStep => OutboxInv'
<1> SUFFICES ASSUME OutboxInv, OutboxStep PROVE OutboxInv'
  OBVIOUS
<1>t. /\ rows \in [Ids -> Row]
      /\ waiting \subseteq Ids /\ lapsed \subseteq Ids /\ taken \subseteq Ids
      /\ hand \in [Owners -> SUBSET Ids] /\ accepted \in [Owners -> SUBSET Ids]
      /\ \A i \in lapsed : rows[i].state = "leased"
      /\ \A o \in Owners : accepted[o] \subseteq hand[o] /\ accepted[o] \subseteq taken
      /\ \A i \in Ids : rows[i].state = "delivered" => i \in taken
      /\ RetentionIsBounded
  BY DEF OutboxInv, OutboxTypeOK, InState, AcceptedWasTaken, DeliveredWasTaken
<1>1. ASSUME NEW S \in SUBSET Ids, NEW stamps \in [S -> Nat], Store(S, stamps)
      PROVE  OutboxInv'
  <2>1. /\ RowsStep
        /\ \A i \in Ids : rows[i].state = "leased" => rows'[i] = rows[i]
        /\ InState({"delivered"})' \subseteq InState({"delivered"})
        /\ Cardinality(Undelivered') <= MaxItems
    BY <1>1, StoreRows
  <2>2. UNCHANGED <<lapsed, hand, accepted, taken>> /\ waiting' \in SUBSET Ids
    BY <1>1, <1>t DEF Store
  <2>3. DeliveredWasTaken' /\ AcceptedWasTaken'
    BY <1>t, <2>1, <2>2 DEF DeliveredWasTaken, AcceptedWasTaken, InState
  <2>4. RetentionIsBounded'
    BY <1>t, <2>1, FewerTombstones DEF RetentionIsBounded
  <2>5. \A i \in lapsed' : rows'[i].state = "leased"
    BY <1>t, <2>1, <2>2
  <2> QED
    BY <1>t, <2>1, <2>2, <2>3, <2>4, <2>5, InvFromRows
<1>2. ASSUME NEW o \in Owners, Claim(o) PROVE OutboxInv'
  <2>1. /\ RowsStep
        /\ \A i \in Ids : /\ rows[i].state \in {"delivered", "dead_letter", "none"} =>
                                rows'[i] = rows[i]
                          /\ rows[i].state \in {"pending", "leased"} =>
                                rows'[i].state \in {"pending", "leased"}
        /\ hand' \in [Owners -> SUBSET Ids]
    BY <1>2, ClaimRows
  <2>2. lapsed' = {} /\ UNCHANGED <<waiting, accepted, taken>> /\ accepted[o] = {}
    BY <1>2 DEF Claim
  <2>3. \A i \in Ids : rows[i].state \in {"none", "pending", "leased", "dead_letter",
                                          "delivered"}
    BY <1>t DEF Row
  <2>4. Undelivered' \subseteq Undelivered
        /\ InState({"delivered"})' \subseteq InState({"delivered"})
    BY <2>1, <2>3 DEF Undelivered, InState
  <2>5. DeliveredWasTaken' /\ AcceptedWasTaken'
    BY <1>t, <2>2, <2>4 DEF DeliveredWasTaken, AcceptedWasTaken, InState
  <2>6. RetentionIsBounded'
    BY <1>t, <2>4, FewerTombstones, RetentionKept
  <2>7. \A q \in Owners : accepted'[q] \subseteq hand'[q]
    <3> TAKE q \in Owners
    <3>1. CASE q = o
      BY <2>2, <3>1
    <3>2. CASE q # o
      BY <1>t, <1>2, <2>2, <3>2 DEF Claim
    <3> QED
      BY <3>1, <3>2
  <2> QED
    BY <1>t, <2>1, <2>2, <2>5, <2>6, <2>7, InvFromRows
(* Steps that leave the rows alone. *)
<1>r. ASSUME UNCHANGED rows,
             waiting' \in SUBSET Ids, taken' \in SUBSET Ids, taken \subseteq taken',
             hand' \in [Owners -> SUBSET Ids], accepted' \in [Owners -> SUBSET Ids],
             lapsed' \in SUBSET Ids,
             \A i \in lapsed' : rows[i].state = "leased",
             \A o \in Owners : accepted'[o] \subseteq hand'[o] /\ accepted'[o] \subseteq taken'
      PROVE  OutboxInv'
  <2>1. RowsStep
    BY <1>t, <1>r DEF RowsStep, RowStep
  <2>2. DeliveredWasTaken' /\ AcceptedWasTaken'
    BY <1>t, <1>r DEF DeliveredWasTaken, AcceptedWasTaken, InState
  <2>3. Undelivered' = Undelivered /\ InState({"delivered"})' = InState({"delivered"})
    BY <1>r DEF Undelivered, InState
  <2>4. RetentionIsBounded'
    BY <1>t, <2>3 DEF RetentionIsBounded
  <2> QED
    BY <1>r, <2>1, <2>2, <2>4, InvFromRows
<1>3. ASSUME NEW o \in Owners, DropBatch(o) PROVE OutboxInv'
  BY <1>t, <1>r, <1>3 DEF DropBatch
<1>4. ASSUME NEW o \in Owners, NEW i \in Ids, Send(o, i) PROVE OutboxInv'
  BY <1>t, <1>r, <1>4 DEF Send
<1>5. ASSUME NEW o \in Owners, NEW i \in Ids, Acknowledge(o, i) PROVE OutboxInv'
  <2>1. /\ RowsStep
        /\ \A j \in Ids : \/ rows'[j] = rows[j]
                          \/ j = i /\ rows'[j] = Moved(rows[j], "delivered", Nobody)
                          \/ rows'[j] = NoRow
                            /\ (j = i \/ rows[j].state = "delivered")
        /\ Cardinality(InState({"delivered"})') <= Tombstones
    BY <1>5, AcknowledgeRows
  <2>2. /\ accepted' = [accepted EXCEPT ![o] = {}]
        /\ hand' = [hand EXCEPT ![o] = @ \ {i}]
        /\ lapsed' = lapsed \ {i} /\ UNCHANGED <<waiting, taken>>
        /\ i \in taken /\ rows[i].state = "leased"
    BY <1>t, <1>5 DEF Acknowledge, HoldsLease
  <2>3. \A j \in Ids : /\ rows'[j].state \in {"pending", "leased", "dead_letter"} =>
                            rows'[j] = rows[j]
                       /\ rows'[j].state = "delivered" => j = i \/ rows'[j] = rows[j]
                       /\ rows[j].state = "leased" /\ j # i => rows'[j] = rows[j]
    <3> TAKE j \in Ids
    <3>1. CASE rows'[j] = rows[j]
      BY <3>1
    <3>2. CASE j = i /\ rows'[j] = Moved(rows[j], "delivered", Nobody)
      BY <3>2 DEF Moved
    <3>3. CASE rows'[j] = NoRow /\ (j = i \/ rows[j].state = "delivered")
      BY <3>3 DEF NoRow
    <3> QED
      BY <2>1, <3>1, <3>2, <3>3
  <2>4. Undelivered' \subseteq Undelivered
    BY <2>3 DEF Undelivered, InState
  <2>5. DeliveredWasTaken'
    BY <1>t, <2>2, <2>3 DEF DeliveredWasTaken, InState
  <2>6. AcceptedWasTaken' /\ \A q \in Owners : accepted'[q] \subseteq hand'[q]
    BY <1>t, <2>2 DEF AcceptedWasTaken
  <2>7. RetentionIsBounded'
    BY <1>t, <2>1, <2>4, RetentionKept
  <2>8. \A j \in lapsed' : rows'[j].state = "leased"
    BY <1>t, <2>2, <2>3
  <2>9. hand' \in [Owners -> SUBSET Ids] /\ accepted' \in [Owners -> SUBSET Ids]
    BY <1>t, <2>2
  <2> QED
    BY <1>t, <2>1, <2>2, <2>5, <2>6, <2>7, <2>8, <2>9, InvFromRows
<1>6. ASSUME NEW o \in Owners, NEW i \in Ids, Retry(o, i) PROVE OutboxInv'
  <2>1. /\ RowsStep
        /\ \A j \in Ids : j # i => rows'[j] = rows[j]
        /\ rows[i].state = "leased"
        /\ rows'[i].state \in {"pending", "dead_letter"}
    BY <1>6, RetryRows
  <2>2. /\ accepted' = [accepted EXCEPT ![o] = {}]
        /\ hand' = [hand EXCEPT ![o] = @ \ {i}]
        /\ lapsed' = lapsed \ {i} /\ waiting' \in SUBSET Ids /\ UNCHANGED taken
    BY <1>t, <1>6 DEF Retry
  <2>3. Undelivered' \subseteq Undelivered
        /\ InState({"delivered"})' \subseteq InState({"delivered"})
    BY <2>1 DEF Undelivered, InState
  <2>4. DeliveredWasTaken' /\ AcceptedWasTaken'
    BY <1>t, <2>2, <2>3 DEF DeliveredWasTaken, AcceptedWasTaken, InState
  <2>5. RetentionIsBounded'
    BY <1>t, <2>3, FewerTombstones, RetentionKept
  <2>6. \A j \in lapsed' : rows'[j].state = "leased"
    BY <1>t, <2>1, <2>2
  <2>7. /\ hand' \in [Owners -> SUBSET Ids] /\ accepted' \in [Owners -> SUBSET Ids]
        /\ \A q \in Owners : accepted'[q] \subseteq hand'[q]
    BY <1>t, <2>2
  <2> QED
    BY <1>t, <2>1, <2>2, <2>4, <2>5, <2>6, <2>7, InvFromRows
<1>7. ASSUME NEW o \in Owners, NEW i \in Ids, LeaseLost(o, i) PROVE OutboxInv'
  BY <1>3, <1>7 DEF LeaseLost
<1>8. ASSUME NEW i \in Ids, BackoffElapses(i) PROVE OutboxInv'
  BY <1>t, <1>r, <1>8 DEF BackoffElapses
<1>9. ASSUME NEW i \in Ids, LeaseLapses(i) PROVE OutboxInv'
  BY <1>t, <1>r, <1>9 DEF LeaseLapses
<1> QED
  BY <1>1, <1>2, <1>3, <1>4, <1>5, <1>6, <1>7, <1>8, <1>9 DEF OutboxStep

----------------------------------------------------------------------------
(* No operation brings a settled row back.                                  *)
LEMMA StepSettled ==
  OutboxInv /\ OutboxStep =>
    \A i \in Ids :
       /\ rows[i].state = "dead_letter" => rows'[i] = rows[i]
       /\ rows[i].state = "delivered" => rows'[i] = rows[i] \/ rows'[i] = NoRow
<1> SUFFICES ASSUME OutboxInv, OutboxStep, NEW i \in Ids
             PROVE  /\ rows[i].state = "dead_letter" => rows'[i] = rows[i]
                    /\ rows[i].state = "delivered" =>
                          rows'[i] = rows[i] \/ rows'[i] = NoRow
  OBVIOUS
<1>1. UNCHANGED rows \/ RowStep(i)
  <2>1. ASSUME NEW S \in SUBSET Ids, NEW stamps \in [S -> Nat], Store(S, stamps)
        PROVE  RowStep(i)
    BY <2>1, StoreRows DEF RowsStep
  <2>2. ASSUME NEW o \in Owners, Claim(o) PROVE RowStep(i)
    BY <2>2, ClaimRows DEF RowsStep
  <2>3. ASSUME NEW o \in Owners, NEW j \in Ids, Acknowledge(o, j) PROVE RowStep(i)
    BY <2>3, AcknowledgeRows DEF RowsStep
  <2>4. ASSUME NEW o \in Owners, NEW j \in Ids, Retry(o, j) PROVE RowStep(i)
    BY <2>4, RetryRows DEF RowsStep
  <2> QED
    BY <2>1, <2>2, <2>3, <2>4
       DEF OutboxStep, DropBatch, Send, LeaseLost, BackoffElapses, LeaseLapses
<1>2. NoRow.state = "none"
  BY DEF NoRow
<1> QED
  BY <1>1, <1>2 DEF RowStep, Requeued

(* Until it lapses, a lease is touched by its holder's settling only.       *)
LEMMA StepLease ==
  OutboxInv /\ OutboxStep =>
    \A i \in Ids, o \in Owners :
       HoldsLease(o, i) /\ i \notin lapsed =>
           rows'[i] = rows[i] \/ (i \in hand[o] /\ i \notin hand'[o])
<1> SUFFICES ASSUME OutboxInv, OutboxStep, NEW i \in Ids, NEW o \in Owners,
                    rows[i].state = "leased", rows[i].owner = o, i \notin lapsed
             PROVE  rows'[i] = rows[i] \/ (i \in hand[o] /\ i \notin hand'[o])
  BY DEF HoldsLease
<1>t. hand \in [Owners -> SUBSET Ids] /\ accepted[o] \subseteq hand[o]
  BY DEF OutboxInv, OutboxTypeOK
<1>1. ASSUME NEW S \in SUBSET Ids, NEW stamps \in [S -> Nat], Store(S, stamps)
      PROVE  rows'[i] = rows[i]
  BY <1>1, StoreRows
<1>2. ASSUME NEW q \in Owners, Claim(q) PROVE rows'[i] = rows[i]
  BY <1>2, ClaimRows
<1>3. ASSUME NEW q \in Owners, NEW j \in Ids, Acknowledge(q, j)
      PROVE  rows'[i] = rows[i] \/ (i \in hand[o] /\ i \notin hand'[o])
  <2>1. CASE i = j
    <3>1. q = o /\ i \in accepted[o] /\ hand' = [hand EXCEPT ![o] = @ \ {i}]
      BY <1>3, <2>1 DEF Acknowledge, HoldsLease
    <3> QED
      BY <1>t, <3>1
  <2>2. CASE i # j
    BY <1>3, <2>2, AcknowledgeRows
  <2> QED
    BY <2>1, <2>2
<1>4. ASSUME NEW q \in Owners, NEW j \in Ids, Retry(q, j)
      PROVE  rows'[i] = rows[i] \/ (i \in hand[o] /\ i \notin hand'[o])
  <2>1. CASE i = j
    <3>1. q = o /\ i \in hand[o] /\ hand' = [hand EXCEPT ![o] = @ \ {i}]
      BY <1>4, <2>1 DEF Retry, HoldsLease
    <3> QED
      BY <1>t, <3>1
  <2>2. CASE i # j
    BY <1>4, <2>2, RetryRows
  <2> QED
    BY <2>1, <2>2
<1> QED
  BY <1>1, <1>2, <1>3, <1>4
     DEF OutboxStep, DropBatch, Send, LeaseLost, BackoffElapses, LeaseLapses

----------------------------------------------------------------------------
(* An item that is queued, dead-lettered or taken by the transport stays    *)
(* so: no operation drops one that still matters.                           *)
LEMMA StepKeepsItems ==
  OutboxInv /\ OutboxStep => Undelivered \cup taken \subseteq (Undelivered \cup taken)'
<1> SUFFICES ASSUME OutboxInv, OutboxStep
             PROVE  Undelivered \cup taken \subseteq (Undelivered \cup taken)'
  OBVIOUS
<1>t. taken \subseteq taken'
  <2>1. ASSUME NEW S \in SUBSET Ids, NEW stamps \in [S -> Nat], Store(S, stamps)
        PROVE  taken \subseteq taken'
    BY <2>1 DEF Store
  <2>2. ASSUME NEW o \in Owners, Claim(o) \/ DropBatch(o)
        PROVE  taken \subseteq taken'
    BY <2>2 DEF Claim, DropBatch
  <2>3. ASSUME NEW o \in Owners, NEW j \in Ids,
               Send(o, j) \/ Acknowledge(o, j) \/ Retry(o, j) \/ LeaseLost(o, j)
        PROVE  taken \subseteq taken'
    BY <2>3 DEF Send, Acknowledge, Retry, LeaseLost, DropBatch
  <2>4. ASSUME NEW j \in Ids, BackoffElapses(j) \/ LeaseLapses(j)
        PROVE  taken \subseteq taken'
    BY <2>4 DEF BackoffElapses, LeaseLapses
  <2> QED
    BY <2>1, <2>2, <2>3, <2>4 DEF OutboxStep
<1> SUFFICES ASSUME NEW i \in Ids,
                    rows[i].state \in {"pending", "leased", "dead_letter"}
             PROVE  \/ rows'[i].state \in {"pending", "leased", "dead_letter"}
                    \/ i \in taken'
  BY <1>t DEF Undelivered, InState
<1>1. ASSUME NEW S \in SUBSET Ids, NEW stamps \in [S -> Nat], Store(S, stamps)
      PROVE  rows'[i].state \in {"pending", "leased", "dead_letter"}
  <2>1. /\ RowStep(i) /\ (rows[i].state = "leased" => rows'[i] = rows[i])
        /\ rows'[i] \in {rows[i], NoRow} \/ rows'[i] = NewRow(stamps[i])
    BY <1>1, StoreRows DEF RowsStep
  <2>2. NoRow.state = "none" /\ NewRow(stamps[i]).state = "pending"
    BY DEF NoRow, NewRow
  <2> QED
    BY <2>1, <2>2 DEF RowStep, Requeued
<1>2. ASSUME NEW o \in Owners, Claim(o)
      PROVE  rows'[i].state \in {"pending", "leased", "dead_letter"}
  BY <1>2, ClaimRows
<1>3. ASSUME NEW o \in Owners, NEW j \in Ids, Acknowledge(o, j)
      PROVE  \/ rows'[i].state \in {"pending", "leased", "dead_letter"}
             \/ i \in taken'
  <2>1. rows'[i] = rows[i] \/ i = j \/ rows[i].state = "delivered"
    BY <1>3, AcknowledgeRows
  <2>2. j \in taken' 
    BY <1>3 DEF Acknowledge, OutboxInv, AcceptedWasTaken
  <2> QED
    BY <2>1, <2>2
<1>4. ASSUME NEW o \in Owners, NEW j \in Ids, Retry(o, j)
      PROVE  rows'[i].state \in {"pending", "leased", "dead_letter"}
  BY <1>4, RetryRows
<1>5. ASSUME UNCHANGED rows
      PROVE  rows'[i].state \in {"pending", "leased", "dead_letter"}
  BY <1>5
<1> QED
  BY <1>1, <1>2, <1>3, <1>4, <1>5
     DEF OutboxStep, DropBatch, Send, LeaseLost, BackoffElapses, LeaseLapses

(* What a commit covers is retained, unless the transport has taken it.     *)
LEMMA StoreRetains ==
  ASSUME OutboxInv, NEW S \in SUBSET Ids, NEW stamps \in [S -> Nat],
         Store(S, stamps)
  PROVE  S \subseteq (Undelivered \cup taken)'
<1> SUFFICES ASSUME NEW i \in S
             PROVE  i \in (Undelivered \cup taken)'
  OBVIOUS
<1>1. CASE i \in Stored
  <2>1. rows[i].state \in {"none", "pending", "leased", "dead_letter", "delivered"}
    BY DEF OutboxInv, OutboxTypeOK, Row
  <2>2. rows[i].state # "none"
    BY <1>1 DEF OutboxInv, RowsSound, Stored
  <2>3. i \in Undelivered \cup taken
    BY <2>1, <2>2 DEF OutboxInv, DeliveredWasTaken, Undelivered, InState
  <2> QED
    BY <2>3, StepKeepsItems DEF OutboxStep
<1>2. CASE i \notin Stored
  <2>1. rows'[i] = NewRow(stamps[i])
    BY <1>2, StoreRows
  <2> QED
    BY <2>1 DEF NewRow, Undelivered, InState
<1> QED
  BY <1>1, <1>2
=============================================================================
