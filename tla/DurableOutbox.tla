---------------------------- MODULE DurableOutbox ---------------------------
(***************************************************************************)
(* The bounded, lease-based delivery outbox (core/durable_outbox.py) and    *)
(* the exporters that drain it.  Each operation is one BEGIN IMMEDIATE      *)
(* transaction, hence one step, and survives a crash of its caller.  What   *)
(* an exporter holds in memory between two transactions (the batch claim    *)
(* returned, the items the transport took but the outbox does not know of)  *)
(* does not.                                                                *)
(*                                                                          *)
(* Clocks are abstracted to what the operations compare: `waiting` holds    *)
(* the ids whose next_attempt is still ahead, `lapsed` those whose          *)
(* lease_until has passed, and time moves by the actions BackoffElapses     *)
(* and LeaseLapses.  Row and database signatures, byte quotas and the       *)
(* error text are left out.                                                 *)
(***************************************************************************)
EXTENDS Integers, FiniteSets

CONSTANTS Ids,              \* item ids
          Owners,           \* lease owners
          Nobody,           \* lease_owner of a row that is not leased
          MaxItems,         \* max_items: rows that are not delivered
          MaxAttempts,      \* max_attempts
          Tombstones,       \* delivered_tombstones: delivered rows kept
          ClaimLimit        \* the limit an exporter claims with

ASSUME OutboxAssumption ==
    /\ IsFiniteSet(Ids)
    /\ Nobody \notin Owners
    /\ MaxItems \in Nat \ {0} /\ MaxAttempts \in Nat \ {0}
    /\ Tombstones \in Nat \ {0} /\ ClaimLimit \in Nat \ {0}

VARIABLES rows,             \* rows[i], or NoRow: the table durable_outbox
          waiting,          \* ids whose next_attempt has not come
          lapsed,           \* ids whose lease has run out
          hand,             \* hand[o]: claimed items o has not settled yet
          accepted,         \* accepted[o]: sent by o, acknowledge still to come
          taken             \* history: ids the transport has ever accepted

outboxVars == <<rows, waiting, lapsed, hand, accepted, taken>>

NoRow == [state |-> "none", attempts |-> 0, owner |-> Nobody, created |-> 0]

NewRow(stamp) ==
    [state |-> "pending", attempts |-> 0, owner |-> Nobody, created |-> stamp]

\* A row whose state and lease change.
Moved(row, state, owner) ==
    [state |-> state, attempts |-> row.attempts, owner |-> owner,
     created |-> row.created]

\* The same with one more attempt charged to it.
Charged(row, state) ==
    [state |-> state, attempts |-> row.attempts + 1, owner |-> Nobody,
     created |-> row.created]

InState(states) == {i \in Ids : rows[i].state \in states}
Stored == {i \in Ids : rows[i] # NoRow}
Undelivered == InState({"pending", "leased", "dead_letter"})

OutboxInit ==
    /\ rows = [i \in Ids |-> NoRow]
    /\ waiting = {} /\ lapsed = {}
    /\ hand = [o \in Owners |-> {}]
    /\ accepted = [o \in Owners |-> {}]
    /\ taken = {}

-----------------------------------------------------------------------------
\* The choices of the k oldest elements of S, all of them if S has fewer; equal
\* stamps come in the order of the ids, which is left open.
Oldest(S, k, stamp) ==
    {T \in SUBSET S : /\ Cardinality(T) = IF Cardinality(S) < k THEN Cardinality(S) ELSE k
                      /\ \A x \in T, y \in S \ T : stamp[x] <= stamp[y]}

Created(table) == [i \in Ids |-> table[i].created]

\* Fault: the pruning does not look at the state of a row.
PrunedAnyState(table, kept) ==
    [i \in Ids |-> IF i \in kept THEN table[i] ELSE NoRow]

\* _prune_tombstones_locked: the newest delivered rows stay.
Pruned(table, kept) ==
    LET delivered == {i \in Ids : table[i].state = "delivered"}
    IN  [i \in Ids |-> IF i \in delivered \ kept THEN NoRow ELSE table[i]]

\* The sets of delivered rows a pruning of the table may keep.
Kept(table) ==
    LET delivered == {i \in Ids : table[i].state = "delivered"}
        excess == Cardinality(delivered) - Tombstones
    IN  IF excess <= 0 THEN {delivered}
        ELSE {delivered \ gone : gone \in Oldest(delivered, excess, Created(table))}

\* Fault: dead letters no longer count against the bound.
RoomWithoutDeadLetters(new) ==
    Cardinality(InState({"pending", "leased"})) + Cardinality(new) <= MaxItems

\* The capacity check of enqueue and enqueue_many.
RoomFor(new) == Cardinality(Undelivered) + Cardinality(new) <= MaxItems

\* enqueue_many (enqueue for one item): exact replays of stored ids change
\* nothing; the others are added together or not at all.  The transaction that
\* adds rows prunes tombstones first.
Store(S, stamps) ==
    LET new == S \ Stored
    IN  /\ IF new = {}
           THEN UNCHANGED <<rows, waiting>>
           ELSE /\ RoomFor(new)
                /\ \E kept \in Kept(rows) :
                     rows' = [i \in Ids |-> IF i \in new THEN NewRow(stamps[i])
                                            ELSE Pruned(rows, kept)[i]]
                /\ waiting' = waiting \ new
        /\ UNCHANGED <<lapsed, hand, accepted, taken>>

\* Fault: the claim leases every row that is not settled, leased ones included.
ClaimLeased(o) ==
    /\ hand[o] = {} /\ accepted[o] = {}
    /\ rows' = [i \in Ids |-> IF rows[i].state \in {"pending", "leased"}
                              THEN Moved(rows[i], "leased", o)
                              ELSE rows[i]]
    /\ lapsed' = {}
    /\ hand' = [hand EXCEPT ![o] = {i \in Ids : rows'[i].owner = o}]
    /\ UNCHANGED <<waiting, accepted, taken>>

\* Fault: the claim returns every leased row, whoever leased it.
ClaimReturnsAll(o) ==
    LET ready == InState({"pending"}) \ waiting
    IN  /\ hand[o] = {} /\ accepted[o] = {}
        /\ rows' = [i \in Ids |-> IF i \in ready
                                  THEN Moved(rows[i], "leased", o)
                                  ELSE rows[i]]
        /\ hand' = [hand EXCEPT ![o] = ready \cup InState({"leased"})]
        /\ UNCHANGED <<waiting, lapsed, accepted, taken>>

\* claim: expired leases become pending, the oldest ready rows are leased, and
\* everything leased by this owner comes back, older leases included.
Claim(o) ==
    LET freed == [i \in Ids |->
                    IF rows[i].state = "leased" /\ i \in lapsed
                    THEN Moved(rows[i], "pending", Nobody)
                    ELSE rows[i]]
        ready == {i \in Ids : freed[i].state = "pending" /\ i \notin waiting}
    IN  /\ hand[o] = {} /\ accepted[o] = {}
        /\ \E batch \in Oldest(ready, ClaimLimit, Created(rows)) :
              rows' = [i \in Ids |-> IF i \in batch
                                     THEN Moved(freed[i], "leased", o)
                                     ELSE freed[i]]
        /\ lapsed' = {}
        /\ \E mine \in Oldest({i \in Ids : rows'[i].state = "leased" /\ rows'[i].owner = o},
                              ClaimLimit, Created(rows)) :
              hand' = [hand EXCEPT ![o] = mine]
        /\ UNCHANGED <<waiting, accepted, taken>>

HoldsLease(o, i) == rows[i].state = "leased" /\ rows[i].owner = o

\* The transport takes one item of the batch.
Send(o, i) ==
    /\ i \in hand[o] /\ accepted[o] = {}
    /\ accepted' = [accepted EXCEPT ![o] = {i}]
    /\ taken' = taken \cup {i}
    /\ UNCHANGED <<rows, waiting, lapsed, hand>>

\* Fault: the row is acknowledged before the send.
AcknowledgeEarly(o, i) ==
    /\ i \in hand[o] /\ HoldsLease(o, i)
    /\ accepted' = [accepted EXCEPT ![o] = {}]
    /\ hand' = [hand EXCEPT ![o] = @ \ {i}]
    /\ LET done == [rows EXCEPT ![i] = Moved(@, "delivered", Nobody)]
       IN  \E kept \in Kept(done) : rows' = Pruned(done, kept)
    /\ lapsed' = lapsed \ {i}
    /\ UNCHANGED <<waiting, taken>>

\* Acknowledge by the row's lease holder; prunes tombstones.
Acknowledge(o, i) ==
    /\ i \in accepted[o] /\ HoldsLease(o, i)
    /\ accepted' = [accepted EXCEPT ![o] = {}]
    /\ hand' = [hand EXCEPT ![o] = @ \ {i}]
    /\ LET done == [rows EXCEPT ![i] = Moved(@, "delivered", Nobody)]
       IN  \E kept \in Kept(done) : rows' = Pruned(done, kept)
    /\ lapsed' = lapsed \ {i}
    /\ UNCHANGED <<waiting, taken>>

\* Fault: a failed send is never charged to the row.
RetryForFree(o, i) ==
    /\ i \in hand[o] /\ accepted[o] \subseteq {i} /\ HoldsLease(o, i)
    /\ accepted' = [accepted EXCEPT ![o] = {}]
    /\ hand' = [hand EXCEPT ![o] = @ \ {i}]
    /\ rows' = [rows EXCEPT ![i] = Moved(@, "pending", Nobody)]
    /\ lapsed' = lapsed \ {i}
    /\ waiting' = waiting \cup {i}
    /\ UNCHANGED taken

\* Fault: retry settles a row whatever its state and owner.
RetryAny(o, i) ==
    /\ i \in hand[o] /\ accepted[o] \subseteq {i}
    /\ accepted' = [accepted EXCEPT ![o] = {}]
    /\ hand' = [hand EXCEPT ![o] = @ \ {i}]
    /\ rows' = [rows EXCEPT ![i] = Moved(@, "pending", Nobody)]
    /\ lapsed' = lapsed \ {i}
    /\ waiting' = waiting \cup {i}
    /\ UNCHANGED taken

\* A send fails, or its acknowledgement could not be committed, and the row goes
\* back behind its backoff or is dead-lettered by the attempt that reaches the
\* bound.
Retry(o, i) ==
    LET attempts == rows[i].attempts + 1
        dead == attempts >= MaxAttempts
    IN  /\ i \in hand[o] /\ accepted[o] \subseteq {i} /\ HoldsLease(o, i)
        /\ accepted' = [accepted EXCEPT ![o] = {}]
        /\ hand' = [hand EXCEPT ![o] = @ \ {i}]
        /\ rows' = [rows EXCEPT ![i] =
                       Charged(@, IF dead THEN "dead_letter" ELSE "pending")]
        /\ lapsed' = lapsed \ {i}
        /\ waiting' = IF dead THEN waiting \ {i} ELSE waiting \cup {i}
        /\ UNCHANGED taken

DropBatch(o) ==
    /\ hand' = [hand EXCEPT ![o] = {}]
    /\ accepted' = [accepted EXCEPT ![o] = {}]
    /\ UNCHANGED <<rows, waiting, lapsed, taken>>

\* Settling an item whose lease is gone: acknowledge and retry both raise, the
\* exporter's loop ends and the rest of its batch is left to the leases.
LeaseLost(o, i) ==
    /\ i \in hand[o] /\ ~HoldsLease(o, i)
    /\ DropBatch(o)

IsDelivered(i) == rows[i].state = "delivered"

\* complete_pending: the outbox as an inbox, whose rows are settled without a
\* lease once their effect is done.
CompletePending(i) ==
    /\ rows[i].state \in {"pending", "leased"}
    /\ LET done == [rows EXCEPT ![i] = Moved(@, "delivered", Nobody)]
       IN  \E kept \in Kept(done) : rows' = Pruned(done, kept)
    /\ lapsed' = lapsed \ {i}
    /\ UNCHANGED <<waiting, hand, accepted, taken>>

\* next_attempt of a pending row passes.
BackoffElapses(i) ==
    /\ i \in waiting
    /\ waiting' = waiting \ {i}
    /\ UNCHANGED <<rows, lapsed, hand, accepted, taken>>

\* lease_until of a leased row passes.
LeaseLapses(i) ==
    /\ rows[i].state = "leased" /\ i \notin lapsed
    /\ lapsed' = lapsed \cup {i}
    /\ UNCHANGED <<rows, waiting, hand, accepted, taken>>
-----------------------------------------------------------------------------
Row == [state    : {"none", "pending", "leased", "dead_letter", "delivered"},
        attempts : 0 .. MaxAttempts,
        owner    : Owners \cup {Nobody},
        created  : Nat]

OutboxTypeOK ==
    /\ rows \in [Ids -> Row]
    /\ waiting \subseteq Ids /\ lapsed \subseteq Ids /\ taken \subseteq Ids
    /\ hand \in [Owners -> SUBSET Ids]
    /\ accepted \in [Owners -> SUBSET Ids]
    /\ \A i \in Ids : rows[i].owner # Nobody <=> rows[i].state = "leased"
    /\ lapsed \subseteq InState({"leased"})
    /\ \A o \in Owners : accepted[o] \subseteq hand[o]

\* The table stays bounded: rows that still matter, dead letters among them,
\* never exceed max_items and tombstones never exceed their number, however
\* enqueues, retries and acknowledgements of several exporters mix.
RetentionIsBounded ==
    /\ Cardinality(Undelivered) <= MaxItems
    /\ Cardinality(InState({"delivered"})) <= Tombstones

\* A row becomes a delivered tombstone only after the transport took the item,
\* also when leases lapse and another exporter takes over in between.
DeliveredWasTaken == InState({"delivered"}) \subseteq taken

\* A settled row stays settled: a slow exporter whose lease lapsed cannot put
\* an item another one delivered, or dead-lettered, back into the queue.  A
\* tombstone may only be pruned.
SettledStaysSettled ==
    [][\A i \in Ids :
         /\ rows[i].state = "dead_letter" => rows'[i] = rows[i]
         /\ rows[i].state = "delivered" => rows'[i] = rows[i] \/ rows'[i] = NoRow]_outboxVars

\* A lease that has not lapsed is exclusive: until then only its holder, by
\* settling the item, changes the row.
LeaseIsExclusive ==
    [][\A i \in Ids, o \in Owners :
         HoldsLease(o, i) /\ i \notin lapsed =>
             rows'[i] = rows[i] \/ (i \in hand[o] /\ i \notin hand'[o])]_outboxVars
=============================================================================
