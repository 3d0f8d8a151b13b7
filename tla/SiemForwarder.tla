---------------------------- MODULE SiemForwarder ---------------------------
(***************************************************************************)
(* The SIEM forwarder (modules/siem_forwarder.py) between the EventBus of   *)
(* one process and the outbox on disk.  Its worker drains the outbox,       *)
(* stages everything selected that was published after its cursor, and      *)
(* advances the cursor only then.  A crash loses the bus, the cursor and    *)
(* what the worker holds; the outbox stays.  The next process is a new      *)
(* lease owner on an empty bus.                                             *)
(***************************************************************************)
EXTENDS EventRings, DurableOutbox

CONSTANTS Severities,       \* severities other modules publish with
          MaxEvents,        \* bound on the events other modules publish
          MaxRevision,      \* bound on the publications of one process
          MaxFaults,        \* bound on failed cycles and operator stops
          MaxLives,         \* bound on the processes of a run
          BatchSize         \* MAX_ENQUEUE_BATCH_ITEMS

EventIds == 1 .. MaxEvents
GapId(r) == MaxEvents + r   \* the id siem-gap-{revision}

ASSUME SiemAssumption ==
    /\ MaxEvents \in Nat /\ MaxRevision \in Nat /\ MaxFaults \in Nat
    /\ BatchSize \in Nat \ {0}
    /\ Ids = 1 .. MaxEvents + MaxRevision
    /\ MaxLives \in Nat \ {0} /\ Owners = 1 .. MaxLives

VARIABLES life,             \* the running process, also its lease owner
          pc,               \* where the worker is
          phase,            \* which drain of the cycle it is in
          cursor,           \* _bus_revision
          enrolled,         \* _bus_cursor_enrolled
          reported,         \* _last_reported_overflow_revision
          upTo,             \* the revision the delta was read at
          gap,              \* the delta overflowed
          toStage,          \* entries not staged yet, oldest first
          single,           \* entries of the chunk staged one by one
          born,             \* events published by other modules, all lives
          faults,           \* failed cycles and stops so far
          origin,           \* history: revision the cursor was seeded at
          stagedEver,       \* history: ids a commit of the outbox has covered
          eligible,         \* history: selected events published while enrolled
          covered           \* history: ids the cursor passed under a gap receipt

siemVars == <<life, pc, phase, cursor, enrolled, reported, upTo, gap, toStage,
              single, born, faults, origin, eligible, stagedEver, covered>>
vars == <<ringVars, outboxVars, siemVars>>

workerVars == <<phase, reported, upTo, gap, toStage, single>>
countVars == <<born, faults, life>>
historyVars == <<origin, eligible, stagedEver, covered>>

\* The events an exporter with the default minimum severity forwards.
Selected(e) == ~e.own /\ e.severity \in {"MEDIUM", "HIGH"}

IsGap(i) == i \notin EventIds

Init ==
    /\ RingsInit /\ OutboxInit
    /\ life = 1 /\ pc = "stopped" /\ phase = "before"
    /\ cursor = 0 /\ enrolled = FALSE /\ reported = 0
    /\ upTo = 0 /\ gap = FALSE /\ toStage = {} /\ single = {}
    /\ born = 0 /\ faults = 0 /\ origin = 0
    /\ eligible = {} /\ stagedEver = {} /\ covered = {}

-----------------------------------------------------------------------------
\* Another module publishes.
Publish(severity) ==
    LET event == [id |-> born + 1, severity |-> severity, own |-> FALSE]
    IN  /\ born < MaxEvents /\ revision < MaxRevision
        /\ born' = born + 1
        /\ AppendEvent(event)
        /\ eligible' = IF enrolled /\ Selected(event) THEN eligible \cup {born + 1}
                       ELSE eligible
        /\ UNCHANGED <<outboxVars, life, pc, cursor, enrolled, faults, workerVars,
                       origin, stagedEver, covered>>

\* The forwarder publishes about itself (module = its own name).
Emit(severity) ==
    IF revision < MaxRevision
    THEN AppendEvent([id |-> 0, severity |-> severity, own |-> TRUE])
    ELSE UNCHANGED ringVars

\* run() up to its loop: the outbox opens and the cursor is enrolled once.
Start ==
    /\ pc = "stopped"
    /\ pc' = "cycle"
    /\ enrolled' = TRUE
    /\ cursor' = IF enrolled THEN cursor ELSE revision
    /\ origin' = IF enrolled THEN origin ELSE revision
    /\ UNCHANGED <<ringVars, outboxVars, countVars, workerVars, eligible,
                   stagedEver, covered>>

\* The operator stops the module; seen at the top of the loop only.
Stop ==
    /\ pc = "cycle" /\ faults < MaxFaults
    /\ pc' = "stopped"
    /\ faults' = faults + 1
    /\ UNCHANGED <<ringVars, outboxVars, life, born, cursor, enrolled,
                   workerVars, historyVars>>

\* The process dies and another one starts.
Crash ==
    /\ life + 1 \in Owners
    /\ life' = life + 1
    /\ ring' = <<>> /\ priorityRing' = <<>> /\ published' = <<>>
    /\ revision' = 0 /\ priorityRevision' = 0
    /\ DropBatch(life)
    /\ pc' = "stopped" /\ phase' = "before"
    /\ cursor' = 0 /\ enrolled' = FALSE /\ reported' = 0
    /\ upTo' = 0 /\ gap' = FALSE /\ toStage' = {} /\ single' = {}
    /\ origin' = 0
    /\ UNCHANGED <<born, faults, eligible, stagedEver, covered>>

\* A cycle ends by an exception: nothing is committed, the next one retries.
CycleFails ==
    /\ pc \notin {"cycle", "stopped"} /\ faults < MaxFaults
    /\ faults' = faults + 1
    /\ pc' = "cycle"
    /\ DropBatch(life)
    /\ gap' = FALSE /\ toStage' = {} /\ single' = {}
    /\ UNCHANGED <<ringVars, life, born, cursor, enrolled, phase, reported,
                   upTo, historyVars>>

-----------------------------------------------------------------------------
\* _delivery_cycle begins.
BeginCycle ==
    /\ pc = "cycle"
    /\ pc' = "drain" /\ phase' = "before"
    /\ UNCHANGED <<ringVars, outboxVars, countVars, cursor, enrolled, reported,
                   upTo, gap, toStage, single, historyVars>>

\* _drain_outbox claims its batch.
ClaimBatch ==
    /\ pc = "drain"
    /\ Claim(life)
    /\ pc' = "sending"
    /\ UNCHANGED <<ringVars, countVars, cursor, enrolled, workerVars, historyVars>>

\* _drain_outbox works its batch off: the transport takes an item or fails on
\* it, and the outbox is told.
WorkBatch ==
    /\ pc = "sending"
    /\ \E i \in hand[life] : \/ Send(life, i)
                             \/ Acknowledge(life, i)
                             \/ Retry(life, i)
    /\ UNCHANGED <<ringVars, countVars, pc, cursor, enrolled, workerVars,
                   historyVars>>

\* The batch is worked off; what follows depends on the drain.
BatchDone ==
    /\ pc = "sending" /\ hand[life] = {}
    /\ pc' = IF phase = "before" THEN "read" ELSE "cycle"
    /\ UNCHANGED <<ringVars, outboxVars, countVars, cursor, enrolled, workerVars,
                   historyVars>>

\* The selected records of a delta as outbox entries.
EntriesIn(records) ==
    {[id |-> x.event.id, stamp |-> 2 * x.event.id] :
        x \in {y \in records : Selected(y.event)}}

\* Fault: an overflowed delta is staged like a complete one.
ReadDeltaQuietly ==
    /\ pc = "read"
    /\ LET delta == RecordsSince(cursor)
       IN  /\ upTo' = delta.current
           /\ gap' = FALSE
           /\ toStage' = EntriesIn(delta.records)
    /\ pc' = "stage"
    /\ UNCHANGED <<ringVars, outboxVars, countVars, cursor, enrolled, phase,
                   reported, single, historyVars>>

\* read_bus_events and the selection of _stage_bus_delta.  The first read that
\* finds an overflow at a revision is reported on the bus itself.  The gap
\* receipt is the last entry of the delta.
ReadDelta ==
    /\ pc = "read"
    /\ LET delta == RecordsSince(cursor)
           receipt == [id |-> GapId(delta.current), stamp |-> 2 * born + 1]
       IN  /\ upTo' = delta.current
           /\ gap' = delta.overflow
           /\ toStage' = IF delta.overflow
                         THEN EntriesIn(delta.records) \cup {receipt}
                         ELSE EntriesIn(delta.records)
           /\ IF delta.overflow /\ reported # delta.current
              THEN Emit("MEDIUM") /\ reported' = delta.current
              ELSE UNCHANGED <<ringVars, reported>>
    /\ pc' = "stage"
    /\ UNCHANGED <<outboxVars, countVars, cursor, enrolled, phase, single,
                   historyVars>>

\* The next `size` entries in the order of the delta.
NextEntries(entries, size) ==
    Oldest(entries, size, [x \in entries |-> x.stamp])

IdsOf(entries) == {x.id : x \in entries}
StampsOf(entries) ==
    [i \in IdsOf(entries) |-> (CHOOSE x \in entries : x.id = i).stamp]

\* One commit of the outbox that covers the entries.
Commit(entries) ==
    /\ Store(IdsOf(entries), StampsOf(entries))
    /\ stagedEver' = stagedEver \cup IdsOf(entries)
    /\ UNCHANGED <<origin, eligible, covered>>

Fits(entries) == LET new == IdsOf(entries) \ Stored IN new = {} \/ RoomFor(new)

\* enqueue_many of the next chunk.
StageChunk ==
    /\ pc = "stage"
    /\ toStage # {}
    /\ \E chunk \in NextEntries(toStage, BatchSize) :
          /\ Commit(chunk)
          /\ toStage' = toStage \ chunk
    /\ UNCHANGED <<ringVars, countVars, pc, cursor, enrolled, phase, reported,
                   upTo, gap, single>>

\* Fault: a chunk that does not fit as a whole ends the cycle.
ChunkRefused ==
    /\ pc = "stage"
    /\ \E chunk \in NextEntries(toStage, BatchSize) : ~Fits(chunk)
    /\ Emit("HIGH")
    /\ pc' = "drain" /\ phase' = "relief"
    /\ gap' = FALSE /\ toStage' = {} /\ single' = {}
    /\ UNCHANGED <<outboxVars, countVars, cursor, enrolled, reported, upTo,
                   historyVars>>

\* The chunk does not fit as a whole: its entries are tried one by one, up to the
\* one that does not fit either (nobody else adds or settles rows meanwhile).
ChunkFull ==
    /\ pc = "stage"
    /\ \E chunk \in NextEntries(toStage, BatchSize) :
          /\ ~Fits(chunk)
          /\ single' = chunk
          /\ toStage' = toStage \ chunk
    /\ pc' = "single"
    /\ UNCHANGED <<ringVars, outboxVars, countVars, cursor, enrolled, phase,
                   reported, upTo, gap, historyVars>>

StageSingle ==
    /\ pc = "single" /\ single # {}
    /\ \E next \in NextEntries(single, 1) :
          /\ Commit(next)
          /\ single' = single \ next
    /\ UNCHANGED <<ringVars, countVars, pc, cursor, enrolled, phase, reported,
                   upTo, gap, toStage>>

\* OutboxFull leaves the cycle: the cursor stays, the worker says so on the bus
\* and drains once more.
OutboxIsFull ==
    /\ pc = "single"
    /\ \E next \in NextEntries(single, 1) : ~Fits(next)
    /\ Emit("HIGH")
    /\ pc' = "drain" /\ phase' = "relief"
    /\ gap' = FALSE /\ toStage' = {} /\ single' = {}
    /\ UNCHANGED <<outboxVars, countVars, cursor, enrolled, reported, upTo,
                   historyVars>>

\* The ids between the cursor and the revision the delta was read at.
Passed == {published[r].id : r \in cursor + 1 .. upTo}

\* Fault: the cursor moves to the bus's revision of now, not of the read.
CommitNow ==
    /\ pc = "stage" /\ toStage = {}
    /\ cursor' = revision
    /\ pc' = "drain" /\ phase' = "after" /\ gap' = FALSE
    /\ covered' = IF gap THEN covered \cup Passed ELSE covered
    /\ UNCHANGED <<ringVars, outboxVars, countVars, enrolled, reported, upTo,
                   toStage, single, origin, eligible, stagedEver>>

\* Everything is staged: an overflow is announced as receipted, the cursor
\* moves to where the delta was read, and the new rows are drained.
CommitCursor ==
    /\ pc = "stage" /\ toStage = {}
    /\ cursor' = upTo
    /\ pc' = "drain" /\ phase' = "after" /\ gap' = FALSE
    /\ covered' = IF gap THEN covered \cup Passed ELSE covered
    /\ UNCHANGED <<ringVars, outboxVars, countVars, enrolled, reported, upTo,
                   toStage, single, origin, eligible, stagedEver>>

Timers ==
    /\ \E i \in Ids : BackoffElapses(i) \/ LeaseLapses(i)
    /\ UNCHANGED <<ringVars, siemVars>>

Worker ==
    \/ BeginCycle \/ ClaimBatch \/ WorkBatch \/ BatchDone \/ ReadDelta
    \/ StageChunk \/ ChunkFull \/ StageSingle \/ OutboxIsFull
    \/ CommitCursor

Next ==
    \/ \E severity \in Severities : Publish(severity)
    \/ Start \/ Stop \/ Crash \/ CycleFails
    \/ Worker
    \/ Timers

Spec == Init /\ [][Next]_vars

\* The worker keeps cycling, the module is started again after a stop or a
\* crash, and backoffs and leases run out.
Fairness == WF_vars(Worker) /\ WF_vars(Start) /\ WF_vars(Timers)

FairSpec == Spec /\ Fairness
-----------------------------------------------------------------------------
PcValues == {"stopped", "cycle", "drain", "sending", "read", "stage", "single"}

\* Types; the cursor never leads the bus (commit_bus_cursor).
STypeOK ==
    /\ RingsTypeOK
    /\ pc \in PcValues /\ phase \in {"before", "after", "relief"}
    /\ life \in Owners
    /\ cursor \in 0 .. revision /\ upTo \in 0 .. revision /\ origin \in 0 .. cursor
    /\ IdsOf(toStage \cup single) \subseteq Ids /\ stagedEver \subseteq Ids
    /\ eligible \subseteq 1 .. born /\ covered \subseteq 0 .. born
    /\ OutboxTypeOK

\* The promise in the module's header and in the outbox docstring: the cursor
\* never passes a selected event that is not committed to the outbox, unless a
\* gap receipt for that stretch of the stream was staged first.  It must hold
\* across partial batches, a full outbox, failed cycles, replays of a delta,
\* and overflows of either ring.
NoSilentLoss ==
    \A r \in origin + 1 .. cursor :
        Selected(published[r]) =>
            published[r].id \in stagedEver \cup covered

\* Whatever was ever committed is still queued or dead-lettered, or the
\* transport took it: no crash, lapsed lease, replay or pruned tombstone loses
\* a committed event.
CommittedIsKept == stagedEver \subseteq Undelivered \cup taken

\* What the worker holds is leased to it, even when the lease lapsed while it
\* was sending: acknowledge and retry never fail for a single forwarder.
BatchIsLeased == \A i \in hand[life] : HoldsLease(life, i)

-----------------------------------------------------------------------------
\* What the forwarder has made of an event another module published.
Fate(i) ==
    CASE i > born                         -> "unborn"
      [] i <= born /\ i \notin eligible   -> "ignored"
      [] i \in eligible \cap taken        -> "delivered"
      [] i \in eligible \ taken /\ rows[i].state = "dead_letter" -> "abandoned"
      [] i \in (eligible \ taken) \cap InState({"pending", "leased"}) -> "durable"
      [] i \in (eligible \ taken) \ Stored /\ i \in covered -> "reported"
      [] i \in (eligible \ taken) \ (Stored \cup covered) ->
            IF \E r \in cursor + 1 .. revision : published[r].id = i
            THEN "volatile" ELSE "forgotten"

Contract == INSTANCE ExportContract
                WITH Items <- EventIds, fate <- [i \in EventIds |-> Fate(i)],
                     deaths <- life - 1

\* The forwarder implements the contract of an exporter: see ExportContract.
ImplementsContract == Contract!Spec

-----------------------------------------------------------------------------
\* Dead letters alone fill the outbox; only an operator can empty it.
Clogged == Cardinality(InState({"dead_letter"})) = MaxItems

\* Every selected event published while the forwarder is enrolled is passed by
\* the cursor in the end, through failed cycles and full outboxes, unless dead
\* letters fill the outbox or the process dies.
CursorCatchesUp ==
    \A r \in 1 .. MaxRevision :
        (enrolled /\ revision >= r) ~> (cursor >= r \/ ~enrolled \/ Clogged)

\* A committed event is taken by the transport or dead-lettered in the end,
\* through crashes that leave it leased to a process that is gone, and pruning
\* removes no row before.
CommittedIsSettled ==
    \A i \in Ids : rows[i].state \in {"pending", "leased"}
                   ~> \/ rows[i].state \in {"delivered", "dead_letter"}
                      \/ rows[i] = NoRow /\ i \in taken
=============================================================================
