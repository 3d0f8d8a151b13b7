------------------------ MODULE SiemForwarderProofs ------------------------
(***************************************************************************)
(* What the forwarder guarantees for any number of events, revisions,       *)
(* failures and process deaths and any sizes of the rings, the outbox and   *)
(* the batches: nothing selected is passed silently, nothing committed is   *)
(* lost, and what the worker holds is leased to it.  The last part proves   *)
(* that the forwarder implements ExportContract.                            *)
(***************************************************************************)
EXTENDS SiemForwarder, EventRingsProofs, DurableOutboxProofs

Events == [id : 0 .. MaxEvents, severity : Severities \cup {"MEDIUM", "HIGH"},
           own : BOOLEAN]

Entries == [id : Ids, stamp : Nat]

(* The bus: the rings, and ids that tell the forwarder's own events apart.  *)
BusInv ==
    /\ RingsInv(Events)
    /\ revision <= MaxRevision
    /\ born \in 0 .. MaxEvents
    /\ \A r \in 1 .. revision : /\ published[r].id <= born
                                /\ published[r].own <=> published[r].id = 0

(* The worker: the cursors never lead the bus, entries are entries. *)
WorkerInv ==
    /\ pc \in PcValues /\ phase \in {"before", "after", "relief"}
    /\ life \in Owners
    /\ cursor \in 0 .. revision /\ upTo \in 0 .. revision /\ origin \in 0 .. cursor
    /\ toStage \subseteq Entries /\ single \subseteq Entries
    /\ stagedEver \subseteq Ids
    /\ eligible \subseteq 1 .. born /\ covered \subseteq 0 .. born

(* While a delta is staged, every selected event up to where it was read is *)
(* committed or still to be staged, or the delta has a gap.                 *)
DeltaIsCovered ==
    pc = "stage" =>
        /\ cursor <= upTo
        /\ \A r \in cursor + 1 .. upTo :
              Selected(published[r]) =>
                  gap \/ published[r].id \in IdsOf(toStage) \cup stagedEver

(* Only the running process holds a batch. *)
OnlyTheLivingHold == \A o \in Owners \ {life} : hand[o] = {}

SInv == /\ OutboxInv
        /\ BusInv
        /\ WorkerInv
        /\ DeltaIsCovered
        /\ NoSilentLoss
        /\ CommittedIsKept
        /\ BatchIsLeased
        /\ OnlyTheLivingHold

----------------------------------------------------------------------------
LEMMA SizesAreNats ==
  /\ MaxEvents \in Nat /\ MaxRevision \in Nat /\ MaxFaults \in Nat
  /\ Ids = 1 .. MaxEvents + MaxRevision
  /\ MaxLives \in Nat \ {0} /\ Owners = 1 .. MaxLives
BY SiemAssumption DEF SiemAssumption

(* What a publication, the forwarder's own included, does to the bus.       *)
LEMMA AppendStep ==
  ASSUME BusInv, NEW e \in Events, AppendEvent(e), revision < MaxRevision,
         born' \in born .. MaxEvents, e.id <= born', e.own <=> e.id = 0
  PROVE  /\ BusInv'
         /\ revision' = revision + 1
         /\ \A r \in 1 .. revision : published'[r] = published[r]
<1>t. /\ RingsInv(Events) /\ RingIsSuffix(Events) /\ revision \in Nat
      /\ born \in Nat /\ MaxEvents \in Nat /\ MaxRevision \in Nat
  BY SizesAreNats DEF BusInv, RingsInv, RingIsSuffix
<1>1. RingsInv(Events)'
  BY <1>t, AppendKeepsRings DEF Events
<1>2. /\ revision' = revision + 1 /\ published'[revision'] = e
      /\ \A r \in 1 .. revision : published'[r] = published[r]
  BY <1>t, AppendPublishes
<1>3. ASSUME NEW r \in 1 .. revision'
      PROVE  published'[r].id <= born' /\ (published'[r].own <=> published'[r].id = 0)
  <2>1. CASE r = revision'
    BY <1>2, <2>1
  <2>2. CASE r \in 1 .. revision
    <3>1. published[r] \in Events
      BY <1>t, <2>2 DEF RingIsSuffix
    <3>2. published[r].id \in Nat
      BY <1>t, <3>1 DEF Events
    <3> QED
      BY <1>t, <1>2, <2>2, <3>2 DEF BusInv
  <2> QED
    BY <1>t, <1>2, <2>1, <2>2
<1>4. revision' <= MaxRevision /\ born' \in 0 .. MaxEvents
  BY <1>t, <1>2
<1> QED
  BY <1>1, <1>2, <1>3, <1>4 DEF BusInv

(* The stream of this process only grows.                                   *)
StreamGrows ==
    /\ BusInv'
    /\ revision <= revision' /\ born <= born'
    /\ \A r \in 1 .. revision : published'[r] = published[r]

LEMMA BusStands ==
  ASSUME BusInv, UNCHANGED <<ringVars, born>>
  PROVE  StreamGrows
<1>1. RingsInv(Events)'
  BY RingsUnchanged DEF BusInv, Events
<1>2. revision \in Nat /\ born \in Nat
  BY SizesAreNats DEF BusInv, RingsInv, RingIsSuffix
<1> QED
  BY <1>1, <1>2 DEF StreamGrows, BusInv, ringVars

LEMMA EmitStep ==
  ASSUME BusInv, NEW severity \in {"MEDIUM", "HIGH"}, Emit(severity), born' = born
  PROVE  StreamGrows
<1> DEFINE e == [id |-> 0, severity |-> severity, own |-> TRUE]
<1>1. /\ e \in Events /\ e.id = 0 /\ e.own = TRUE
      /\ born \in 0 .. MaxEvents /\ MaxEvents \in Nat /\ revision \in Nat
  BY SizesAreNats DEF Events, BusInv, RingsInv, RingIsSuffix
<1>2. CASE revision < MaxRevision
  <2>1. AppendEvent(e)
    BY <1>2 DEF Emit
  <2> HIDE DEF e
  <2>2. born' \in born .. MaxEvents /\ e.id <= born'
    BY <1>1
  <2> QED
    BY <1>1, <1>2, <2>1, <2>2, AppendStep DEF StreamGrows
<1>3. CASE ~(revision < MaxRevision)
  BY <1>3, BusStands DEF Emit
<1> QED
  BY <1>2, <1>3

LEMMA PublishStep ==
  ASSUME BusInv, NEW severity \in Severities, Publish(severity)
  PROVE  StreamGrows
<1> DEFINE e == [id |-> born + 1, severity |-> severity, own |-> FALSE]
<1>1. /\ born \in 0 .. MaxEvents /\ MaxEvents \in Nat /\ born < MaxEvents
      /\ revision < MaxRevision /\ born' = born + 1 /\ AppendEvent(e)
      /\ revision \in Nat
  BY SizesAreNats DEF BusInv, Publish, RingsInv, RingIsSuffix
<1>2. e \in Events /\ e.id = born + 1 /\ e.own = FALSE
  BY <1>1 DEF Events
<1> HIDE DEF e
<1>3. born' \in born .. MaxEvents /\ e.id <= born' /\ e.id # 0 /\ born <= born'
  BY <1>1, <1>2
<1> QED
  BY <1>1, <1>2, <1>3, AppendStep DEF StreamGrows

(* Every step but a crash lets the stream stand or grow.                    *)
LEMMA StreamSteps ==
  ASSUME BusInv, [Next]_vars, ~Crash
  PROVE  StreamGrows
<1>1. ASSUME NEW severity \in Severities, Publish(severity) PROVE StreamGrows
  BY <1>1, PublishStep
<1>2. CASE Start \/ Stop \/ CycleFails \/ BeginCycle \/ ClaimBatch \/ WorkBatch \/ BatchDone
  BY <1>2, BusStands DEF Start, Stop, CycleFails, BeginCycle, ClaimBatch, WorkBatch,
                         BatchDone, countVars
<1>3. CASE StageChunk \/ ChunkFull \/ StageSingle \/ CommitCursor \/ Timers
  BY <1>3, BusStands DEF StageChunk, ChunkFull, StageSingle, CommitCursor, Timers,
                         countVars, siemVars
<1>4. CASE ReadDelta
  <2>1. Emit("MEDIUM") \/ UNCHANGED ringVars
    BY <1>4 DEF ReadDelta
  <2>2. born' = born
    BY <1>4 DEF ReadDelta, countVars
  <2> QED
    BY <2>1, <2>2, EmitStep, BusStands
<1>5. CASE OutboxIsFull
  <2>1. Emit("HIGH") /\ born' = born
    BY <1>5 DEF OutboxIsFull, countVars
  <2> QED
    BY <2>1, EmitStep
<1>6. CASE UNCHANGED vars
  BY <1>6, BusStands DEF vars, siemVars
<1> QED
  BY <1>1, <1>2, <1>3, <1>4, <1>5, <1>6 DEF Next, Worker

LEMMA CrashBus ==
  ASSUME BusInv, Crash
  PROVE  BusInv' /\ revision' = 0 /\ born' = born
<1>1. /\ ring' = <<>> /\ priorityRing' = <<>> /\ published' = <<>>
      /\ revision' = 0 /\ priorityRevision' = 0 /\ born' = born
  BY DEF Crash
<1>2. RingsInv(Events)'
  BY <1>1, RingAssumption DEF RingAssumption, RingsInv, RingIsSuffix, LaneIsSuffix, SizeOf
<1> QED
  BY <1>1, <1>2, SizesAreNats DEF BusInv

----------------------------------------------------------------------------
(* Entries as enqueue_many takes them.                                      *)
LEMMA EntriesAreStorable ==
  ASSUME NEW entries \in SUBSET Entries
  PROVE  IdsOf(entries) \in SUBSET Ids /\ StampsOf(entries) \in [IdsOf(entries) -> Nat]
<1>1. IdsOf(entries) \in SUBSET Ids
  BY DEF IdsOf, Entries
<1>2. ASSUME NEW i \in IdsOf(entries)
      PROVE  (CHOOSE x \in entries : x.id = i).stamp \in Nat
  <2>1. \E x \in entries : x.id = i
    BY DEF IdsOf
  <2>2. (CHOOSE x \in entries : x.id = i) \in entries
    BY <2>1
  <2> QED
    BY <2>2 DEF Entries
<1> QED
  BY <1>1, <1>2 DEF StampsOf

LEMMA NextEntriesOf ==
  ASSUME NEW entries, NEW size, NEW chunk \in NextEntries(entries, size)
  PROVE  chunk \subseteq entries
BY OldestOf DEF NextEntries

(* One commit: what it covers is retained, what was leased stays leased.    *)
LEMMA CommitStep ==
  ASSUME OutboxInv, NEW entries \in SUBSET Entries, Commit(entries)
  PROVE  /\ OutboxStep
         /\ IdsOf(entries) \subseteq (Undelivered \cup taken)'
         /\ stagedEver' = stagedEver \cup IdsOf(entries)
         /\ UNCHANGED <<hand, origin, eligible, covered>>
         /\ \A i \in Ids : rows[i].state = "leased" => rows'[i] = rows[i]
<1> DEFINE S == IdsOf(entries)
           stamps == StampsOf(entries)
<1>1. S \in SUBSET Ids /\ stamps \in [S -> Nat]
  BY EntriesAreStorable
<1>2. Store(S, stamps) /\ stagedEver' = stagedEver \cup S
      /\ UNCHANGED <<origin, eligible, covered>>
  BY DEF Commit
<1> HIDE DEF S, stamps
<1>3. UNCHANGED hand
  BY <1>2 DEF Store
<1>4. /\ S \subseteq (Undelivered \cup taken)'
      /\ \A i \in Ids : rows[i].state = "leased" => rows'[i] = rows[i]
  BY <1>1, <1>2, StoreRetains, StoreRows
<1>5. OutboxStep
  BY <1>1, <1>2 DEF OutboxStep
<1> QED
  BY <1>2, <1>3, <1>4, <1>5 DEF S

(* The two actions that commit.                                             *)
LEMMA StagingSteps ==
  ASSUME WorkerInv, StageChunk \/ StageSingle
  PROVE  \E entries \in SUBSET Entries :
            /\ Commit(entries)
            /\ \/ /\ StageChunk
                  /\ entries \subseteq toStage /\ toStage' = toStage \ entries
               \/ /\ StageSingle
                  /\ entries \subseteq single /\ single' = single \ entries
<1>t. toStage \subseteq Entries /\ single \subseteq Entries
  BY DEF WorkerInv
<1>1. CASE StageChunk
  <2>1. PICK chunk \in NextEntries(toStage, BatchSize) :
          Commit(chunk) /\ toStage' = toStage \ chunk
    BY <1>1 DEF StageChunk
  <2>2. chunk \subseteq toStage
    BY <2>1, NextEntriesOf
  <2> QED
    BY <1>1, <1>t, <2>1, <2>2
<1>2. CASE StageSingle
  <2>1. PICK next \in NextEntries(single, 1) :
          Commit(next) /\ single' = single \ next
    BY <1>2 DEF StageSingle
  <2>2. next \subseteq single
    BY <2>1, NextEntriesOf
  <2> QED
    BY <1>2, <1>t, <2>1, <2>2
<1> QED
  BY <1>1, <1>2

(* Every step is an operation of the outbox or leaves it alone.             *)
LEMMA OutboxSteps ==
  ASSUME OutboxInv, WorkerInv, [Next]_vars
  PROVE  OutboxStep \/ UNCHANGED outboxVars
<1>t. life \in Owners /\ hand \in [Owners -> SUBSET Ids]
  BY DEF WorkerInv, OutboxInv, OutboxTypeOK
<1>1. ASSUME NEW severity \in Severities, Publish(severity) PROVE UNCHANGED outboxVars
  BY <1>1 DEF Publish
<1>2. CASE Start \/ Stop \/ BeginCycle \/ BatchDone
  BY <1>2 DEF Start, Stop, BeginCycle, BatchDone
<1>3. CASE ReadDelta \/ ChunkFull \/ OutboxIsFull \/ CommitCursor
  BY <1>3 DEF ReadDelta, ChunkFull, OutboxIsFull, CommitCursor
<1>4. CASE Crash \/ CycleFails
  BY <1>4, <1>t DEF Crash, CycleFails, OutboxStep
<1>5. CASE ClaimBatch
  BY <1>5, <1>t DEF ClaimBatch, OutboxStep
<1>6. CASE WorkBatch
  <2>1. PICK i \in hand[life] : Send(life, i) \/ Acknowledge(life, i) \/ Retry(life, i)
    BY <1>6 DEF WorkBatch
  <2>2. i \in Ids
    BY <1>t
  <2> QED
    BY <1>t, <2>1, <2>2 DEF OutboxStep
<1>7. CASE StageChunk \/ StageSingle
  BY <1>7, StagingSteps, CommitStep
<1>8. CASE Timers
  BY <1>8 DEF Timers, OutboxStep
<1>9. CASE UNCHANGED vars
  BY <1>9 DEF vars
<1> QED
  BY <1>1, <1>2, <1>3, <1>4, <1>5, <1>6, <1>7, <1>8, <1>9 DEF Next, Worker

LEMMA NextOutboxInv ==
  ASSUME OutboxInv, WorkerInv, [Next]_vars
  PROVE  OutboxInv' /\ Undelivered \cup taken \subseteq (Undelivered \cup taken)'
<1>1. CASE OutboxStep
  BY <1>1, StepOutboxInv, StepKeepsItems
<1>2. CASE UNCHANGED outboxVars
  BY <1>2 DEF outboxVars, OutboxInv, OutboxTypeOK, RowsSound, AcceptedWasTaken,
              DeliveredWasTaken, RetentionIsBounded, Undelivered, InState
<1> QED
  BY <1>1, <1>2, OutboxSteps

----------------------------------------------------------------------------
(* A record of the stream that is selected makes an entry.                  *)
LEMMA RecordsMakeEntries ==
  ASSUME BusInv, NEW records,
         \A x \in records : x.revision \in 1 .. revision /\ x.event = published[x.revision]
  PROVE  /\ EntriesIn(records) \subseteq Entries
         /\ \A x \in records : Selected(x.event) => x.event.id \in IdsOf(EntriesIn(records))
<1>t. /\ RingIsSuffix(Events) /\ born \in 0 .. MaxEvents
      /\ \A r \in 1 .. revision : /\ published[r].id <= born
                                  /\ published[r].own <=> published[r].id = 0
      /\ revision \in Nat
  BY DEF BusInv, RingsInv, RingIsSuffix
<1>1. ASSUME NEW x \in records, Selected(x.event)
      PROVE  [id |-> x.event.id, stamp |-> 2 * x.event.id] \in Entries
  <2>1. /\ x.event \in Events /\ x.event.id <= born
        /\ x.event.own <=> x.event.id = 0
    BY <1>t DEF RingIsSuffix
  <2>2. x.event.id \in 1 .. MaxEvents
    BY <1>1, <1>t, <2>1, SizesAreNats DEF Selected, Events
  <2>3. x.event.id \in Ids /\ 2 * x.event.id \in Nat
    BY <2>2, SizesAreNats
  <2> QED
    BY <2>3 DEF Entries
<1>2. EntriesIn(records) \subseteq Entries
  BY <1>1 DEF EntriesIn
<1>3. ASSUME NEW x \in records, Selected(x.event)
      PROVE  x.event.id \in IdsOf(EntriesIn(records))
  <2> DEFINE entry == [id |-> x.event.id, stamp |-> 2 * x.event.id]
  <2>1. entry \in EntriesIn(records)
    BY <1>3 DEF EntriesIn
  <2>2. entry.id = x.event.id
    OBVIOUS
  <2> HIDE DEF entry
  <2> QED
    BY <2>1, <2>2 DEF IdsOf
<1> QED
  BY <1>2, <1>3

(* What read_bus_events hands to the staging.                               *)
LEMMA ReadDeltaStep ==
  ASSUME BusInv, WorkerInv, ReadDelta
  PROVE  /\ upTo' = revision
         /\ toStage' \subseteq Entries
         /\ \A r \in cursor + 1 .. revision :
               Selected(published[r]) => gap' \/ published[r].id \in IdsOf(toStage')
<1> DEFINE delta == RecordsSince(cursor)
           receipt == [id |-> GapId(delta.current), stamp |-> 2 * born + 1]
<1>t. /\ RingsInv(Events) /\ revision \in Nat /\ revision <= MaxRevision
      /\ cursor \in 0 .. revision /\ born \in Nat /\ Len(ring) \in Nat
  BY SizesAreNats DEF BusInv, RingsInv, RingIsSuffix, WorkerInv
<1>1. /\ {x.revision : x \in delta.records} \subseteq cursor + 1 .. revision
      /\ \A x \in delta.records : x.event = published[x.revision]
      /\ ~delta.overflow => {x.revision : x \in delta.records} = cursor + 1 .. revision
  BY <1>t, DeltaExactAt
<1>2. /\ delta.current = revision
      /\ delta.overflow <=> revision - cursor > Len(ring)
  BY <1>t, DeltaCases
<1>3. /\ upTo' = delta.current
      /\ gap' = delta.overflow
      /\ toStage' = IF delta.overflow THEN EntriesIn(delta.records) \cup {receipt}
                    ELSE EntriesIn(delta.records)
  BY DEF ReadDelta
<1>4. delta.overflow => receipt \in Entries
  <2> SUFFICES ASSUME delta.overflow PROVE receipt \in Entries
    OBVIOUS
  <2>1. revision \in 1 .. MaxRevision
    BY <1>2, <1>t, SizesAreNats
  <2>2. GapId(delta.current) \in Ids /\ 2 * born + 1 \in Nat
    BY <1>2, <1>t, <2>1, SizesAreNats DEF GapId
  <2> QED
    BY <2>2 DEF Entries
<1> HIDE DEF delta, receipt
<1>5. \A x \in delta.records : x.revision \in 1 .. revision /\ x.event = published[x.revision]
  BY <1>1, <1>t
<1>6. /\ EntriesIn(delta.records) \subseteq Entries
      /\ \A x \in delta.records :
            Selected(x.event) => x.event.id \in IdsOf(EntriesIn(delta.records))
  BY <1>5, RecordsMakeEntries
<1>7. ASSUME NEW r \in cursor + 1 .. revision, Selected(published[r]), ~delta.overflow
      PROVE  published[r].id \in IdsOf(toStage')
  <2>1. PICK x \in delta.records : x.revision = r
    BY <1>1, <1>7
  <2>2. x.event = published[r]
    BY <1>1, <2>1
  <2> QED
    BY <1>3, <1>6, <1>7, <2>1, <2>2
<1> QED
  BY <1>2, <1>3, <1>4, <1>6, <1>7

----------------------------------------------------------------------------
(* The types of the worker, step by step.                                   *)
LEMMA NextWorkerInv ==
  ASSUME OutboxInv, BusInv, WorkerInv, DeltaIsCovered, [Next]_vars
  PROVE  WorkerInv'
<1>t. /\ pc \in PcValues /\ phase \in {"before", "after", "relief"}
      /\ life \in Owners
      /\ cursor \in 0 .. revision /\ upTo \in 0 .. revision /\ origin \in 0 .. cursor
      /\ toStage \subseteq Entries /\ single \subseteq Entries
      /\ stagedEver \subseteq Ids
      /\ eligible \subseteq 1 .. born /\ covered \subseteq 0 .. born
      /\ revision \in Nat /\ born \in 0 .. MaxEvents /\ MaxEvents \in Nat
  BY SizesAreNats DEF WorkerInv, BusInv, RingsInv, RingIsSuffix
<1>p. {"stopped", "cycle", "drain", "sending", "read", "stage", "single"} = PcValues
  BY DEF PcValues
<1>a. StreamGrows => /\ revision' \in Nat /\ revision <= revision' /\ born <= born'
                     /\ born' \in Nat
  BY SizesAreNats DEF StreamGrows, BusInv, RingsInv, RingIsSuffix
(* Steps that move none of the cursors. *)
<1>f. ASSUME StreamGrows, UNCHANGED <<life, cursor, upTo, origin, covered>>,
             pc' \in PcValues, phase' \in {"before", "after", "relief"},
             toStage' \subseteq Entries, single' \subseteq Entries,
             stagedEver' \subseteq Ids, eligible' \subseteq 1 .. born'
      PROVE  WorkerInv'
  BY <1>t, <1>a, <1>f DEF WorkerInv
<1>1. ASSUME NEW severity \in Severities, Publish(severity) PROVE WorkerInv'
  <2>1. StreamGrows
    BY <1>1, PublishStep
  <2>2. /\ born' = born + 1 /\ eligible' \subseteq eligible \cup {born + 1}
        /\ UNCHANGED <<life, pc, cursor, phase, upTo, toStage, single, origin,
                       stagedEver, covered>>
    BY <1>1 DEF Publish, workerVars
  <2>3. eligible' \subseteq 1 .. born'
    BY <1>t, <2>2
  <2> QED
    BY <1>t, <1>f, <2>1, <2>2, <2>3
<1>2. CASE Start
  <2>1. /\ UNCHANGED <<ringVars, born, life, phase, upTo, toStage, single, eligible,
                       stagedEver, covered>>
        /\ pc' = "cycle"
        /\ \/ cursor' = cursor /\ origin' = origin
           \/ cursor' = revision /\ origin' = revision
    BY <1>2 DEF Start, countVars, workerVars
  <2>2. UNCHANGED revision
    BY <2>1 DEF ringVars
  <2> QED
    BY <1>t, <1>p, <2>1, <2>2 DEF WorkerInv
<1>3. CASE Crash
  <2>1. /\ life' \in Owners /\ pc' = "stopped" /\ phase' = "before"
        /\ cursor' = 0 /\ upTo' = 0 /\ origin' = 0 /\ toStage' = {} /\ single' = {}
        /\ UNCHANGED <<born, eligible, stagedEver, covered>> /\ revision' = 0
    BY <1>3 DEF Crash
  <2> QED
    BY <1>t, <1>p, <2>1 DEF WorkerInv
<1>4. CASE Stop \/ BeginCycle \/ ClaimBatch \/ WorkBatch \/ BatchDone
  <2>1. StreamGrows
    BY <1>4, BusStands DEF Stop, BeginCycle, ClaimBatch, WorkBatch, BatchDone, countVars
  <2>2. /\ UNCHANGED <<born, life, cursor, upTo, toStage, single, origin, covered,
                       eligible, stagedEver>>
        /\ pc' \in {"stopped", "cycle", "drain", "sending", "read"} \cup {pc}
        /\ phase' \in {phase, "before"}
    BY <1>4 DEF Stop, BeginCycle, ClaimBatch, WorkBatch, BatchDone, countVars,
                workerVars, historyVars
  <2> QED
    BY <1>t, <1>p, <1>f, <2>1, <2>2
<1>5. CASE CycleFails
  <2>1. StreamGrows
    BY <1>5, BusStands DEF CycleFails
  <2>2. /\ UNCHANGED <<born, life, cursor, upTo, origin, covered, eligible, stagedEver,
                       phase>>
        /\ pc' = "cycle" /\ toStage' = {} /\ single' = {}
    BY <1>5 DEF CycleFails, historyVars
  <2> QED
    BY <1>t, <1>p, <1>f, <2>1, <2>2
<1>6. CASE ReadDelta
  <2>1. /\ StreamGrows /\ upTo' = revision /\ toStage' \subseteq Entries
    BY <1>6, ReadDeltaStep, StreamSteps, EmitStep, BusStands DEF ReadDelta, countVars
  <2>2. /\ UNCHANGED <<born, life, cursor, origin, covered, eligible, stagedEver,
                       phase, single>>
        /\ pc' = "stage"
    BY <1>6 DEF ReadDelta, countVars, historyVars
  <2> QED
    BY <1>t, <1>p, <1>a, <2>1, <2>2 DEF WorkerInv
<1>7. CASE StageChunk \/ StageSingle
  <2>1. StreamGrows
    BY <1>7, BusStands DEF StageChunk, StageSingle, countVars
  <2>2. UNCHANGED <<born, life, cursor, upTo, pc, phase>>
        /\ (StageChunk => single' = single) /\ (StageSingle => toStage' = toStage)
    BY <1>7 DEF StageChunk, StageSingle, countVars
  <2>3. PICK entries \in SUBSET Entries :
            /\ Commit(entries)
            /\ \/ StageChunk /\ toStage' = toStage \ entries
               \/ StageSingle /\ single' = single \ entries
    BY <1>7, StagingSteps
  <2>4. /\ stagedEver' = stagedEver \cup IdsOf(entries) /\ IdsOf(entries) \subseteq Ids
        /\ UNCHANGED <<origin, eligible, covered>>
    BY <2>3, EntriesAreStorable DEF Commit
  <2>5. toStage' \subseteq toStage /\ single' \subseteq single
    BY <2>2, <2>3
  <2> QED
    BY <1>t, <1>p, <1>f, <2>1, <2>2, <2>4, <2>5
<1>8. CASE ChunkFull
  <2>1. StreamGrows
    BY <1>8, BusStands DEF ChunkFull, countVars
  <2>2. PICK chunk \in NextEntries(toStage, BatchSize) :
          single' = chunk /\ toStage' = toStage \ chunk
    BY <1>8 DEF ChunkFull
  <2>3. chunk \subseteq toStage
    BY <2>2, NextEntriesOf
  <2>4. /\ UNCHANGED <<born, life, cursor, upTo, origin, covered, eligible, stagedEver,
                       phase>>
        /\ pc' = "single"
    BY <1>8 DEF ChunkFull, countVars, historyVars
  <2> QED
    BY <1>t, <1>p, <1>f, <2>1, <2>2, <2>3, <2>4
<1>9. CASE OutboxIsFull
  <2>1. StreamGrows
    BY <1>9, EmitStep DEF OutboxIsFull, countVars
  <2>2. /\ UNCHANGED <<born, life, cursor, upTo, origin, covered, eligible, stagedEver>>
        /\ pc' = "drain" /\ phase' = "relief" /\ toStage' = {} /\ single' = {}
    BY <1>9 DEF OutboxIsFull, countVars, historyVars
  <2> QED
    BY <1>t, <1>p, <1>f, <2>1, <2>2
<1>10. CASE CommitCursor
  <2>1. /\ UNCHANGED <<ringVars, born, life, upTo, origin, eligible, stagedEver,
                       toStage, single>>
        /\ pc' = "drain" /\ phase' = "after" /\ cursor' = upTo
        /\ covered' \subseteq covered \cup Passed
        /\ pc = "stage"
    BY <1>10 DEF CommitCursor, countVars
  <2>2. Passed \subseteq 0 .. born
    <3>1. ASSUME NEW r \in cursor + 1 .. upTo PROVE published[r].id \in 0 .. born
      <4>1. r \in 1 .. revision
        BY <1>t
      <4>2. published[r] \in Events /\ published[r].id <= born
        BY <4>1 DEF BusInv, RingsInv, RingIsSuffix
      <4> QED
        BY <1>t, <4>2 DEF Events
    <3> QED
      BY <3>1 DEF Passed
  <2>3. cursor <= upTo /\ UNCHANGED revision
    BY <2>1 DEF DeltaIsCovered, ringVars
  <2> QED
    BY <1>t, <1>p, <2>1, <2>2, <2>3 DEF WorkerInv
<1>11. CASE Timers \/ UNCHANGED vars
  BY <1>11 DEF Timers, vars, siemVars, ringVars, WorkerInv
<1> QED
  BY <1>1, <1>2, <1>3, <1>4, <1>5, <1>6, <1>7, <1>8, <1>9, <1>10, <1>11
     DEF Next, Worker

----------------------------------------------------------------------------
(* As long as the cursor stands, what it has passed stays accounted for.    *)
LEMMA NoLossFrame ==
  ASSUME BusInv, WorkerInv, NoSilentLoss, StreamGrows, UNCHANGED <<cursor, origin>>,
         stagedEver \subseteq stagedEver', covered \subseteq covered'
  PROVE  NoSilentLoss'
<1> SUFFICES ASSUME NEW r \in origin + 1 .. cursor, Selected(published'[r])
             PROVE  published'[r].id \in stagedEver' \cup covered'
  BY DEF NoSilentLoss, Selected
<1>1. r \in 1 .. revision
  BY DEF WorkerInv, BusInv, RingsInv, RingIsSuffix
<1>2. published'[r] = published[r]
  BY <1>1 DEF StreamGrows
<1> QED
  BY <1>2 DEF NoSilentLoss

(* The same for the delta that is being staged.                             *)
LEMMA DeltaFrame ==
  ASSUME BusInv, WorkerInv, DeltaIsCovered, StreamGrows, pc' = "stage" => pc = "stage",
         UNCHANGED <<cursor, upTo, gap>>,
         pc = "stage" => IdsOf(toStage) \cup stagedEver \subseteq IdsOf(toStage') \cup stagedEver'
  PROVE  DeltaIsCovered'
<1> SUFFICES ASSUME pc = "stage", NEW r \in cursor + 1 .. upTo, Selected(published'[r])
             PROVE  gap \/ published'[r].id \in IdsOf(toStage') \cup stagedEver'
  BY DEF DeltaIsCovered, IdsOf, Selected
<1>1. r \in 1 .. revision
  BY DEF WorkerInv, BusInv, RingsInv, RingIsSuffix
<1>2. published'[r] = published[r]
  BY <1>1 DEF StreamGrows
<1> QED
  BY <1>2 DEF DeltaIsCovered

(* The promise, step by step: only the commit of the cursor advances it,    *)
(* and only past what the delta accounts for.                               *)
LEMMA NextNoLoss ==
  ASSUME BusInv, WorkerInv, DeltaIsCovered, NoSilentLoss, [Next]_vars
  PROVE  NoSilentLoss' /\ DeltaIsCovered'
<1>t. /\ cursor \in 0 .. revision /\ upTo \in 0 .. revision /\ origin \in 0 .. cursor
      /\ revision \in Nat
  BY DEF WorkerInv, BusInv, RingsInv, RingIsSuffix
(* Steps outside the staging that leave the cursor alone. *)
<1>f. ASSUME StreamGrows, UNCHANGED <<cursor, origin, stagedEver, covered>>,
             pc' # "stage"
      PROVE  NoSilentLoss' /\ DeltaIsCovered'
  BY <1>f, NoLossFrame DEF DeltaIsCovered
(* Steps that leave the whole account alone. *)
<1>u. ASSUME StreamGrows, UNCHANGED <<cursor, origin, stagedEver, covered, pc, upTo, gap,
                                      toStage>>
      PROVE  NoSilentLoss' /\ DeltaIsCovered'
  BY <1>u, NoLossFrame, DeltaFrame
<1>1. ASSUME NEW severity \in Severities, Publish(severity)
      PROVE  NoSilentLoss' /\ DeltaIsCovered'
  <2>1. StreamGrows
    BY <1>1, PublishStep
  <2> QED
    BY <1>1, <1>u, <2>1 DEF Publish, workerVars
<1>2. CASE Start
  <2>1. /\ StreamGrows /\ pc' = "cycle" /\ UNCHANGED <<stagedEver, covered, ringVars>>
        /\ \/ cursor' = cursor /\ origin' = origin
           \/ cursor' = revision /\ origin' = revision
    BY <1>2, BusStands DEF Start, countVars
  <2>2. CASE cursor' = revision /\ origin' = revision
    BY <1>t, <2>1, <2>2 DEF NoSilentLoss, DeltaIsCovered
  <2> QED
    BY <1>f, <2>1, <2>2
<1>3. CASE Crash
  <2>1. cursor' = 0 /\ origin' = 0 /\ pc' = "stopped"
    BY <1>3 DEF Crash
  <2> QED
    BY <2>1 DEF NoSilentLoss, DeltaIsCovered
<1>4. CASE Stop \/ CycleFails \/ BeginCycle \/ ClaimBatch
  <2>1. StreamGrows
    BY <1>4, BusStands DEF Stop, CycleFails, BeginCycle, ClaimBatch, countVars
  <2>2. pc' # "stage" /\ UNCHANGED <<cursor, origin, stagedEver, covered>>
    BY <1>4 DEF Stop, CycleFails, BeginCycle, ClaimBatch, historyVars
  <2> QED
    BY <1>f, <2>1, <2>2
<1>5. CASE WorkBatch \/ BatchDone
  <2>1. StreamGrows
    BY <1>5, BusStands DEF WorkBatch, BatchDone, countVars
  <2>2. pc' # "stage" /\ UNCHANGED <<cursor, origin, stagedEver, covered>>
    BY <1>5 DEF WorkBatch, BatchDone, historyVars
  <2> QED
    BY <1>f, <2>1, <2>2
<1>6. CASE ReadDelta
  <2>1. StreamGrows
    BY <1>6, EmitStep, BusStands DEF ReadDelta, countVars
  <2>2. UNCHANGED <<cursor, origin, stagedEver, covered>>
    BY <1>6 DEF ReadDelta, historyVars
  <2>3. /\ upTo' = revision
        /\ \A r \in cursor + 1 .. revision :
              Selected(published[r]) => gap' \/ published[r].id \in IdsOf(toStage')
    BY <1>6, ReadDeltaStep
  <2>4. DeltaIsCovered'
    <3> SUFFICES ASSUME NEW r \in cursor + 1 .. revision, Selected(published'[r])
                 PROVE  gap' \/ published'[r].id \in IdsOf(toStage')
      BY <1>t, <2>2, <2>3 DEF DeltaIsCovered, IdsOf, Selected
    <3>1. published'[r] = published[r]
      BY <1>t, <2>1 DEF StreamGrows
    <3> QED
      BY <2>3, <3>1
  <2> QED
    BY <2>1, <2>2, <2>4, NoLossFrame
<1>7. CASE StageChunk \/ StageSingle
  <2>1. StreamGrows
    BY <1>7, BusStands DEF StageChunk, StageSingle, countVars
  <2>2. /\ UNCHANGED <<cursor, upTo, gap, pc>>
        /\ StageSingle => pc = "single"
    BY <1>7 DEF StageChunk, StageSingle
  <2>3. PICK entries \in SUBSET Entries :
            /\ Commit(entries)
            /\ \/ StageChunk /\ toStage' = toStage \ entries
               \/ StageSingle /\ single' = single \ entries
    BY <1>7, StagingSteps
  <2>4. /\ stagedEver' = stagedEver \cup IdsOf(entries)
        /\ UNCHANGED <<origin, covered>>
    BY <2>3 DEF Commit
  <2>5. pc = "stage" => IdsOf(toStage) \cup stagedEver \subseteq IdsOf(toStage') \cup stagedEver'
    BY <2>2, <2>3, <2>4 DEF IdsOf
  <2> QED
    BY <2>1, <2>2, <2>4, <2>5, NoLossFrame, DeltaFrame
<1>8. CASE ChunkFull \/ OutboxIsFull
  <2>1. StreamGrows
    BY <1>8, EmitStep, BusStands DEF ChunkFull, OutboxIsFull, countVars
  <2>2. pc' # "stage" /\ UNCHANGED <<cursor, origin, stagedEver, covered>>
    BY <1>8 DEF ChunkFull, OutboxIsFull, historyVars
  <2> QED
    BY <1>f, <2>1, <2>2
<1>9. CASE CommitCursor
  <2>1. /\ pc = "stage" /\ toStage = {} /\ cursor' = upTo /\ pc' = "drain"
        /\ covered' = (IF gap THEN covered \cup Passed ELSE covered)
        /\ UNCHANGED <<ringVars, origin, stagedEver>>
    BY <1>9 DEF CommitCursor
  <2>2. ASSUME NEW r \in origin + 1 .. upTo, Selected(published[r])
        PROVE  published[r].id \in stagedEver \cup covered'
    <3>1. CASE r \in origin + 1 .. cursor
      BY <2>1, <2>2, <3>1 DEF NoSilentLoss
    <3>2. CASE r \in cursor + 1 .. upTo
      <4>1. gap \/ published[r].id \in stagedEver
        BY <2>1, <2>2, <3>2 DEF DeltaIsCovered, IdsOf
      <4>2. gap => published[r].id \in covered'
        BY <2>1, <3>2 DEF Passed
      <4> QED
        BY <4>1, <4>2
    <3> QED
      BY <1>t, <3>1, <3>2
  <2>3. UNCHANGED published
    BY <2>1 DEF ringVars
  <2> QED
    BY <2>1, <2>2, <2>3 DEF NoSilentLoss, DeltaIsCovered, Selected
<1>10. CASE Timers
  BY <1>10, <1>u, BusStands DEF Timers, siemVars
<1>11. CASE UNCHANGED vars
  BY <1>11, <1>u, BusStands DEF vars, siemVars
<1> QED
  BY <1>1, <1>2, <1>3, <1>4, <1>5, <1>6, <1>7, <1>8, <1>9, <1>10, <1>11
     DEF Next, Worker

----------------------------------------------------------------------------
(* A commit is never undone: see StepKeepsItems and StoreRetains.           *)
LEMMA NextCommitted ==
  ASSUME OutboxInv, WorkerInv, CommittedIsKept, [Next]_vars
  PROVE  CommittedIsKept'
<1>1. Undelivered \cup taken \subseteq (Undelivered \cup taken)'
  BY NextOutboxInv
<1>2. CASE StageChunk \/ StageSingle
  <2>1. PICK entries \in SUBSET Entries : Commit(entries)
    BY <1>2, StagingSteps
  <2>2. /\ stagedEver' = stagedEver \cup IdsOf(entries)
        /\ IdsOf(entries) \subseteq (Undelivered \cup taken)'
    BY <2>1, CommitStep
  <2> QED
    BY <1>1, <2>2 DEF CommittedIsKept
<1>3. CASE UNCHANGED stagedEver
  BY <1>1, <1>3 DEF CommittedIsKept
<1>4. ASSUME NEW severity \in Severities, Publish(severity) PROVE UNCHANGED stagedEver
  BY <1>4 DEF Publish
<1>5. CASE Start \/ Stop \/ Crash \/ CycleFails \/ Timers \/ UNCHANGED vars
  <2>1. UNCHANGED stagedEver
    BY <1>5 DEF Start, Stop, Crash, CycleFails, Timers, vars, siemVars, historyVars
  <2> QED
    BY <1>3, <2>1
<1>6. CASE BeginCycle \/ ClaimBatch \/ WorkBatch \/ BatchDone \/ ReadDelta
  <2>1. UNCHANGED stagedEver
    BY <1>6 DEF BeginCycle, ClaimBatch, WorkBatch, BatchDone, ReadDelta, historyVars
  <2> QED
    BY <1>3, <2>1
<1>7. CASE ChunkFull \/ OutboxIsFull \/ CommitCursor
  <2>1. UNCHANGED stagedEver
    BY <1>7 DEF ChunkFull, OutboxIsFull, CommitCursor, historyVars
  <2> QED
    BY <1>3, <2>1
<1> QED
  BY <1>2, <1>3, <1>4, <1>5, <1>6, <1>7 DEF Next, Worker

----------------------------------------------------------------------------
(* The batch stays leased: the operations of other rows and the passing of  *)
(* leases leave it alone, and a claim returns leased rows only.             *)
LEMMA NextLeased ==
  ASSUME OutboxInv, WorkerInv, BatchIsLeased, OnlyTheLivingHold, [Next]_vars
  PROVE  BatchIsLeased' /\ OnlyTheLivingHold'
<1>t. /\ life \in Owners /\ hand \in [Owners -> SUBSET Ids]
      /\ \A i \in hand[life] : rows[i].state = "leased" /\ rows[i].owner = life
      /\ \A o \in Owners \ {life} : hand[o] = {}
      /\ Owners \subseteq Nat
  BY SizesAreNats
     DEF WorkerInv, OutboxInv, OutboxTypeOK, BatchIsLeased, HoldsLease, OnlyTheLivingHold
<1>g. ASSUME UNCHANGED life, hand' \in [Owners -> SUBSET Ids],
             \A o \in Owners \ {life} : hand'[o] = hand[o],
             \A i \in hand'[life] : rows'[i].state = "leased" /\ rows'[i].owner = life
      PROVE  BatchIsLeased' /\ OnlyTheLivingHold'
  BY <1>t, <1>g DEF BatchIsLeased, HoldsLease, OnlyTheLivingHold
<1>u. ASSUME UNCHANGED <<life, hand, rows>>
      PROVE  BatchIsLeased' /\ OnlyTheLivingHold'
  BY <1>t, <1>g, <1>u
<1>1. ASSUME NEW severity \in Severities, Publish(severity)
      PROVE  UNCHANGED <<life, hand, rows>>
  BY <1>1 DEF Publish, outboxVars
<1>2. CASE Start \/ Stop \/ BeginCycle \/ BatchDone
  <2>1. UNCHANGED <<life, hand, rows>>
    BY <1>2 DEF Start, Stop, BeginCycle, BatchDone, outboxVars, countVars
  <2> QED
    BY <1>u, <2>1
<1>3. CASE ReadDelta \/ ChunkFull \/ OutboxIsFull \/ CommitCursor
  <2>1. UNCHANGED <<life, hand, rows>>
    BY <1>3 DEF ReadDelta, ChunkFull, OutboxIsFull, CommitCursor, outboxVars, countVars
  <2> QED
    BY <1>u, <2>1
<1>4. CASE Timers \/ UNCHANGED vars
  <2>1. UNCHANGED <<life, hand, rows>>
    BY <1>4 DEF Timers, BackoffElapses, LeaseLapses, vars, siemVars, outboxVars
  <2> QED
    BY <1>u, <2>1
<1>5. CASE Crash
  <2>1. life' = life + 1 /\ hand' = [hand EXCEPT ![life] = {}]
    BY <1>5 DEF Crash, DropBatch
  <2>2. \A o \in Owners : hand'[o] = {}
    BY <1>t, <2>1
  <2>3. life' \in Owners
    BY <1>5 DEF Crash
  <2> QED
    BY <2>2, <2>3 DEF BatchIsLeased, OnlyTheLivingHold
<1>6. CASE CycleFails
  <2>1. UNCHANGED life /\ hand' = [hand EXCEPT ![life] = {}]
    BY <1>6 DEF CycleFails, DropBatch
  <2> QED
    BY <1>t, <1>g, <2>1
<1>7. CASE ClaimBatch
  <2>1. Claim(life) /\ UNCHANGED life
    BY <1>7 DEF ClaimBatch, countVars
  <2>2. PICK mine \in Oldest({i \in Ids : rows'[i].state = "leased"
                                          /\ rows'[i].owner = life},
                             ClaimLimit, Created(rows)) :
          hand' = [hand EXCEPT ![life] = mine]
    BY <2>1 DEF Claim
  <2>3. mine \subseteq {i \in Ids : rows'[i].state = "leased" /\ rows'[i].owner = life}
    BY <2>2, OldestOf
  <2> QED
    BY <1>t, <1>g, <2>1, <2>2, <2>3
<1>8. CASE WorkBatch
  <2>1. PICK i \in hand[life] : Send(life, i) \/ Acknowledge(life, i) \/ Retry(life, i)
    BY <1>8 DEF WorkBatch
  <2>2. UNCHANGED life /\ i \in Ids
    BY <1>8, <1>t DEF WorkBatch, countVars
  <2>3. CASE Send(life, i)
    BY <1>u, <2>2, <2>3 DEF Send
  <2>4. CASE Acknowledge(life, i) \/ Retry(life, i)
    <3>1. hand' = [hand EXCEPT ![life] = @ \ {i}]
      BY <2>4 DEF Acknowledge, Retry
    <3>2. \A j \in Ids : j # i /\ rows[j].state = "leased" => rows'[j] = rows[j]
      BY <1>t, <2>2, <2>4, AcknowledgeRows, RetryRows
    <3> QED
      BY <1>t, <1>g, <2>2, <3>1, <3>2
  <2> QED
    BY <2>1, <2>3, <2>4
<1>9. CASE StageChunk \/ StageSingle
  <2>1. PICK entries \in SUBSET Entries : Commit(entries)
    BY <1>9, StagingSteps
  <2>2. /\ UNCHANGED hand
        /\ \A i \in Ids : rows[i].state = "leased" => rows'[i] = rows[i]
    BY <2>1, CommitStep
  <2>3. UNCHANGED life
    BY <1>9 DEF StageChunk, StageSingle, countVars
  <2> QED
    BY <1>t, <1>g, <2>2, <2>3
<1> QED
  BY <1>1, <1>2, <1>3, <1>4, <1>5, <1>6, <1>7, <1>8, <1>9, <1>u DEF Next, Worker

----------------------------------------------------------------------------
LEMMA InitSInv == Init => SInv
<1> SUFFICES ASSUME Init PROVE SInv
  OBVIOUS
<1>1. OutboxInv
  BY InitOutboxInv DEF Init
<1>2. BusInv
  BY RingsInitially, SizesAreNats DEF Init, RingsInit, BusInv
<1>3. WorkerInv
  BY SizesAreNats DEF Init, RingsInit, WorkerInv, PcValues
<1>4. DeltaIsCovered /\ NoSilentLoss /\ CommittedIsKept
  BY DEF Init, DeltaIsCovered, NoSilentLoss, CommittedIsKept
<1>5. BatchIsLeased /\ OnlyTheLivingHold
  BY <1>3 DEF Init, OutboxInit, BatchIsLeased, OnlyTheLivingHold, WorkerInv
<1> QED
  BY <1>1, <1>2, <1>3, <1>4, <1>5 DEF SInv

LEMMA NextSInv == SInv /\ [Next]_vars => SInv'
<1> SUFFICES ASSUME SInv, [Next]_vars PROVE SInv'
  OBVIOUS
<1> USE DEF SInv
<1>1. BusInv'
  BY StreamSteps, CrashBus DEF StreamGrows
<1>2. OutboxInv' /\ WorkerInv'
  BY NextOutboxInv, NextWorkerInv
<1>3. NoSilentLoss' /\ DeltaIsCovered'
  BY NextNoLoss
<1>4. CommittedIsKept' /\ BatchIsLeased' /\ OnlyTheLivingHold'
  BY NextCommitted, NextLeased
<1> QED
  BY <1>1, <1>2, <1>3, <1>4

LEMMA Invariance == Spec => []SInv
BY InitSInv, NextSInv, PTL DEF Spec

(* The variables keep their types and the cursor never leads the bus        *)
(* (commit_bus_cursor).                                                     *)
THEOREM TypeCorrect == Spec => []STypeOK
<1>1. SInv => STypeOK
  <2> SUFFICES ASSUME SInv PROVE STypeOK
    OBVIOUS
  <2>1. RingsTypeOK
    BY RingsAreTyped DEF SInv, BusInv
  <2>2. IdsOf(toStage \cup single) \subseteq Ids
    BY DEF SInv, WorkerInv, IdsOf, Entries
  <2> QED
    BY <2>1, <2>2 DEF SInv, WorkerInv, OutboxInv, STypeOK
<1> QED
  BY <1>1, Invariance, PTL

(* The cursor never passes a selected event that is neither committed nor   *)
(* accounted for by a gap receipt (_stage_bus_delta, commit_bus_cursor).    *)
THEOREM NoSilentLossHolds == Spec => []NoSilentLoss
<1>1. SInv => NoSilentLoss
  BY DEF SInv
<1> QED
  BY <1>1, Invariance, PTL

(* No crash, retry, replay or pruning loses what enqueue_many committed.    *)
THEOREM CommittedHolds == Spec => []CommittedIsKept
<1>1. SInv => CommittedIsKept
  BY DEF SInv
<1> QED
  BY <1>1, Invariance, PTL

(* _drain_outbox never settles an item whose lease it does not hold.        *)
THEOREM LeasedHolds == Spec => []BatchIsLeased
<1>1. SInv => BatchIsLeased
  BY DEF SInv
<1> QED
  BY <1>1, Invariance, PTL

(* The outbox stays bounded under the forwarder as well.                    *)
THEOREM RetentionHolds == Spec => []RetentionIsBounded
<1>1. SInv => RetentionIsBounded
  BY DEF SInv, OutboxInv
<1> QED
  BY <1>1, Invariance, PTL

-----------------------------------------------------------------------------
(***************************************************************************)
(* The forwarder implements ExportContract.  What is needed beyond SInv:    *)
(* an event has one revision, and is eligible only if it is selected and    *)
(* was published while the cursor was enrolled (StreamOK); nothing is       *)
(* stored before it is born (StoredOK); and what is about to be staged is   *)
(* still on the bus, not passed by the cursor (StagingOK).                  *)
(***************************************************************************)
StreamOK ==
    /\ \A r, q \in 1 .. revision :
          published[r].id = published[q].id => r = q \/ published[r].id = 0
    /\ \A r \in cursor + 1 .. revision :
          published[r].id \in covered => published[r].id = 0
    /\ \A r \in 1 .. revision :
          published[r].id \in eligible => Selected(published[r]) /\ enrolled

StoredOK == \A i \in EventIds : i \in Stored \cup taken => i <= born

Seen(i) == \E r \in cursor + 1 .. revision : published[r].id = i

StagingOK ==
    /\ \A x \in toStage \cup single :
          x.id \in EventIds => \E r \in cursor + 1 .. upTo : published[r].id = x.id
    /\ pc # "single" => single = {}
    /\ pc \notin {"stage", "single"} => toStage = {}

RefInv == StreamOK /\ StoredOK /\ StagingOK

(* The fate of an event, one test after the other. *)
Class(row) == IF row.state \in {"pending", "leased"} THEN "queued" ELSE row.state

FateOf(i) ==
    IF i > born THEN "unborn"
    ELSE IF i \notin eligible THEN "ignored"
    ELSE IF i \in taken THEN "delivered"
    ELSE IF Class(rows[i]) = "dead_letter" THEN "abandoned"
    ELSE IF Class(rows[i]) = "queued" THEN "durable"
    ELSE IF i \in covered THEN "reported"
    ELSE IF Seen(i) THEN "volatile" ELSE "forgotten"

LEMMA EventIdsAreIds == EventIds \subseteq Ids /\ EventIds \subseteq Nat /\ 0 \notin EventIds
BY SizesAreNats DEF EventIds

LEMMA FateIsFateOf == SInv => \A i \in EventIds : Fate(i) = FateOf(i)
<1> SUFFICES ASSUME SInv, NEW i \in EventIds PROVE Fate(i) = FateOf(i)
  OBVIOUS
<1>1. i \in Ids /\ i \in Nat /\ born \in Nat /\ eligible \subseteq 1 .. born
  BY EventIdsAreIds, SizesAreNats DEF SInv, BusInv, WorkerInv
<1>2. /\ rows[i].state \in {"none", "pending", "leased", "dead_letter", "delivered"}
      /\ rows[i].state = "none" <=> rows[i] = NoRow
      /\ rows[i].state = "delivered" => i \in taken
  BY <1>1 DEF SInv, OutboxInv, OutboxTypeOK, RowsSound, DeliveredWasTaken, InState, Row, NoRow
<1>3. /\ i \in Stored <=> rows[i].state # "none"
      /\ i \in InState({"pending", "leased"}) <=> rows[i].state \in {"pending", "leased"}
  BY <1>1, <1>2 DEF Stored, InState
<1>4. CASE i > born
  BY <1>4, <1>1 DEF Fate, FateOf
<1>5. CASE i <= born /\ i \notin eligible
  BY <1>5, <1>1 DEF Fate, FateOf
<1>6. CASE i \in eligible /\ i \in taken
  BY <1>6, <1>1 DEF Fate, FateOf
<1>7. CASE i \in eligible /\ i \notin taken
  <2>1. ~(i > born) /\ i <= born
    BY <1>1, <1>7
  <2>2. CASE rows[i].state = "dead_letter"
    BY <1>7, <1>3, <2>1, <2>2 DEF Fate, FateOf, Class
  <2>3. CASE rows[i].state \in {"pending", "leased"}
    BY <1>7, <1>3, <2>1, <2>3 DEF Fate, FateOf, Class
  <2>4. CASE rows[i].state = "none" /\ i \in covered
    BY <1>7, <1>3, <2>1, <2>4 DEF Fate, FateOf, Class
  <2>5. CASE rows[i].state = "none" /\ i \notin covered
    BY <1>7, <1>3, <2>1, <2>5 DEF Fate, FateOf, Class, Seen
  <2> QED
    BY <1>2, <1>7, <2>2, <2>3, <2>4, <2>5
<1> QED
  BY <1>1, <1>4, <1>5, <1>6, <1>7

LEMMA FateIsFateOfNext == SInv' => (\A i \in EventIds : Fate(i) = FateOf(i))'
BY FateIsFateOf, PTL

(* Every event of S moves from one fate to another, the others stay.        *)
FatesMove(S, a, b) ==
    /\ S \subseteq EventIds
    /\ \A i \in S : FateOf(i) = a
    /\ \A i \in EventIds : FateOf(i)' = IF i \in S THEN b ELSE FateOf(i)

FatesStay == \A i \in EventIds : FateOf(i)' = FateOf(i)

LEMMA MoveIsMove ==
  ASSUME SInv, SInv', NEW S, NEW a, NEW b, FatesMove(S, a, b)
  PROVE  S \subseteq EventIds /\ Contract!Move(S, a, b)
<1>1. \A i \in EventIds : Fate(i) = FateOf(i) /\ Fate(i)' = FateOf(i)'
  BY FateIsFateOf, FateIsFateOfNext
<1>2. \A i \in S : [j \in EventIds |-> Fate(j)][i] = a
  BY <1>1 DEF FatesMove
<1>3. [j \in EventIds |-> Fate(j)]'
        = [j \in EventIds |-> IF j \in S THEN b ELSE [k \in EventIds |-> Fate(k)][j]]
  BY <1>1 DEF FatesMove
<1> QED
  BY <1>2, <1>3 DEF FatesMove, Contract!Move

LEMMA StayIsStutter ==
  ASSUME SInv, SInv', FatesStay, UNCHANGED life
  PROVE  UNCHANGED <<[i \in EventIds |-> Fate(i)], life - 1>>
BY FateIsFateOf, FateIsFateOfNext DEF FatesStay

----------------------------------------------------------------------------
(* One more publication: a new event, or one of the forwarder's own.        *)
LEMMA AppendStream ==
  ASSUME BusInv, WorkerInv, StreamOK, NEW e \in Events, AppendEvent(e),
         UNCHANGED <<cursor, covered, enrolled>>,
         \/ e.id = 0 /\ UNCHANGED <<born, eligible>>
         \/ /\ e.id = born + 1 /\ born' = born + 1
            /\ eligible' = IF enrolled /\ Selected(e) THEN eligible \cup {born + 1}
                           ELSE eligible
  PROVE  /\ StreamOK'
         /\ \A i \in EventIds : Seen(i)' <=> Seen(i) \/ i = e.id
<1>t. /\ revision \in Nat /\ cursor \in 0 .. revision /\ born \in Nat
      /\ eligible \subseteq 1 .. born /\ covered \subseteq 0 .. born
      /\ \A r \in 1 .. revision : published[r].id \in 0 .. born
  <2>1. \A r \in 1 .. revision : published[r] \in Events /\ published[r].id <= born
    BY DEF BusInv, RingsInv, RingIsSuffix
  <2>2. \A r \in 1 .. revision : published[r].id \in 0 .. MaxEvents
    BY <2>1 DEF Events
  <2> QED
    BY <2>1, <2>2, SizesAreNats DEF BusInv, WorkerInv, RingsInv, RingIsSuffix
<1>1. /\ revision' = revision + 1 /\ published'[revision'] = e
      /\ \A r \in 1 .. revision : published'[r] = published[r]
  BY AppendPublishes DEF BusInv, RingsInv
<1>2. e.id = 0 \/ e.id = born + 1
  OBVIOUS
<1>3. \A r \in 1 .. revision' : \/ r = revision' /\ published'[r] = e
                                \/ r \in 1 .. revision /\ published'[r] = published[r]
  BY <1>t, <1>1
<1>4. ASSUME NEW r \in 1 .. revision', NEW q \in 1 .. revision',
             published'[r].id = published'[q].id
      PROVE  r = q \/ published'[r].id = 0
  <2>1. CASE r = revision' /\ q \in 1 .. revision
    <3>1. published'[q].id \in 0 .. born /\ published'[r].id = e.id
      BY <1>t, <1>1, <2>1
    <3> QED
      BY <1>t, <1>2, <1>4, <3>1
  <2>2. CASE q = revision' /\ r \in 1 .. revision
    <3>1. published'[r].id \in 0 .. born /\ published'[q].id = e.id
      BY <1>t, <1>1, <2>2
    <3> QED
      BY <1>t, <1>2, <1>4, <3>1
  <2>3. CASE r \in 1 .. revision /\ q \in 1 .. revision
    BY <1>1, <1>4, <2>3 DEF StreamOK
  <2> QED
    BY <1>3, <2>1, <2>2, <2>3
<1>5. ASSUME NEW r \in cursor + 1 .. revision', published'[r].id \in covered
      PROVE  published'[r].id = 0
  <2>1. CASE r = revision'
    <3>1. e.id \in 0 .. born
      BY <1>1, <1>5, <1>t, <2>1
    <3> QED
      BY <1>1, <1>2, <1>t, <2>1, <3>1
  <2>2. CASE r \in cursor + 1 .. revision
    <3>1. r \in 1 .. revision
      BY <1>t, <2>2
    <3> QED
      BY <1>1, <1>5, <2>2, <3>1 DEF StreamOK
  <2> QED
    BY <1>t, <1>1, <2>1, <2>2
<1>6. ASSUME NEW r \in 1 .. revision', published'[r].id \in eligible'
      PROVE  Selected(published'[r]) /\ enrolled
  <2>1. CASE r = revision'
    <3>1. e.id \in eligible'
      BY <1>1, <1>6, <2>1
    <3>2. e.id \notin eligible
      BY <1>t, <1>2
    <3>3. Selected(e) /\ enrolled
      BY <3>1, <3>2
    <3> QED
      BY <1>1, <2>1, <3>3
  <2>2. CASE r \in 1 .. revision
    <3>1. published'[r] = published[r] /\ published[r].id # born + 1
      BY <1>t, <1>1, <2>2
    <3>2. published[r].id \in eligible
      BY <1>6, <3>1
    <3> QED
      BY <2>2, <3>1, <3>2 DEF StreamOK
  <2> QED
    BY <1>3, <2>1, <2>2
<1>7. StreamOK'
  BY <1>4, <1>5, <1>6 DEF StreamOK, Selected
<1>8. ASSUME NEW i \in EventIds PROVE Seen(i)' <=> Seen(i) \/ i = e.id
  <2>1. \A r \in cursor + 1 .. revision : r \in 1 .. revision /\ r \in cursor + 1 .. revision'
    BY <1>t, <1>1
  <2>2. Seen(i) => Seen(i)'
    BY <1>1, <2>1 DEF Seen
  <2>3. i = e.id => Seen(i)'
    <3>1. revision' \in cursor + 1 .. revision'
      BY <1>t, <1>1
    <3> QED
      BY <1>1, <3>1 DEF Seen
  <2>4. Seen(i)' => Seen(i) \/ i = e.id
    <3> SUFFICES ASSUME NEW r \in cursor + 1 .. revision', published'[r].id = i
                 PROVE  Seen(i) \/ i = e.id
      BY DEF Seen
    <3>1. CASE r = revision'
      BY <1>1, <3>1
    <3>2. CASE r \in cursor + 1 .. revision
      BY <1>1, <2>1, <3>2 DEF Seen
    <3> QED
      BY <1>t, <1>1, <3>1, <3>2
  <2> QED
    BY <2>2, <2>3, <2>4
<1> QED
  BY <1>7, <1>8

(* What the forwarder says about itself concerns no event.                  *)
LEMMA EmitStream ==
  ASSUME BusInv, WorkerInv, StreamOK, NEW severity \in {"MEDIUM", "HIGH"}, Emit(severity),
         UNCHANGED <<cursor, covered, enrolled, born, eligible>>
  PROVE  /\ StreamOK'
         /\ \A i \in EventIds : Seen(i)' <=> Seen(i)
<1> DEFINE e == [id |-> 0, severity |-> severity, own |-> TRUE]
<1>1. e \in Events /\ e.id = 0
  BY SizesAreNats DEF Events
<1>2. CASE revision < MaxRevision
  <2>1. AppendEvent(e)
    BY <1>2 DEF Emit
  <2> HIDE DEF e
  <2> QED
    BY <1>1, <2>1, AppendStream, EventIdsAreIds
<1>3. CASE ~(revision < MaxRevision)
  BY <1>3 DEF Emit, ringVars, StreamOK, Seen, Selected
<1> QED
  BY <1>2, <1>3

(* What a read of the bus hands to the staging was published after the      *)
(* cursor.                                                                  *)
LEMMA ReadDeltaSeen ==
  ASSUME BusInv, WorkerInv, ReadDelta
  PROVE  \A x \in toStage' : x.id \in EventIds =>
            \E r \in cursor + 1 .. revision : published[r].id = x.id
<1> DEFINE delta == RecordsSince(cursor)
           receipt == [id |-> GapId(delta.current), stamp |-> 2 * born + 1]
<1>t. /\ RingsInv(Events) /\ revision \in Nat /\ cursor \in 0 .. revision
      /\ Len(ring) \in Nat
  BY DEF BusInv, RingsInv, RingIsSuffix, WorkerInv
<1>1. /\ {x.revision : x \in delta.records} \subseteq cursor + 1 .. revision
      /\ \A x \in delta.records : x.event = published[x.revision]
  BY <1>t, DeltaExactAt
<1>2. /\ delta.current = revision
      /\ delta.overflow <=> revision - cursor > Len(ring)
  BY <1>t, DeltaCases
<1>3. toStage' \subseteq EntriesIn(delta.records) \cup (IF delta.overflow THEN {receipt} ELSE {})
  BY DEF ReadDelta
<1>4. delta.overflow => receipt.id \notin EventIds
  <2>1. delta.overflow => revision > 0
    BY <1>2, <1>t
  <2> QED
    BY <1>2, <1>t, <2>1, SizesAreNats DEF GapId, EventIds
<1> HIDE DEF delta, receipt
<1>5. ASSUME NEW x \in EntriesIn(delta.records)
      PROVE  \E r \in cursor + 1 .. revision : published[r].id = x.id
  <2>1. PICK y \in delta.records : x.id = y.event.id
    BY <1>5 DEF EntriesIn
  <2> QED
    BY <1>1, <2>1
<1> QED
  BY <1>3, <1>4, <1>5

(* The delta in hand stays what it was while the stream grows.              *)
LEMMA StagingFrame ==
  ASSUME WorkerInv, BusInv, StagingOK, StreamGrows, UNCHANGED <<cursor, upTo>>,
         toStage' \cup single' \subseteq toStage \cup single,
         pc' # "single" => single' = {}, pc' \notin {"stage", "single"} => toStage' = {}
  PROVE  StagingOK'
<1>1. ASSUME NEW x \in toStage' \cup single', x.id \in EventIds
      PROVE  \E r \in cursor + 1 .. upTo : published'[r].id = x.id
  <2>1. PICK r \in cursor + 1 .. upTo : published[r].id = x.id
    BY <1>1 DEF StagingOK
  <2>2. r \in 1 .. revision
    BY DEF WorkerInv, BusInv, RingsInv, RingIsSuffix
  <2> QED
    BY <2>1, <2>2 DEF StreamGrows
<1> QED
  BY <1>1 DEF StagingOK, EventIds

----------------------------------------------------------------------------
(* What the steps do to the outbox, seen from the contract.                 *)
OutboxQuiet == UNCHANGED taken /\ \A i \in Ids : Class(rows'[i]) = Class(rows[i])

LEMMA ClaimIsQuiet == ASSUME SInv, ClaimBatch PROVE OutboxQuiet
<1>1. OutboxInv /\ life \in Owners /\ Claim(life)
  BY DEF SInv, WorkerInv, ClaimBatch
<1>2. UNCHANGED taken
  BY <1>1 DEF Claim
<1>3. \A i \in Ids : /\ rows[i].state \in {"delivered", "dead_letter", "none"} =>
                            rows'[i] = rows[i]
                     /\ rows[i].state \in {"pending", "leased"} =>
                            rows'[i].state \in {"pending", "leased"}
  BY <1>1, ClaimRows
<1>4. \A i \in Ids : rows[i].state \in {"none", "pending", "leased", "dead_letter", "delivered"}
  BY <1>1 DEF OutboxInv, OutboxTypeOK, Row
<1> QED
  BY <1>2, <1>3, <1>4 DEF OutboxQuiet, Class

(* One item is taken by the transport, settled as taken, or put back.       *)
LEMMA WorkMoves ==
  ASSUME SInv, WorkBatch
  PROVE  \E i \in Ids :
            /\ Class(rows[i]) = "queued"
            /\ \/ rows' = rows /\ taken' = taken \cup {i}
               \/ /\ taken' = taken
                  /\ \A j \in Ids \ taken : Class(rows'[j]) = Class(rows[j])
                  /\ \A j \in Ids : Class(rows[j]) = "none" => Class(rows'[j]) = "none"
               \/ /\ taken' = taken
                  /\ \A j \in Ids \ {i} : Class(rows'[j]) = Class(rows[j])
                  /\ Class(rows'[i]) \in {"queued", "dead_letter"}
<1>1. OutboxInv /\ life \in Owners /\ hand \in [Owners -> SUBSET Ids]
  BY DEF SInv, WorkerInv, OutboxInv, OutboxTypeOK
<1>2. PICK i \in hand[life] : Send(life, i) \/ Acknowledge(life, i) \/ Retry(life, i)
  BY DEF WorkBatch
<1>3. i \in Ids /\ Class(rows[i]) = "queued"
  BY <1>1, <1>2 DEF SInv, BatchIsLeased, HoldsLease, Class
<1>4. CASE Send(life, i)
  BY <1>3, <1>4 DEF Send
<1>5. CASE Acknowledge(life, i)
  <2>1. i \in taken /\ taken' = taken
    BY <1>1, <1>5 DEF Acknowledge, OutboxInv, AcceptedWasTaken
  <2>2. \A j \in Ids : \/ rows'[j] = rows[j]
                       \/ j = i
                       \/ rows'[j] = NoRow /\ rows[j].state = "delivered"
    BY <1>1, <1>3, <1>5, AcknowledgeRows
  <2>3. \A j \in Ids : rows[j].state = "delivered" => j \in taken
    BY <1>1 DEF OutboxInv, DeliveredWasTaken, InState
  <2>4. \A j \in Ids \ taken : Class(rows'[j]) = Class(rows[j])
    BY <2>1, <2>2, <2>3
  <2>5. \A j \in Ids : Class(rows[j]) = "none" => Class(rows'[j]) = "none"
    BY <1>3, <2>2 DEF Class, NoRow
  <2> QED
    BY <1>3, <2>1, <2>4, <2>5
<1>6. CASE Retry(life, i)
  <2>1. taken' = taken
    BY <1>6 DEF Retry
  <2>2. /\ \A j \in Ids : j # i => rows'[j] = rows[j]
        /\ rows'[i].state \in {"pending", "dead_letter"}
    BY <1>1, <1>3, <1>6, RetryRows
  <2>3. Class(rows'[i]) \in {"queued", "dead_letter"}
    BY <2>2 DEF Class
  <2> QED
    BY <1>3, <2>1, <2>2, <2>3
<1> QED
  BY <1>2, <1>4, <1>5, <1>6

(* A commit puts what it covers in the queue, unless it is there already.   *)
LEMMA StagingMoves ==
  ASSUME SInv, StageChunk \/ StageSingle
  PROVE  /\ UNCHANGED <<taken, eligible, covered>>
         /\ toStage' \cup single' \subseteq toStage \cup single
         /\ \E entries \in SUBSET (toStage \cup single) :
               \A j \in Ids :
                  \/ Class(rows'[j]) = Class(rows[j])
                  \/ Class(rows[j]) = "delivered"
                  \/ /\ j \in IdsOf(entries)
                     /\ Class(rows[j]) = "none" /\ Class(rows'[j]) = "queued"
<1>1. PICK entries \in SUBSET Entries :
            /\ Commit(entries)
            /\ \/ /\ StageChunk
                  /\ entries \subseteq toStage /\ toStage' = toStage \ entries
               \/ /\ StageSingle
                  /\ entries \subseteq single /\ single' = single \ entries
  BY StagingSteps DEF SInv
<1> DEFINE S == IdsOf(entries)
           stamps == StampsOf(entries)
<1>2. S \in SUBSET Ids /\ stamps \in [S -> Nat] /\ Store(S, stamps) /\ OutboxInv
      /\ UNCHANGED <<eligible, covered>>
  BY <1>1, EntriesAreStorable DEF Commit, SInv
<1> HIDE DEF S, stamps
<1>3. UNCHANGED taken
  BY <1>2 DEF Store
<1>4. toStage' \cup single' \subseteq toStage \cup single
  BY <1>1 DEF StageChunk, StageSingle
<1>5. ASSUME NEW j \in Ids
      PROVE  \/ Class(rows'[j]) = Class(rows[j])
             \/ Class(rows[j]) = "delivered"
             \/ j \in S /\ Class(rows[j]) = "none" /\ Class(rows'[j]) = "queued"
  <2>1. /\ RowStep(j)
        /\ rows[j].state = "leased" => rows'[j] = rows[j]
        /\ \/ rows'[j] \in {rows[j], NoRow}
           \/ j \in S /\ rows'[j] = NewRow(stamps[j])
    <3>1. /\ RowsStep
          /\ \A i \in Ids : rows[i].state = "leased" => rows'[i] = rows[i]
          /\ \A i \in Ids : \/ rows'[i] \in {rows[i], NoRow}
                            \/ i \in S /\ rows'[i] = NewRow(stamps[i])
      BY <1>2, StoreRows
    <3> QED
      BY <3>1 DEF RowsStep
  <2>2. CASE rows[j] = NoRow /\ \E n \in Nat : rows'[j] = NewRow(n)
    BY <2>1, <2>2 DEF Class, NoRow, NewRow
  <2>3. CASE rows[j].state \in {"leased", "delivered"} /\ rows'[j] = NoRow
    BY <2>1, <2>3 DEF Class
  <2>4. CASE Requeued(j, rows'[j])
    BY <2>1, <2>4 DEF Requeued, Class, NoRow, NewRow
  <2> QED
    BY <2>1, <2>2, <2>3, <2>4 DEF RowStep
<1>6. entries \in SUBSET (toStage \cup single)
  BY <1>1
<1> QED
  BY <1>2, <1>3, <1>4, <1>5, <1>6 DEF S

(* Every other step leaves rows and transport alone.                        *)
LEMMA OtherSteps ==
  ASSUME [Next]_vars, ~ClaimBatch, ~WorkBatch, ~StageChunk, ~StageSingle
  PROVE  UNCHANGED <<rows, taken>>
<1>1. ASSUME NEW severity \in Severities, Publish(severity) PROVE UNCHANGED <<rows, taken>>
  BY <1>1 DEF Publish, outboxVars
<1>2. CASE Start \/ Stop \/ Crash \/ CycleFails \/ BeginCycle \/ BatchDone
  BY <1>2 DEF Start, Stop, Crash, CycleFails, BeginCycle, BatchDone, DropBatch, outboxVars
<1>3. CASE ReadDelta \/ ChunkFull \/ OutboxIsFull \/ CommitCursor
  BY <1>3 DEF ReadDelta, ChunkFull, OutboxIsFull, CommitCursor, outboxVars
<1>4. CASE Timers \/ UNCHANGED vars
  BY <1>4 DEF Timers, BackoffElapses, LeaseLapses, vars, outboxVars
<1> QED
  BY <1>1, <1>2, <1>3, <1>4 DEF Next, Worker

LEMMA StoredIsClass ==
  SInv => \A i \in Ids : i \in Stored <=> Class(rows[i]) # "none"
BY DEF SInv, OutboxInv, RowsSound, Stored, Class, NoRow

LEMMA StoredIsClassNext ==
  SInv' => (\A i \in Ids : i \in Stored <=> Class(rows[i]) # "none")'
BY StoredIsClass, PTL

LEMMA NextStoredOK ==
  ASSUME SInv, SInv', RefInv, [Next]_vars
  PROVE  StoredOK'
<1>1. \A i \in Ids : /\ i \in Stored <=> Class(rows[i]) # "none"
                     /\ i \in Stored' <=> Class(rows'[i]) # "none"
  BY StoredIsClass, StoredIsClassNext
<1>2. ASSUME NEW i \in Ids, i \in Stored' \cup taken'
      PROVE  i \in Stored \cup taken \/ \E x \in toStage \cup single : x.id = i
  <2>1. CASE ClaimBatch
    BY <1>1, <1>2, <2>1, ClaimIsQuiet DEF OutboxQuiet
  <2>2. CASE WorkBatch
    <3>1. PICK k \in Ids :
            /\ Class(rows[k]) = "queued"
            /\ \/ rows' = rows /\ taken' = taken \cup {k}
               \/ /\ taken' = taken
                  /\ \A j \in Ids : Class(rows[j]) = "none" => Class(rows'[j]) = "none"
               \/ /\ taken' = taken
                  /\ \A j \in Ids \ {k} : Class(rows'[j]) = Class(rows[j])
      BY <2>2, WorkMoves
    <3> QED
      BY <1>1, <1>2, <3>1
  <2>3. CASE StageChunk \/ StageSingle
    <3>1. taken' = taken
      BY <2>3, StagingMoves
    <3>2. PICK entries \in SUBSET (toStage \cup single) :
               \A j \in Ids :
                  \/ Class(rows'[j]) = Class(rows[j])
                  \/ Class(rows[j]) = "delivered"
                  \/ j \in IdsOf(entries)
      BY <2>3, StagingMoves
    <3> QED
      BY <1>1, <1>2, <3>1, <3>2 DEF IdsOf
  <2>4. CASE UNCHANGED <<rows, taken>>
    BY <1>1, <1>2, <2>4
  <2> QED
    BY <2>1, <2>2, <2>3, <2>4, OtherSteps
<1>3. /\ born \in Nat /\ born' \in Nat /\ born <= born'
      /\ revision \in Nat /\ cursor \in 0 .. revision /\ upTo \in 0 .. revision
      /\ \A r \in 1 .. revision : published[r].id <= born
  <2>1. /\ born \in Nat /\ born' \in Nat
        /\ revision \in Nat /\ cursor \in 0 .. revision /\ upTo \in 0 .. revision
        /\ \A r \in 1 .. revision : published[r].id <= born
    BY SizesAreNats DEF SInv, BusInv, WorkerInv, RingsInv, RingIsSuffix
  <2>2. CASE Crash
    BY <2>1, <2>2, CrashBus DEF SInv
  <2>3. CASE ~Crash
    BY <2>1, <2>3, StreamSteps DEF SInv, StreamGrows
  <2> QED
    BY <2>1, <2>2, <2>3
<1>4. ASSUME NEW i \in EventIds, i \in Stored' \cup taken' PROVE i <= born'
  <2>1. i \in Ids /\ i \in Nat
    BY EventIdsAreIds
  <2>2. CASE i \in Stored \cup taken
    <3>1. i <= born
      BY <2>2 DEF RefInv, StoredOK
    <3> QED
      BY <1>3, <2>1, <3>1
  <2>3. CASE \E x \in toStage \cup single : x.id = i
    <3>1. PICK r \in cursor + 1 .. upTo : published[r].id = i
      BY <2>3 DEF RefInv, StagingOK
    <3>2. r \in 1 .. revision
      BY <1>3
    <3>3. i <= born
      BY <1>3, <3>1, <3>2
    <3> QED
      BY <1>3, <2>1, <3>3
  <2> QED
    BY <1>2, <1>4, <2>1, <2>2, <2>3
<1> QED
  BY <1>4 DEF StoredOK, EventIds

LEMMA NextStagingOK ==
  ASSUME SInv, SInv', StagingOK, [Next]_vars
  PROVE  StagingOK'
<1>i. BusInv /\ WorkerInv /\ BusInv'
  BY DEF SInv
<1>1. ASSUME toStage' = {}, single' = {} PROVE StagingOK'
  BY <1>1 DEF StagingOK
<1>2. ASSUME StreamGrows, UNCHANGED <<cursor, upTo>>,
             toStage' \cup single' \subseteq toStage \cup single,
             pc' # "single" => single' = {}, pc' \notin {"stage", "single"} => toStage' = {}
      PROVE  StagingOK'
  BY <1>i, <1>2, StagingFrame
<1>3. CASE \E severity \in Severities : Publish(severity)
  <2> PICK severity \in Severities : Publish(severity)
    BY <1>3
  <2>1. StreamGrows
    BY <1>i, PublishStep
  <2>2. UNCHANGED <<cursor, upTo, toStage, single, pc>>
    BY DEF Publish, workerVars
  <2> QED
    BY <1>2, <2>1, <2>2 DEF StagingOK
<1>4. CASE Start \/ Stop \/ BeginCycle \/ ClaimBatch
  <2>1. pc \notin {"stage", "single"} /\ UNCHANGED <<toStage, single>>
    BY <1>4 DEF Start, Stop, BeginCycle, ClaimBatch, workerVars
  <2> QED
    BY <1>1, <2>1 DEF StagingOK
<1>5. CASE WorkBatch \/ BatchDone
  <2>1. pc \notin {"stage", "single"} /\ UNCHANGED <<toStage, single>>
    BY <1>5 DEF WorkBatch, BatchDone, workerVars
  <2> QED
    BY <1>1, <2>1 DEF StagingOK
<1>6. CASE Crash \/ CycleFails \/ OutboxIsFull
  BY <1>1, <1>6 DEF Crash, CycleFails, OutboxIsFull
<1>7. CASE ReadDelta
  <2>1. /\ \A x \in toStage' : x.id \in EventIds =>
              \E r \in cursor + 1 .. revision : published[r].id = x.id
        /\ upTo' = revision /\ StreamGrows
    BY <1>i, <1>7, ReadDeltaSeen, ReadDeltaStep, StreamSteps DEF ReadDelta, Crash
  <2>2. pc = "read" /\ pc' = "stage" /\ UNCHANGED <<cursor, single>>
    BY <1>7 DEF ReadDelta
  <2>3. single' = {}
    BY <2>2 DEF StagingOK
  <2>4. ASSUME NEW x \in toStage', x.id \in EventIds
        PROVE  \E r \in cursor' + 1 .. upTo' : published'[r].id = x.id
    <3>1. PICK r \in cursor + 1 .. revision : published[r].id = x.id
      BY <2>1, <2>4
    <3>2. r \in 1 .. revision
      BY <1>i DEF WorkerInv, BusInv, RingsInv, RingIsSuffix
    <3> QED
      BY <2>1, <2>2, <3>1, <3>2 DEF StreamGrows
  <2> QED
    BY <2>2, <2>3, <2>4 DEF StagingOK, EventIds
<1>8. CASE StageChunk \/ StageSingle
  <2>1. toStage' \cup single' \subseteq toStage \cup single
    BY <1>8, StagingMoves
  <2>2. StreamGrows /\ UNCHANGED <<cursor, upTo, pc>>
    BY <1>i, <1>8, BusStands DEF StageChunk, StageSingle, countVars
  <2>3. \/ pc = "stage" /\ UNCHANGED single
        \/ pc = "single" /\ UNCHANGED toStage
    BY <1>8 DEF StageChunk, StageSingle
  <2> QED
    BY <1>2, <2>1, <2>2, <2>3 DEF StagingOK
<1>9. CASE ChunkFull
  <2>1. /\ pc' = "single" /\ toStage' \cup single' \subseteq toStage \cup single
        /\ UNCHANGED <<ringVars, born, cursor, upTo>>
    <3>1. PICK chunk \in NextEntries(toStage, BatchSize) :
              single' = chunk /\ toStage' = toStage \ chunk
      BY <1>9 DEF ChunkFull
    <3>2. chunk \subseteq toStage
      BY NextEntriesOf
    <3> QED
      BY <1>9, <3>1, <3>2 DEF ChunkFull, countVars
  <2> QED
    BY <1>i, <1>2, <2>1, BusStands
<1>10. CASE CommitCursor
  <2>1. pc = "stage" /\ toStage = {} /\ UNCHANGED <<toStage, single>>
    BY <1>10 DEF CommitCursor
  <2> QED
    BY <1>1, <2>1 DEF StagingOK
<1>11. CASE Timers \/ UNCHANGED vars
  <2>1. UNCHANGED <<ringVars, born, cursor, upTo, toStage, single, pc>>
    BY <1>11 DEF Timers, vars, siemVars
  <2> QED
    BY <1>i, <1>2, <2>1, BusStands DEF StagingOK
<1> QED
  BY <1>3, <1>4, <1>5, <1>6, <1>7, <1>8, <1>9, <1>10, <1>11 DEF Next, Worker

(* A publication of another module, and what Seen says after it.            *)
LEMMA PublishStream ==
  ASSUME SInv, StreamOK, NEW severity \in Severities, Publish(severity)
  PROVE  /\ StreamOK'
         /\ \A i \in EventIds : Seen(i)' <=> Seen(i) \/ i = born + 1
<1> DEFINE e == [id |-> born + 1, severity |-> severity, own |-> FALSE]
<1>1. /\ born \in 0 .. MaxEvents /\ MaxEvents \in Nat /\ born < MaxEvents
  BY SizesAreNats DEF SInv, BusInv, Publish
<1>2. e \in Events /\ e.id = born + 1
  BY <1>1 DEF Events
<1>3. /\ AppendEvent(e) /\ born' = born + 1
      /\ eligible' = IF enrolled /\ Selected(e) THEN eligible \cup {born + 1} ELSE eligible
      /\ UNCHANGED <<cursor, covered, enrolled>>
  BY DEF Publish
<1> HIDE DEF e
<1> QED
  BY <1>2, <1>3, AppendStream DEF SInv

(* A read and a full outbox add no event to the stream.                     *)
LEMMA ReportStream ==
  ASSUME SInv, StreamOK, ReadDelta \/ OutboxIsFull
  PROVE  /\ StreamOK'
         /\ \A i \in EventIds : Seen(i)' <=> Seen(i)
<1>1. UNCHANGED <<cursor, covered, enrolled, born, eligible>>
  BY DEF ReadDelta, OutboxIsFull, countVars, historyVars
<1>2. CASE \E severity \in {"MEDIUM", "HIGH"} : Emit(severity)
  BY <1>1, <1>2, EmitStream DEF SInv
<1>3. CASE UNCHANGED ringVars
  BY <1>1, <1>3 DEF ringVars, StreamOK, Seen, Selected
<1> QED
  BY <1>2, <1>3 DEF ReadDelta, OutboxIsFull

LEMMA NextStreamOK ==
  ASSUME SInv, SInv', StreamOK, [Next]_vars
  PROVE  StreamOK'
<1>t. /\ revision \in Nat /\ cursor \in 0 .. revision /\ upTo \in 0 .. revision
  BY DEF SInv, WorkerInv, BusInv, RingsInv, RingIsSuffix
<1>1. ASSUME UNCHANGED <<ringVars, cursor, covered, enrolled, eligible>>
      PROVE  StreamOK'
  BY <1>1 DEF ringVars, StreamOK, Selected
<1>2. CASE \E severity \in Severities : Publish(severity)
  BY <1>2, PublishStream
<1>3. CASE ReadDelta \/ OutboxIsFull
  BY <1>3, ReportStream
<1>4. CASE Start
  <2>1. /\ UNCHANGED <<ringVars, eligible, covered>> /\ enrolled' = TRUE
        /\ cursor' = IF enrolled THEN cursor ELSE revision
    BY <1>4 DEF Start
  <2>2. UNCHANGED <<published, revision>>
    BY <2>1 DEF ringVars
  <2>3. cursor' + 1 .. revision' \subseteq cursor + 1 .. revision
    BY <1>t, <2>1, <2>2
  <2> QED
    BY <2>1, <2>2, <2>3 DEF StreamOK, Selected
<1>5. CASE Crash
  <2>1. revision' = 0 /\ cursor' = 0
    BY <1>5 DEF Crash
  <2>2. 1 .. revision' = {} /\ cursor' + 1 .. revision' = {}
    BY <2>1
  <2> QED
    BY <2>2 DEF StreamOK
<1>6. CASE CommitCursor
  <2>1. /\ UNCHANGED <<published, revision, enrolled, eligible>>
        /\ cursor' = upTo /\ covered' \subseteq covered \cup Passed /\ cursor <= upTo
    BY <1>6 DEF CommitCursor, ringVars, SInv, DeltaIsCovered
  <2>2. ASSUME NEW r \in upTo + 1 .. revision, published[r].id \in covered \cup Passed
        PROVE  published[r].id = 0
    <3>1. r \in cursor + 1 .. revision /\ r \in 1 .. revision
      BY <1>t, <2>1
    <3>2. CASE published[r].id \in covered
      BY <3>1, <3>2 DEF StreamOK
    <3>3. CASE published[r].id \in Passed
      <4>1. PICK q \in cursor + 1 .. upTo : published[q].id = published[r].id
        BY <3>3 DEF Passed
      <4>2. q \in 1 .. revision /\ q # r
        BY <1>t
      <4> QED
        BY <3>1, <4>1, <4>2 DEF StreamOK
    <3> QED
      BY <2>2, <3>2, <3>3
  <2> QED
    BY <2>1, <2>2 DEF StreamOK, Selected
<1>7. CASE Stop \/ CycleFails \/ BeginCycle \/ ClaimBatch \/ WorkBatch \/ BatchDone
  <2>1. UNCHANGED <<ringVars, cursor, covered, enrolled, eligible>>
    BY <1>7 DEF Stop, CycleFails, BeginCycle, ClaimBatch, WorkBatch, BatchDone, historyVars
  <2> QED
    BY <1>1, <2>1
<1>8. CASE StageChunk \/ StageSingle \/ ChunkFull
  <2>1. UNCHANGED <<ringVars, cursor, covered, enrolled, eligible>>
    BY <1>8, StagingMoves DEF StageChunk, StageSingle, ChunkFull, historyVars
  <2> QED
    BY <1>1, <2>1
<1>9. CASE Timers \/ UNCHANGED vars
  <2>1. UNCHANGED <<ringVars, cursor, covered, enrolled, eligible>>
    BY <1>9 DEF Timers, vars, siemVars
  <2> QED
    BY <1>1, <2>1
<1> QED
  BY <1>2, <1>3, <1>4, <1>5, <1>6, <1>7, <1>8, <1>9 DEF Next, Worker

LEMMA InitRefInv == Init => RefInv
<1> SUFFICES ASSUME Init PROVE RefInv
  OBVIOUS
<1>1. StreamOK /\ StagingOK
  BY DEF Init, RingsInit, StreamOK, StagingOK
<1>2. Stored = {} /\ taken = {}
  BY DEF Init, OutboxInit, Stored
<1> QED
  BY <1>1, <1>2 DEF RefInv, StoredOK

LEMMA NextRefInv == SInv /\ RefInv /\ [Next]_vars => SInv' /\ RefInv'
<1> SUFFICES ASSUME SInv, RefInv, [Next]_vars PROVE SInv' /\ RefInv'
  OBVIOUS
<1>1. SInv'
  BY NextSInv
<1>2. StreamOK /\ StagingOK
  BY DEF RefInv
<1>3. StreamOK' /\ StagingOK' /\ StoredOK'
  BY <1>1, <1>2, NextStreamOK, NextStagingOK, NextStoredOK
<1> QED
  BY <1>1, <1>3 DEF RefInv

----------------------------------------------------------------------------
(* The fate of an event hangs on whether it is born and eligible, then on   *)
(* the transport, the class of its row, the receipts and the bus, in turn.  *)
Unsettled(i) == i \in eligible /\ i \notin taken

LEMMA FateFrame ==
  ASSUME NEW i \in EventIds,
         i > born' <=> i > born,
         i \in eligible' <=> i \in eligible,
         i \in eligible => (i \in taken' <=> i \in taken),
         Unsettled(i) => Class(rows'[i]) = Class(rows[i]),
         Unsettled(i) /\ Class(rows[i]) \notin {"dead_letter", "queued"} =>
            /\ i \in covered' <=> i \in covered
            /\ i \notin covered => (Seen(i)' <=> Seen(i))
  PROVE  FateOf(i)' = FateOf(i)
<1>1. CASE ~Unsettled(i)
  BY <1>1 DEF FateOf, Unsettled
<1>2. CASE Unsettled(i) /\ Class(rows[i]) \in {"dead_letter", "queued"}
  BY <1>2 DEF FateOf, Unsettled
<1>3. CASE Unsettled(i) /\ Class(rows[i]) \notin {"dead_letter", "queued"}
  BY <1>3 DEF FateOf, Unsettled
<1> QED
  BY <1>1, <1>2, <1>3

LEMMA MoveOfVolatile ==
  ASSUME SInv, SInv', NEW S, NEW b, FatesMove(S, "volatile", b)
  PROVE  S \in SUBSET Contract!Volatile /\ Contract!Move(S, "volatile", b)
<1>1. S \subseteq EventIds /\ Contract!Move(S, "volatile", b)
  BY MoveIsMove
<1> QED
  BY <1>1 DEF Contract!Move, Contract!Volatile

(* The steps the contract does not see.                                     *)
LEMMA QuietSteps ==
  ASSUME SInv, RefInv,
         \/ Start \/ Stop \/ CycleFails \/ BeginCycle \/ ClaimBatch \/ BatchDone
         \/ ReadDelta \/ ChunkFull \/ OutboxIsFull \/ Timers \/ UNCHANGED vars
  PROVE  FatesStay /\ UNCHANGED life
<1>1. UNCHANGED <<born, eligible, covered, life>>
  <2>1. CASE Start \/ Stop \/ CycleFails \/ BeginCycle \/ ClaimBatch \/ BatchDone
    BY <2>1 DEF Start, Stop, CycleFails, BeginCycle, ClaimBatch, BatchDone,
                countVars, historyVars
  <2>2. CASE ReadDelta \/ ChunkFull \/ OutboxIsFull
    BY <2>2 DEF ReadDelta, ChunkFull, OutboxIsFull, countVars, historyVars
  <2>3. CASE Timers \/ UNCHANGED vars
    BY <2>3 DEF Timers, vars, siemVars
  <2> QED
    BY <2>1, <2>2, <2>3
<1>2. OutboxQuiet
  <2>1. CASE ClaimBatch
    BY <2>1, ClaimIsQuiet
  <2>2. CASE Start \/ Stop \/ CycleFails \/ BeginCycle \/ BatchDone
    BY <2>2 DEF Start, Stop, CycleFails, BeginCycle, BatchDone, DropBatch, outboxVars,
                OutboxQuiet
  <2>3. CASE ReadDelta \/ ChunkFull \/ OutboxIsFull \/ Timers \/ UNCHANGED vars
    BY <2>3 DEF ReadDelta, ChunkFull, OutboxIsFull, Timers, BackoffElapses, LeaseLapses,
                vars, outboxVars, OutboxQuiet
  <2> QED
    BY <2>1, <2>2, <2>3
<1>3. ASSUME NEW i \in EventIds, i \in eligible PROVE Seen(i)' <=> Seen(i)
  <2>1. CASE ReadDelta \/ OutboxIsFull
    BY <2>1, ReportStream DEF RefInv
  <2>2. CASE Start
    <3>1. UNCHANGED ringVars /\ cursor' = IF enrolled THEN cursor ELSE revision
      BY <2>2 DEF Start
    <3>2. CASE enrolled
      BY <3>1, <3>2 DEF Seen, ringVars
    <3>3. CASE ~enrolled
      <4>1. revision \in Nat /\ cursor \in 0 .. revision
        BY DEF SInv, WorkerInv, BusInv, RingsInv, RingIsSuffix
      <4>2. ~Seen(i)
        BY <1>3, <3>3, <4>1 DEF Seen, RefInv, StreamOK
      <4>3. revision' + 1 .. revision' = {} /\ cursor' = revision'
        BY <3>1, <3>3, <4>1 DEF ringVars
      <4> QED
        BY <4>2, <4>3 DEF Seen
    <3> QED
      BY <3>2, <3>3
  <2>3. CASE Stop \/ CycleFails \/ BeginCycle \/ ClaimBatch \/ BatchDone
    BY <2>3 DEF Stop, CycleFails, BeginCycle, ClaimBatch, BatchDone, ringVars, Seen
  <2>4. CASE ChunkFull \/ Timers \/ UNCHANGED vars
    BY <2>4 DEF ChunkFull, Timers, vars, siemVars, ringVars, Seen
  <2> QED
    BY <2>1, <2>2, <2>3, <2>4
<1>4. ASSUME NEW i \in EventIds PROVE FateOf(i)' = FateOf(i)
  <2>1. i \in Ids
    BY EventIdsAreIds
  <2> QED
    BY <1>1, <1>2, <1>3, <2>1, FateFrame DEF OutboxQuiet, Unsettled
<1> QED
  BY <1>1, <1>4 DEF FatesStay

(* Another module publishes: the event is of interest or it is not.         *)
LEMMA PublishMoves ==
  ASSUME SInv, RefInv, NEW severity \in Severities, Publish(severity)
  PROVE  /\ born + 1 \in EventIds /\ UNCHANGED life
         /\ \E b \in {"ignored", "volatile"} : FatesMove({born + 1}, "unborn", b)
<1> DEFINE event == [id |-> born + 1, severity |-> severity, own |-> FALSE]
<1>t. /\ born \in 0 .. MaxEvents /\ MaxEvents \in Nat /\ born < MaxEvents
      /\ eligible \subseteq 1 .. born /\ covered \subseteq 0 .. born
  BY SizesAreNats DEF SInv, BusInv, WorkerInv, Publish
<1>n. PICK n \in EventIds : n = born + 1
  BY <1>t DEF EventIds
<1>1. /\ n \in EventIds /\ n \in Ids /\ n > born
      /\ n \notin eligible /\ n \notin covered /\ EventIds \subseteq Nat
  BY <1>t, <1>n, EventIdsAreIds DEF EventIds
<1>2. /\ born' = n /\ UNCHANGED <<rows, taken, covered, life>>
      /\ eligible' = IF enrolled /\ Selected(event) THEN eligible \cup {n} ELSE eligible
  BY <1>n DEF Publish, outboxVars
<1>3. \A i \in EventIds : Seen(i)' <=> Seen(i) \/ i = n
  BY <1>n, PublishStream DEF RefInv
<1>4. Class(rows[n]) = "none" /\ n \notin taken
  BY <1>1, <1>t, StoredIsClass DEF RefInv, StoredOK
<1> HIDE DEF event
<1>5. \A i \in EventIds \ {n} : i > n <=> i > born
  BY <1>t, <1>n, <1>1
<1>6. ASSUME NEW i \in EventIds \ {n} PROVE FateOf(i)' = FateOf(i)
  <2>1. i > born' <=> i > born
    BY <1>2, <1>5
  <2>2. i \in eligible' <=> i \in eligible
    BY <1>2
  <2>3. Seen(i)' <=> Seen(i)
    BY <1>3
  <2> QED
    BY <1>2, <2>1, <2>2, <2>3, FateFrame
<1>7. FateOf(n) = "unborn"
  BY <1>1, <1>n DEF FateOf
<1>8. FateOf(n)' = IF enrolled /\ Selected(event) THEN "volatile" ELSE "ignored"
  <2>1. ~(n > born')
    BY <1>n, <1>t, <1>1, <1>2
  <2> QED
    BY <1>1, <1>2, <1>3, <1>4 DEF FateOf
<1> QED
  BY <1>n, <1>1, <1>2, <1>6, <1>7, <1>8 DEF FatesMove

(* A worked batch item: taken by the transport, given up, or no change.     *)
LEMMA WorkIsAStep ==
  ASSUME SInv, SInv', RefInv, WorkBatch
  PROVE  /\ UNCHANGED life
         /\ \/ FatesStay
            \/ \E k \in EventIds : \/ FatesMove({k}, "durable", "delivered")
                                   \/ FatesMove({k}, "durable", "abandoned")
<1>1. /\ UNCHANGED <<born, eligible, covered, life>>
      /\ \A i \in EventIds : Seen(i)' <=> Seen(i)
  BY DEF WorkBatch, countVars, historyVars, ringVars, Seen
<1>2. PICK k \in Ids :
            /\ Class(rows[k]) = "queued"
            /\ \/ rows' = rows /\ taken' = taken \cup {k}
               \/ /\ taken' = taken
                  /\ \A j \in Ids \ taken : Class(rows'[j]) = Class(rows[j])
               \/ /\ taken' = taken
                  /\ \A j \in Ids \ {k} : Class(rows'[j]) = Class(rows[j])
                  /\ Class(rows'[k]) \in {"queued", "dead_letter"}
  BY WorkMoves
<1>3. ASSUME NEW i \in EventIds, i # k \/ ~Unsettled(i) \/ Class(rows'[i]) = Class(rows[i]),
             i # k \/ ~Unsettled(i) \/ taken' = taken
      PROVE  FateOf(i)' = FateOf(i)
  <2>1. i \in Ids
    BY EventIdsAreIds
  <2>2. i \in eligible => (i \in taken' <=> i \in taken)
    BY <1>2, <1>3 DEF Unsettled
  <2>3. Unsettled(i) => Class(rows'[i]) = Class(rows[i])
    BY <1>2, <1>3, <2>1 DEF Unsettled
  <2> QED
    BY <1>1, <2>2, <2>3, FateFrame
<1>4. ASSUME k \in EventIds, Unsettled(k)
      PROVE  /\ FateOf(k) = "durable"
             /\ taken' = taken \cup {k} => FateOf(k)' = "delivered"
             /\ taken' = taken /\ Class(rows'[k]) = "dead_letter" => FateOf(k)' = "abandoned"
  <2>1. ~(k > born) /\ ~(k > born')
    BY <1>1, <1>4, SizesAreNats DEF Unsettled, SInv, WorkerInv, BusInv
  <2> QED
    BY <1>1, <1>2, <1>4, <2>1 DEF FateOf, Unsettled
<1>5. CASE ~(k \in EventIds /\ Unsettled(k))
  BY <1>1, <1>3, <1>5 DEF FatesStay
<1>6. CASE k \in EventIds /\ Unsettled(k) /\ rows' = rows /\ taken' = taken \cup {k}
  <2>1. FatesMove({k}, "durable", "delivered")
    BY <1>3, <1>4, <1>6 DEF FatesMove
  <2> QED
    BY <1>1, <1>6, <2>1
<1>7. CASE /\ k \in EventIds /\ Unsettled(k) /\ taken' = taken
           /\ \A j \in Ids \ {k} : Class(rows'[j]) = Class(rows[j])
           /\ Class(rows'[k]) \in {"queued", "dead_letter"}
  <2>1. CASE Class(rows'[k]) = "queued"
    BY <1>1, <1>2, <1>3, <1>7, <2>1 DEF FatesStay
  <2>2. CASE Class(rows'[k]) = "dead_letter"
    <3>1. FatesMove({k}, "durable", "abandoned")
      BY <1>3, <1>4, <1>7, <2>2 DEF FatesMove
    <3> QED
      BY <1>1, <1>7, <3>1
  <2> QED
    BY <1>7, <2>1, <2>2
<1>8. CASE /\ k \in EventIds /\ Unsettled(k) /\ taken' = taken
           /\ \A j \in Ids \ taken : Class(rows'[j]) = Class(rows[j])
  <2>1. Class(rows'[k]) = Class(rows[k])
    BY <1>8 DEF Unsettled
  <2> QED
    BY <1>1, <1>3, <1>8, <2>1 DEF FatesStay
<1> QED
  BY <1>2, <1>5, <1>6, <1>7, <1>8

(* A commit makes the volatile events it covers durable.                    *)
LEMMA StagingIsAStep ==
  ASSUME SInv, SInv', RefInv, StageChunk \/ StageSingle
  PROVE  UNCHANGED life /\ \E S : FatesMove(S, "volatile", "durable")
<1>1. /\ UNCHANGED <<born, life, cursor, ringVars>>
      /\ UNCHANGED <<taken, eligible, covered>>
  BY StagingMoves DEF StageChunk, StageSingle, countVars
<1>2. PICK entries \in SUBSET (toStage \cup single) :
               \A j \in Ids :
                  \/ Class(rows'[j]) = Class(rows[j])
                  \/ Class(rows[j]) = "delivered"
                  \/ /\ j \in IdsOf(entries)
                     /\ Class(rows[j]) = "none" /\ Class(rows'[j]) = "queued"
  BY StagingMoves
<1>3. \A i \in EventIds : Seen(i)' <=> Seen(i)
  BY <1>1 DEF ringVars, Seen
<1>4. \A i \in Ids : Class(rows[i]) = "delivered" => i \in taken
  BY DEF SInv, OutboxInv, DeliveredWasTaken, InState, Class
<1>5. ASSUME NEW i \in EventIds, i \in IdsOf(entries) PROVE Seen(i) /\ i \notin covered
  <2>1. PICK r \in cursor + 1 .. upTo : published[r].id = i
    BY <1>2, <1>5 DEF IdsOf, RefInv, StagingOK
  <2>2. r \in cursor + 1 .. revision
    BY DEF SInv, WorkerInv, BusInv, RingsInv, RingIsSuffix
  <2>3. i # 0
    BY EventIdsAreIds
  <2> QED
    BY <2>1, <2>2, <2>3 DEF Seen, RefInv, StreamOK
<1> DEFINE New(i) == /\ Unsettled(i)
                     /\ Class(rows[i]) = "none" /\ Class(rows'[i]) = "queued"
           S == {i \in EventIds : New(i)}
<1>6. ASSUME NEW i \in EventIds, New(i)
      PROVE  FateOf(i) = "volatile" /\ FateOf(i)' = "durable"
  <2>1. i \in Ids /\ i \in IdsOf(entries)
    BY <1>2, <1>4, <1>6, EventIdsAreIds
  <2>2. ~(i > born) /\ ~(i > born')
    BY <1>1, <1>6, SizesAreNats DEF Unsettled, SInv, WorkerInv, BusInv
  <2> QED
    BY <1>1, <1>5, <1>6, <2>1, <2>2 DEF FateOf, Unsettled
<1>7. ASSUME NEW i \in EventIds, ~New(i) PROVE FateOf(i)' = FateOf(i)
  <2>1. Unsettled(i) => Class(rows'[i]) = Class(rows[i])
    BY <1>2, <1>4, <1>7, EventIdsAreIds DEF Unsettled
  <2> HIDE DEF New
  <2> QED
    BY <1>1, <1>3, <2>1, FateFrame
<1>8. FatesMove(S, "volatile", "durable")
  BY <1>6, <1>7 DEF FatesMove
<1> QED
  BY <1>1, <1>8

(* The cursor passes events: those in a reported gap are accounted for, and *)
(* without a gap they are committed already.                                *)
LEMMA CommitIsAStep ==
  ASSUME SInv, SInv', RefInv, CommitCursor
  PROVE  UNCHANGED life /\ \E S : FatesMove(S, "volatile", "reported")
<1>1. /\ UNCHANGED <<rows, taken, published, revision, eligible, born, life>>
      /\ cursor' = upTo /\ pc = "stage" /\ toStage = {}
      /\ covered' = IF gap THEN covered \cup Passed ELSE covered
  BY DEF CommitCursor, outboxVars, ringVars, countVars
<1>t. /\ revision \in Nat /\ cursor \in 0 .. revision /\ upTo \in 0 .. revision
      /\ cursor <= upTo
  BY <1>1 DEF SInv, WorkerInv, BusInv, RingsInv, RingIsSuffix, DeltaIsCovered
<1>2. ASSUME NEW i \in EventIds
      PROVE  /\ i \in Passed => Seen(i)
             /\ i \notin Passed => (Seen(i)' <=> Seen(i))
  <2>1. \A r \in cursor + 1 .. revision : r \in cursor + 1 .. upTo \/ r \in upTo + 1 .. revision
    BY <1>t
  <2>2. \A r \in cursor + 1 .. upTo : r \in cursor + 1 .. revision
    BY <1>t
  <2>3. \A r \in upTo + 1 .. revision : r \in cursor + 1 .. revision
    BY <1>t
  <2>4. Seen(i)' <=> \E r \in upTo + 1 .. revision : published[r].id = i
    BY <1>1 DEF Seen
  <2>5. i \in Passed <=> \E r \in cursor + 1 .. upTo : published[r].id = i
    BY DEF Passed
  <2> QED
    BY <2>1, <2>2, <2>3, <2>4, <2>5 DEF Seen
<1> DEFINE Open(i) == Unsettled(i) /\ Class(rows[i]) \notin {"dead_letter", "queued"}
           S == {i \in EventIds : Open(i) /\ i \notin covered /\ i \in Passed}
<1>3. ASSUME NEW i \in EventIds, Open(i), i \in Passed PROVE gap
  <2>1. PICK r \in cursor + 1 .. upTo : published[r].id = i
    BY <1>3 DEF Passed
  <2>2. r \in 1 .. revision
    BY <1>t
  <2>3. Selected(published[r])
    BY <1>3, <2>1, <2>2 DEF Unsettled, RefInv, StreamOK
  <2>4. gap \/ i \in stagedEver
    BY <1>1, <2>1, <2>3 DEF SInv, DeltaIsCovered, IdsOf
  <2>5. i \in Ids /\ i \notin Undelivered \cup taken
    BY <1>3, EventIdsAreIds DEF Unsettled, Undelivered, InState, Class
  <2> QED
    BY <2>4, <2>5 DEF SInv, CommittedIsKept
<1>4. ASSUME NEW i \in EventIds, i \in S
      PROVE  FateOf(i) = "volatile" /\ FateOf(i)' = "reported"
  <2>1. gap /\ i \in covered' /\ Seen(i) /\ Unsettled(i)
    BY <1>1, <1>2, <1>3, <1>4
  <2> HIDE DEF S
  <2>2. ~(i > born) /\ ~(i > born')
    BY <1>1, <2>1, SizesAreNats DEF Unsettled, SInv, WorkerInv, BusInv
  <2> USE DEF S
  <2> QED
    BY <1>1, <1>4, <2>1, <2>2 DEF FateOf, Unsettled
<1>5. ASSUME NEW i \in EventIds, i \notin S PROVE FateOf(i)' = FateOf(i)
  <2>1. Open(i) => (i \in covered' <=> i \in covered)
    BY <1>1, <1>5
  <2>2. Open(i) /\ i \notin covered => (Seen(i)' <=> Seen(i))
    BY <1>2, <1>5
  <2> HIDE DEF S
  <2> QED
    BY <1>1, <2>1, <2>2, FateFrame
<1>6. FatesMove(S, "volatile", "reported")
  BY <1>4, <1>5 DEF FatesMove
<1> QED
  BY <1>1, <1>6

(* The bus is lost with the process.                                        *)
LEMMA CrashIsAStep ==
  ASSUME SInv, SInv', RefInv, Crash
  PROVE  /\ life' = life + 1
         /\ FatesMove({i \in EventIds : FateOf(i) = "volatile"}, "volatile", "forgotten")
<1>1. /\ UNCHANGED <<rows, taken, born, eligible, covered>>
      /\ life' = life + 1 /\ revision' = 0 /\ cursor' = 0
  BY DEF Crash, DropBatch
<1>2. \A i \in EventIds : ~Seen(i)'
  <2>1. cursor' + 1 .. revision' = {}
    BY <1>1
  <2> QED
    BY <2>1 DEF Seen
<1>3. ASSUME NEW i \in EventIds, FateOf(i) = "volatile" PROVE FateOf(i)' = "forgotten"
  BY <1>1, <1>2, <1>3 DEF FateOf
<1>4. ASSUME NEW i \in EventIds, FateOf(i) # "volatile" PROVE FateOf(i)' = FateOf(i)
  BY <1>1, <1>2, <1>4 DEF FateOf
<1> QED
  BY <1>1, <1>3, <1>4 DEF FatesMove

----------------------------------------------------------------------------
LEMMA ImplementationStep ==
  ASSUME SInv, RefInv, [Next]_vars
  PROVE  [Contract!Next]_<<[i \in EventIds |-> Fate(i)], life - 1>>
<1>0. SInv'
  BY NextSInv
<1>1. CASE \E severity \in Severities : Publish(severity)
  <2>1. PICK severity \in Severities : Publish(severity)
    BY <1>1
  <2>2. PICK b \in {"ignored", "volatile"} : FatesMove({born + 1}, "unborn", b)
    BY <2>1, PublishMoves
  <2>3. Contract!Move({born + 1}, "unborn", b)
    BY <1>0, <2>2, MoveIsMove
  <2>4. Contract!Publish /\ UNCHANGED life
    BY <2>1, <2>3, PublishMoves DEF Contract!Publish
  <2> QED
    BY <2>4 DEF Contract!Next
<1>2. CASE WorkBatch
  <2>1. UNCHANGED life
    BY <1>0, <1>2, WorkIsAStep
  <2>2. CASE FatesStay
    BY <1>0, <2>1, <2>2, StayIsStutter
  <2>3. CASE \E k \in EventIds : FatesMove({k}, "durable", "delivered")
    <3>1. Contract!Deliver
      BY <1>0, <2>3, MoveIsMove DEF Contract!Deliver
    <3> QED
      BY <2>1, <3>1 DEF Contract!Next
  <2>4. CASE \E k \in EventIds : FatesMove({k}, "durable", "abandoned")
    <3>1. Contract!GiveUp
      BY <1>0, <2>4, MoveIsMove DEF Contract!GiveUp
    <3> QED
      BY <2>1, <3>1 DEF Contract!Next
  <2> QED
    BY <1>0, <1>2, <2>2, <2>3, <2>4, WorkIsAStep
<1>3. CASE StageChunk \/ StageSingle
  <2>1. PICK S : FatesMove(S, "volatile", "durable")
    BY <1>0, <1>3, StagingIsAStep
  <2>2. Contract!Persist /\ UNCHANGED life
    BY <1>0, <1>3, <2>1, StagingIsAStep, MoveOfVolatile DEF Contract!Persist
  <2> QED
    BY <2>2 DEF Contract!Next
<1>4. CASE CommitCursor
  <2>1. PICK S : FatesMove(S, "volatile", "reported")
    BY <1>0, <1>4, CommitIsAStep
  <2>2. Contract!ReportGap /\ UNCHANGED life
    BY <1>0, <1>4, <2>1, CommitIsAStep, MoveOfVolatile DEF Contract!ReportGap
  <2> QED
    BY <2>2 DEF Contract!Next
<1>5. CASE Crash
  <2> DEFINE S == {i \in EventIds : FateOf(i) = "volatile"}
  <2>1. life' = life + 1 /\ FatesMove(S, "volatile", "forgotten")
    BY <1>0, <1>5, CrashIsAStep
  <2>2. Contract!Volatile = S
    BY FateIsFateOf DEF Contract!Volatile
  <2> HIDE DEF S
  <2>3. Contract!Move(Contract!Volatile, "volatile", "forgotten")
    BY <1>0, <2>1, <2>2, MoveIsMove
  <2>4. life' - 1 = (life - 1) + 1
    BY <2>1, SizesAreNats DEF SInv, WorkerInv
  <2>5. Contract!ProcessDies
    BY <2>3, <2>4 DEF Contract!ProcessDies
  <2> QED
    BY <2>5 DEF Contract!Next
<1>6. CASE \/ Start \/ Stop \/ CycleFails \/ BeginCycle \/ ClaimBatch \/ BatchDone
           \/ ReadDelta \/ ChunkFull \/ OutboxIsFull \/ Timers \/ UNCHANGED vars
  <2>1. FatesStay /\ UNCHANGED life
    BY <1>6, QuietSteps
  <2> QED
    BY <1>0, <2>1, StayIsStutter
<1> QED
  BY <1>1, <1>2, <1>3, <1>4, <1>5, <1>6 DEF Next, Worker

(* The forwarder on its bus and outbox implements the contract of an        *)
(* at-least-once exporter: an event of interest is only lost as part of a   *)
(* reported gap or with the bus of a process that dies, and what is         *)
(* committed is delivered or given up (_delivery_cycle, _stage_bus_delta).  *)
THEOREM RefinementHolds == Spec => ImplementsContract
<1>1. Init => Contract!Init
  <2> SUFFICES ASSUME Init PROVE Contract!Init
    OBVIOUS
  <2>1. \A i \in EventIds : Fate(i) = "unborn"
    <3>1. \A i \in EventIds : i > 0
      BY SizesAreNats DEF EventIds
    <3> QED
      BY <3>1, FateIsFateOf, InitSInv DEF FateOf, Init
  <2>2. life - 1 = 0
    BY DEF Init
  <2> QED
    BY <2>1, <2>2 DEF Contract!Init
<1>2. SInv /\ RefInv /\ [Next]_vars =>
        [Contract!Next]_<<[i \in EventIds |-> Fate(i)], life - 1>>
  BY ImplementationStep
<1>3. Init => SInv /\ RefInv
  BY InitSInv, InitRefInv
<1> QED
  BY <1>1, <1>2, <1>3, NextRefInv, PTL DEF Spec, ImplementsContract, Contract!Spec

(* What the contract says of a process that never died: no event of         *)
(* interest is off the bus without being committed, settled or reported, in *)
(* spite of failed cycles, stops, a full outbox and overflows               *)
(* (_delivery_cycle, _stage_bus_delta, commit_bus_cursor).                  *)
Remembered == life = 1 => \A i \in EventIds : Fate(i) # "forgotten"

THEOREM NothingForgotten == Spec => []Remembered
<1> DEFINE v == <<[i \in EventIds |-> Fate(i)], life - 1>>
           Kept0 == /\ life - 1 \in Nat
                    /\ life - 1 = 0 =>
                          \A i \in EventIds : [j \in EventIds |-> Fate(j)][i] # "forgotten"
<1>1. Contract!Init => Kept0
  BY DEF Contract!Init
<1>2. Kept0 /\ [Contract!Next]_v => Kept0'
  <2> SUFFICES ASSUME Kept0, [Contract!Next]_v PROVE Kept0'
    OBVIOUS
  <2> DEFINE f == [j \in EventIds |-> Fate(j)]
             g == [j \in EventIds |-> Fate(j)]'
  <2>1. CASE UNCHANGED v
    BY <2>1
  <2>2. CASE Contract!ProcessDies
    BY <2>2 DEF Contract!ProcessDies
  <2>3. ASSUME UNCHANGED (life - 1), NEW S, NEW a,
               NEW b \in {"ignored", "volatile", "durable", "delivered", "abandoned", "reported"},
               Contract!Move(S, a, b)
        PROVE  Kept0'
    <3>1. \A i \in EventIds : g[i] = b \/ g[i] = f[i]
      BY <2>3 DEF Contract!Move
    <3> QED
      BY <2>3, <3>1
  <2>4. CASE /\ UNCHANGED (life - 1)
             /\ \/ Contract!Publish \/ Contract!Persist \/ Contract!Deliver
                \/ Contract!GiveUp \/ Contract!ReportGap
    BY <2>3, <2>4 DEF Contract!Publish, Contract!Persist, Contract!Deliver,
                      Contract!GiveUp, Contract!ReportGap
  <2> QED
    BY <2>1, <2>2, <2>4 DEF Contract!Next
<1>3. Kept0 => Remembered
  BY DEF Remembered
<1> QED
  BY <1>1, <1>2, <1>3, RefinementHolds, PTL DEF ImplementsContract, Contract!Spec
=============================================================================
