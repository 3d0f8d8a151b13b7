------------------------- MODULE EventRingsProofs --------------------------
(***************************************************************************)
(* What both rings of a bus hold after any number of publications, for any  *)
(* ring sizes, and why every cursor read of them is exact.  E stands for    *)
(* the events a bus is used with.                                           *)
(***************************************************************************)
EXTENDS EventRings, TLAPS

PriorityEntries(E) == [revision : Nat, priority : Nat, event : E]

SizeOf(count, size) == IF count <= size THEN count ELSE size

(* The general ring is the end of the published stream. *)
RingIsSuffix(E) ==
    /\ revision \in Nat
    /\ published \in Seq(E) /\ Len(published) = revision
    /\ ring \in Seq(E) /\ Len(ring) = SizeOf(revision, RingSize)
    /\ \A i \in 1 .. Len(ring) : ring[i] = published[revision - Len(ring) + i]

(* The priority ring is the end of the lane's own numbering, and each entry *)
(* carries the event published at its revision.                             *)
LaneIsSuffix(E) ==
    /\ priorityRevision \in Nat
    /\ priorityRing \in Seq(PriorityEntries(E))
    /\ Len(priorityRing) = SizeOf(priorityRevision, PrioritySize)
    /\ \A i \in 1 .. Len(priorityRing) :
          /\ priorityRing[i].priority = priorityRevision - Len(priorityRing) + i
          /\ priorityRing[i].revision \in 1 .. revision
          /\ priorityRing[i].event = published[priorityRing[i].revision]

RingsInv(E) == RingIsSuffix(E) /\ LaneIsSuffix(E)

----------------------------------------------------------------------------
(* A deque with a maxlen takes an element at its end and drops its first    *)
(* one when it is full.                                                     *)
LEMMA PushProperties ==
  ASSUME NEW X, NEW s \in Seq(X), NEW x \in X, NEW size \in Nat \ {0},
         Len(s) <= size
  PROVE  LET t == Push(s, x, size)
         IN  /\ t \in Seq(X)
             /\ Len(t) = IF Len(s) < size THEN Len(s) + 1 ELSE Len(s)
             /\ t[Len(t)] = x
             /\ \A i \in 1 .. Len(t) - 1 : t[i] = s[Len(s) + 1 - Len(t) + i]
<1>1. CASE Len(s) < size
  BY <1>1 DEF Push
<1>2. CASE ~(Len(s) < size)
  <2>1. Len(s) = size /\ s # <<>>
    BY <1>2
  <2>2. /\ Tail(s) \in Seq(X) /\ Len(Tail(s)) = Len(s) - 1
        /\ \A i \in 1 .. Len(s) - 1 : Tail(s)[i] = s[i + 1]
    BY <2>1
  <2>3. Push(s, x, size) = Append(Tail(s), x)
    BY <1>2 DEF Push
  <2> QED
    BY <2>1, <2>2, <2>3
<1> QED
  BY <1>1, <1>2

LEMMA EntriesOfSeq ==
  ASSUME NEW X, NEW s \in Seq(X)
  PROVE  EntriesOf(s) = {s[i] : i \in 1 .. Len(s)}
<1>1. DOMAIN s = 1 .. Len(s)
  OBVIOUS
<1> QED
  BY <1>1 DEF EntriesOf

LEMMA RingsInitially == ASSUME NEW E, RingsInit PROVE RingsInv(E)
BY RingAssumption DEF RingAssumption, RingsInit, RingsInv, RingIsSuffix,
                      LaneIsSuffix, SizeOf

(* A publication appends to the stream and leaves what was published alone. *)
LEMMA AppendPublishes ==
  ASSUME NEW E, RingIsSuffix(E), NEW e \in E, AppendEvent(e)
  PROVE  /\ published' \in Seq(E) /\ revision' = revision + 1
         /\ Len(published') = revision'
         /\ published'[revision'] = e
         /\ \A r \in 1 .. revision : published'[r] = published[r]
BY DEF RingIsSuffix, AppendEvent

LEMMA AppendRing ==
  ASSUME NEW E, RingIsSuffix(E), NEW e \in E, AppendEvent(e)
  PROVE  RingIsSuffix(E)'
<1>1. /\ published' \in Seq(E) /\ revision' = revision + 1
      /\ Len(published') = revision' /\ published'[revision'] = e
      /\ \A r \in 1 .. revision : published'[r] = published[r]
  BY AppendPublishes
<1>2. ring' = Push(ring, e, RingSize)
  BY DEF AppendEvent
<1>t. /\ revision \in Nat /\ ring \in Seq(E)
      /\ Len(ring) = SizeOf(revision, RingSize)
      /\ \A i \in 1 .. Len(ring) : ring[i] = published[revision - Len(ring) + i]
      /\ RingSize \in Nat \ {0}
  BY RingAssumption DEF RingIsSuffix, RingAssumption
<1>3. /\ ring' \in Seq(E)
      /\ Len(ring') = IF Len(ring) < RingSize THEN Len(ring) + 1 ELSE Len(ring)
      /\ ring'[Len(ring')] = e
      /\ \A i \in 1 .. Len(ring') - 1 : ring'[i] = ring[Len(ring) + 1 - Len(ring') + i]
  <2>1. Len(ring) <= RingSize
    BY <1>t DEF SizeOf
  <2> QED
    BY <1>2, <1>t, <2>1, PushProperties
<1>4. /\ Len(ring') = SizeOf(revision', RingSize)
      /\ Len(ring') = Len(ring) \/ Len(ring') = Len(ring) + 1
      /\ Len(ring) <= revision /\ Len(ring') \in Nat /\ Len(ring) \in Nat
  BY <1>1, <1>3, <1>t DEF SizeOf
<1>5. ASSUME NEW i \in 1 .. Len(ring')
      PROVE  ring'[i] = published'[revision' - Len(ring') + i]
  <2>1. CASE i = Len(ring')
    BY <2>1, <1>1, <1>3, <1>4, <1>t
  <2>2. CASE i # Len(ring')
    <3> DEFINE j == Len(ring) + 1 - Len(ring') + i
    <3>1. j \in 1 .. Len(ring) /\ i \in 1 .. Len(ring') - 1
      BY <2>2, <1>4
    <3>2. ring'[i] = ring[j]
      BY <3>1, <1>3
    <3>3. /\ revision - Len(ring) + j \in 1 .. revision
          /\ revision - Len(ring) + j = revision' - Len(ring') + i
      <4>1. revision' = revision + 1 /\ revision \in Nat
        BY <1>1, <1>t
      <4>2. /\ Len(ring) <= revision /\ Len(ring') \in Nat /\ Len(ring) \in Nat
            /\ j \in 1 .. Len(ring) /\ i \in Nat
        BY <3>1, <1>4
      <4>3. j = Len(ring) + 1 - Len(ring') + i
        OBVIOUS
      <4> HIDE DEF j
      <4> QED
        BY ONLY <4>1, <4>2, <4>3
    <3> HIDE DEF j
    <3> QED
      BY <3>1, <3>2, <3>3, <1>1, <1>t
  <2> QED
    BY <2>1, <2>2
<1> QED
  BY <1>1, <1>3, <1>4, <1>5, <1>t DEF RingIsSuffix

LEMMA AppendLane ==
  ASSUME NEW E, RingsInv(E), NEW e \in E, AppendEvent(e)
  PROVE  LaneIsSuffix(E)'
<1>1. /\ revision' = revision + 1 /\ revision \in Nat
      /\ published'[revision'] = e
      /\ \A r \in 1 .. revision : published'[r] = published[r]
  BY AppendPublishes DEF RingsInv, RingIsSuffix
<1>t. /\ priorityRevision \in Nat
      /\ priorityRing \in Seq(PriorityEntries(E))
      /\ Len(priorityRing) = SizeOf(priorityRevision, PrioritySize)
      /\ \A i \in 1 .. Len(priorityRing) :
            /\ priorityRing[i].priority = priorityRevision - Len(priorityRing) + i
            /\ priorityRing[i].revision \in 1 .. revision
            /\ priorityRing[i].event = published[priorityRing[i].revision]
      /\ PrioritySize \in Nat \ {0}
  BY RingAssumption DEF RingsInv, LaneIsSuffix, RingAssumption
<1>2. CASE ~IsSerious(e)
  <2>1. UNCHANGED <<priorityRevision, priorityRing>>
    BY <1>2 DEF AppendEvent
  <2>2. \A i \in 1 .. Len(priorityRing) :
            /\ priorityRing[i].revision \in 1 .. revision'
            /\ priorityRing[i].event = published'[priorityRing[i].revision]
    BY <1>1, <1>t
  <2> QED
    BY <1>t, <2>1, <2>2 DEF LaneIsSuffix
<1>3. CASE IsSerious(e)
  <2> DEFINE entry == [revision |-> Serial, priority |-> priorityRevision + 1,
                       event |-> e]
  <2>1. /\ priorityRevision' = priorityRevision + 1
        /\ priorityRing' = Push(priorityRing, entry, PrioritySize)
    BY <1>3 DEF AppendEvent
  <2>2. /\ entry \in PriorityEntries(E)
        /\ entry.revision = revision' /\ entry.priority = priorityRevision'
        /\ entry.event = published'[revision']
    BY <1>1, <1>t, <2>1 DEF PriorityEntries, Serial
  <2> HIDE DEF entry
  <2>3. /\ priorityRing' \in Seq(PriorityEntries(E))
        /\ Len(priorityRing') = IF Len(priorityRing) < PrioritySize
                                THEN Len(priorityRing) + 1 ELSE Len(priorityRing)
        /\ priorityRing'[Len(priorityRing')] = entry
        /\ \A i \in 1 .. Len(priorityRing') - 1 :
              priorityRing'[i] = priorityRing[Len(priorityRing) + 1 - Len(priorityRing') + i]
    <3>1. Len(priorityRing) <= PrioritySize
      BY <1>t DEF SizeOf
    <3> DEFINE X == PriorityEntries(E)
    <3>2. priorityRing \in Seq(X) /\ entry \in X
      BY <1>t, <2>2
    <3> HIDE DEF X
    <3>3. /\ priorityRing' \in Seq(X)
          /\ Len(priorityRing') = IF Len(priorityRing) < PrioritySize
                                  THEN Len(priorityRing) + 1 ELSE Len(priorityRing)
          /\ priorityRing'[Len(priorityRing')] = entry
          /\ \A i \in 1 .. Len(priorityRing') - 1 :
                priorityRing'[i]
                    = priorityRing[Len(priorityRing) + 1 - Len(priorityRing') + i]
      BY <1>t, <2>1, <3>1, <3>2, PushProperties
    <3> QED
      BY <3>3 DEF X
  <2>4. /\ Len(priorityRing') = SizeOf(priorityRevision', PrioritySize)
        /\ \/ Len(priorityRing') = Len(priorityRing)
           \/ Len(priorityRing') = Len(priorityRing) + 1
        /\ Len(priorityRing') \in Nat /\ Len(priorityRing) \in Nat
    BY <2>1, <2>3, <1>t DEF SizeOf
  <2>5. ASSUME NEW i \in 1 .. Len(priorityRing')
        PROVE  /\ priorityRing'[i].priority =
                     priorityRevision' - Len(priorityRing') + i
               /\ priorityRing'[i].revision \in 1 .. revision'
               /\ priorityRing'[i].event = published'[priorityRing'[i].revision]
    <3>1. CASE i = Len(priorityRing')
      BY <3>1, <1>1, <1>t, <2>1, <2>2, <2>3, <2>4
    <3>2. CASE i # Len(priorityRing')
      <4> DEFINE j == Len(priorityRing) + 1 - Len(priorityRing') + i
      <4>0. j \in 1 .. Len(priorityRing) /\ i \in 1 .. Len(priorityRing') - 1
        BY <3>2, <2>4
      <4>1. j \in 1 .. Len(priorityRing) /\ priorityRing'[i] = priorityRing[j]
        BY <4>0, <2>3
      <4>2. priorityRevision - Len(priorityRing) + j =
                priorityRevision' - Len(priorityRing') + i
        BY <4>1, <2>1, <2>4, <1>t
      <4> HIDE DEF j
      <4>3. /\ priorityRing[j].priority = priorityRevision - Len(priorityRing) + j
            /\ priorityRing[j].revision \in 1 .. revision
            /\ priorityRing[j].event = published[priorityRing[j].revision]
        BY <4>1, <1>t
      <4> QED
        BY <4>1, <4>2, <4>3, <1>1
    <3> QED
      BY <3>1, <3>2
  <2>6. priorityRevision' \in Nat /\ priorityRing' \in Seq(PriorityEntries(E))
    BY <2>1, <2>3, <1>t
  <2>7. PriorityEntries(E)' = PriorityEntries(E)
    BY DEF PriorityEntries
  <2> QED
    BY <2>4, <2>5, <2>6, <2>7 DEF LaneIsSuffix
<1> QED
  BY <1>2, <1>3

(* The locked part of _deliver preserves both rings.                        *)
LEMMA AppendKeepsRings ==
  ASSUME NEW E, RingsInv(E), NEW e \in E, AppendEvent(e)
  PROVE  RingsInv(E)'
BY AppendRing, AppendLane DEF RingsInv

LEMMA RingsUnchanged ==
  ASSUME NEW E, RingsInv(E), UNCHANGED ringVars
  PROVE  RingsInv(E)'
BY DEF RingsInv, RingIsSuffix, LaneIsSuffix, ringVars

----------------------------------------------------------------------------
(* The types of the rings. *)
LEMMA RingsAreTyped == ASSUME NEW E, RingsInv(E) PROVE RingsTypeOK
<1> USE RingAssumption DEF RingAssumption, RingsInv, RingIsSuffix, LaneIsSuffix
<1>1. /\ revision \in Nat /\ priorityRevision \in Nat
      /\ Len(published) = revision
      /\ Len(ring) <= RingSize /\ Len(priorityRing) <= PrioritySize
  BY DEF SizeOf
<1>2. EntriesOf(ring) \subseteq EntriesOf(published)
  <2>1. ASSUME NEW i \in 1 .. Len(ring)
        PROVE  revision - Len(ring) + i \in 1 .. Len(published)
    BY DEF SizeOf
  <2> QED
    BY <2>1 DEF EntriesOf
<1>3. ASSUME NEW i \in 1 .. Len(priorityRing)
      PROVE  /\ priorityRing[i].revision \in 1 .. revision
             /\ priorityRing[i].priority \in 1 .. priorityRevision
  BY DEF SizeOf
<1>4. EntriesOf(priorityRing) = {priorityRing[i] : i \in 1 .. Len(priorityRing)}
  BY EntriesOfSeq
<1> QED
  BY ONLY <1>1, <1>2, <1>3, <1>4 DEF RingsTypeOK

(* What the general ring retains, by revision.                              *)
LEMMA RetainedRecords ==
  ASSUME NEW E, RingIsSuffix(E)
  PROVE  /\ Len(ring) \in 0 .. revision
         /\ \A x \in Retained : /\ x.revision \in revision - Len(ring) + 1 .. revision
                                /\ x.event = published[x.revision]
         /\ \A r \in revision - Len(ring) + 1 .. revision :
               [revision |-> r, event |-> published[r]] \in Retained
<1>1. Len(ring) \in 0 .. revision /\ revision \in Nat /\ DOMAIN ring = 1 .. Len(ring)
  BY RingAssumption DEF RingAssumption, RingIsSuffix, SizeOf
<1>2. ASSUME NEW x \in Retained
      PROVE  /\ x.revision \in revision - Len(ring) + 1 .. revision
             /\ x.event = published[x.revision]
  <2>1. PICK i \in 1 .. Len(ring) :
          x = [revision |-> revision - Len(ring) + i, event |-> ring[i]]
    BY <1>1 DEF Retained
  <2> QED
    BY <1>1, <2>1 DEF RingIsSuffix
<1>3. ASSUME NEW r \in revision - Len(ring) + 1 .. revision
      PROVE  [revision |-> r, event |-> published[r]] \in Retained
  <2> DEFINE i == r - revision + Len(ring)
  <2>1. i \in 1 .. Len(ring) /\ revision - Len(ring) + i = r
    BY <1>1
  <2>2. ring[i] = published[r]
    BY <2>1 DEF RingIsSuffix
  <2> HIDE DEF i
  <2> QED
    BY <1>1, <2>1, <2>2 DEF Retained
<1> QED
  BY <1>1, <1>2, <1>3

LEMMA SeriousRecords ==
  ASSUME NEW E, RingsInv(E)
  PROVE  \A x \in Serious : /\ x.revision \in 1 .. revision
                            /\ x.event = published[x.revision]
<1> SUFFICES ASSUME NEW x \in Serious
             PROVE  x.revision \in 1 .. revision /\ x.event = published[x.revision]
  OBVIOUS
<1>1. PICK i \in 1 .. Len(priorityRing) :
        x = [revision |-> priorityRing[i].revision, event |-> priorityRing[i].event]
  BY DEF Serious, EntriesOf, RingsInv, LaneIsSuffix
<1> QED
  BY <1>1 DEF RingsInv, LaneIsSuffix

(* What a read with a cursor of this bus answers.                           *)
LEMMA DeltaCases ==
  ASSUME NEW previous \in 0 .. revision, revision \in Nat
  PROVE  LET delta == RecordsSince(previous)
         IN  /\ delta.current = revision
             /\ delta.overflow <=> revision - previous > Len(ring)
             /\ ~delta.overflow => delta.records = After(Retained, previous)
             /\ delta.overflow => delta.records = Merge(After(Retained, previous),
                                                        After(Serious, previous))
BY DEF RecordsSince

(* A delta is exact (records_since): DeltaIsExact for one cursor.           *)
LEMMA DeltaExactAt ==
  ASSUME NEW E, RingsInv(E), NEW previous \in 0 .. revision
  PROVE  LET delta == RecordsSince(previous)
             known == {x.revision : x \in delta.records}
         IN  /\ known \subseteq previous + 1 .. revision
             /\ \A x \in delta.records : x.event = published[x.revision]
             /\ ~delta.overflow => known = previous + 1 .. revision
             /\ delta.overflow => previous + 1 \notin {x.revision : x \in Retained}
<1> DEFINE delta == RecordsSince(previous)
           known == {x.revision : x \in delta.records}
<1>t. /\ revision \in Nat /\ previous \in Nat /\ RingIsSuffix(E)
  BY DEF RingsInv, RingIsSuffix
<1>1. /\ delta.overflow <=> revision - previous > Len(ring)
      /\ ~delta.overflow => delta.records = After(Retained, previous)
      /\ delta.overflow => delta.records = Merge(After(Retained, previous),
                                                 After(Serious, previous))
  BY <1>t, DeltaCases
<1>2. /\ Len(ring) \in 0 .. revision
      /\ \A x \in Retained : /\ x.revision \in revision - Len(ring) + 1 .. revision
                             /\ x.event = published[x.revision]
      /\ \A r \in revision - Len(ring) + 1 .. revision :
            [revision |-> r, event |-> published[r]] \in Retained
  BY <1>t, RetainedRecords
<1>3. \A x \in delta.records : x \in Retained \cup Serious /\ x.revision > previous
  BY <1>1 DEF After, Merge
<1> HIDE DEF delta
<1>4. \A x \in delta.records : /\ x.revision \in previous + 1 .. revision
                               /\ x.event = published[x.revision]
  BY <1>2, <1>3, <1>t, SeriousRecords
<1>5. ASSUME ~delta.overflow, NEW r \in previous + 1 .. revision
      PROVE  r \in known
  <2>1. r \in revision - Len(ring) + 1 .. revision
    BY <1>1, <1>2, <1>5, <1>t
  <2> DEFINE x == [revision |-> r, event |-> published[r]]
  <2>2. x \in Retained /\ x.revision = r /\ r > previous
    BY <1>2, <1>t, <2>1
  <2>3. x \in delta.records
    BY <1>1, <1>5, <2>2 DEF After
  <2> QED
    BY <2>2, <2>3
<1>6. ASSUME delta.overflow PROVE previous + 1 \notin {x.revision : x \in Retained}
  BY <1>1, <1>2, <1>6, <1>t
<1> QED
  BY <1>4, <1>5, <1>6 DEF delta

LEMMA RingsAnswerExactly == ASSUME NEW E, RingsInv(E) PROVE DeltaIsExact
BY DeltaExactAt DEF DeltaIsExact

(* An entry of the priority ring is in every delta it belongs to.           *)
LEMMA RingsKeepSerious == ASSUME NEW E, RingsInv(E) PROVE SeriousOutlivesNoise
<1> SUFFICES ASSUME NEW previous \in 0 .. revision, NEW r \in SeriousRevisions,
                    r > previous, NEW x \in EntriesOf(priorityRing), x.revision = r
             PROVE  [revision |-> r, event |-> published[r]]
                        \in RecordsSince(previous).records
  BY DEF SeriousOutlivesNoise
<1> DEFINE delta == RecordsSince(previous)
           record == [revision |-> r, event |-> published[r]]
<1>t. revision \in Nat /\ previous \in Nat /\ r \in 1 .. revision /\ RingIsSuffix(E)
  BY DEF RingsInv, RingIsSuffix, SeriousRevisions
<1>1. /\ delta.overflow <=> revision - previous > Len(ring)
      /\ ~delta.overflow => delta.records = After(Retained, previous)
      /\ delta.overflow => delta.records = Merge(After(Retained, previous),
                                                 After(Serious, previous))
  BY <1>t, DeltaCases
<1>2. /\ Len(ring) \in 0 .. revision
      /\ \A y \in Retained : y.revision \in revision - Len(ring) + 1 .. revision
      /\ \A q \in revision - Len(ring) + 1 .. revision :
            [revision |-> q, event |-> published[q]] \in Retained
  BY <1>t, RetainedRecords
<1>3. record.revision = r /\ record \in Serious
  <2>1. PICK i \in 1 .. Len(priorityRing) : x = priorityRing[i]
    BY DEF EntriesOf, RingsInv, LaneIsSuffix
  <2>2. x.event = published[r]
    BY <2>1 DEF RingsInv, LaneIsSuffix
  <2> QED
    BY <2>2 DEF Serious
<1> HIDE DEF delta, record
<1>4. CASE r \in revision - Len(ring) + 1 .. revision
  <2>1. record \in After(Retained, previous)
    BY <1>2, <1>3, <1>4 DEF After, record
  <2> QED
    BY <1>1, <2>1 DEF Merge, delta, record
<1>5. CASE r \notin revision - Len(ring) + 1 .. revision
  <2>1. revision - previous > Len(ring)
    BY <1>2, <1>5, <1>t
  <2>2. \A y \in After(Retained, previous) : y.revision # record.revision
    BY <1>2, <1>3, <1>5 DEF After
  <2>3. record \in After(Serious, previous)
    BY <1>3 DEF After
  <2> QED
    BY <1>1, <2>1, <2>2, <2>3 DEF Merge, delta, record
<1> QED
  BY <1>4, <1>5

(* A read of the lane that misses nothing returns every number after it.    *)
LEMMA LaneAnswersExactly == ASSUME NEW E, RingsInv(E) PROVE PriorityLaneIsExact
<1> SUFFICES ASSUME NEW previous \in 0 .. priorityRevision
             PROVE  LET delta == PriorityRecordsSince(previous)
                    IN  /\ \A x \in delta.records : x.event = published[x.revision]
                        /\ ~delta.overflow =>
                              {x.priority : x \in delta.records}
                                  = previous + 1 .. priorityRevision
  BY DEF PriorityLaneIsExact
<1> DEFINE delta == PriorityRecordsSince(previous)
           size == Len(priorityRing)
<1>t. /\ priorityRevision \in Nat /\ previous \in Nat /\ size \in 0 .. priorityRevision
      /\ \A i \in 1 .. size : /\ priorityRing[i].priority = priorityRevision - size + i
                              /\ priorityRing[i].event
                                     = published[priorityRing[i].revision]
      /\ EntriesOf(priorityRing) = {priorityRing[i] : i \in 1 .. size}
  BY RingAssumption DEF RingAssumption, RingsInv, LaneIsSuffix, SizeOf, EntriesOf
<1>1. /\ delta.records = {x \in EntriesOf(priorityRing) : x.priority > previous}
      /\ delta.overflow <=> priorityRevision - previous > size
  BY <1>t DEF PriorityRecordsSince
<1> HIDE DEF delta, size
<1>2. \A x \in delta.records : x.event = published[x.revision]
  BY <1>1, <1>t
<1>3. \A x \in delta.records : x.priority \in previous + 1 .. priorityRevision
  BY <1>1, <1>t
<1>4. ASSUME ~delta.overflow, NEW n \in previous + 1 .. priorityRevision
      PROVE  n \in {x.priority : x \in delta.records}
  <2> DEFINE i == n - priorityRevision + size
  <2>1. i \in 1 .. size /\ priorityRevision - size + i = n /\ n > previous
    BY <1>1, <1>4, <1>t
  <2> HIDE DEF i
  <2>2. priorityRing[i] \in delta.records /\ priorityRing[i].priority = n
    BY <1>1, <1>t, <2>1
  <2> QED
    BY <2>2
<1> QED
  BY <1>2, <1>3, <1>4 DEF delta
=============================================================================
