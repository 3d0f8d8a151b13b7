----------------------------- MODULE EventRings -----------------------------
(***************************************************************************)
(* The retained history of one EventBus (core/eventbus.py): the general    *)
(* ring of the newest events, the priority ring that keeps HIGH and        *)
(* CRITICAL events apart from the noise, the two revision counters, and    *)
(* the cursor reads that return what was published since a revision.       *)
(* Everything here happens under the bus lock, so one publication is one   *)
(* step.  An event is a record whose severity is all the rings look at.    *)
(***************************************************************************)
EXTENDS Integers, Sequences

CONSTANTS RingSize,         \* ring_size, the deque's maxlen
          PrioritySize      \* priority_ring_size

ASSUME RingAssumption == RingSize \in Nat \ {0} /\ PrioritySize \in Nat \ {0}

VARIABLES ring,             \* _ring, oldest first
          priorityRing,     \* _priority_ring, oldest first
          revision,         \* _revision
          priorityRevision, \* _priority_revision
          published         \* history: published[r] is the event of revision r

ringVars == <<ring, priorityRing, revision, priorityRevision, published>>

IsSerious(e) == e.severity = "HIGH"

EntriesOf(s) == {s[i] : i \in DOMAIN s}

RingsInit ==
    /\ ring = <<>>
    /\ priorityRing = <<>>
    /\ revision = 0
    /\ priorityRevision = 0
    /\ published = <<>>

\* deque.append of a deque with a maxlen.
Push(s, x, size) == IF Len(s) < size THEN Append(s, x) ELSE Append(Tail(s), x)

\* The global revision stored with an entry of the priority ring.
Serial == revision + 1

\* The locked part of _deliver: both rings take the event, the counters move.
AppendEvent(e) ==
    /\ ring' = Push(ring, e, RingSize)
    /\ revision' = revision + 1
    /\ IF IsSerious(e)
       THEN /\ priorityRevision' = priorityRevision + 1
            /\ priorityRing' = Push(priorityRing,
                    [revision |-> Serial,
                     priority |-> priorityRevision + 1,
                     event |-> e], PrioritySize)
       ELSE UNCHANGED <<priorityRevision, priorityRing>>
    /\ published' = Append(published, e)

-----------------------------------------------------------------------------
\* The general ring with the revision its position implies.
Retained == {[revision |-> revision - Len(ring) + i, event |-> ring[i]] :
                i \in DOMAIN ring}

Serious == {[revision |-> x.revision, event |-> x.event] :
                x \in EntriesOf(priorityRing)}

\* events_by_revision.setdefault for every priority entry.
Merge(general, serious) ==
    general \cup {x \in serious : \A y \in general : y.revision # x.revision}

After(records, previous) == {x \in records : x.revision > previous}

\* Fault: an overflow answers from the general ring alone.
SinceGeneralOnly(previous) ==
    [current  |-> revision,
     records  |-> After(Retained, previous),
     overflow |-> previous > revision \/ revision - previous > Len(ring)]

\* Fault: a delta one longer than the ring still counts as complete.
SinceLenient(previous) ==
    [current  |-> revision,
     records  |-> After(Retained, previous),
     overflow |-> revision - previous > Len(ring) + 1]

\* records_since: the delta after a cursor and whether part of it is gone.
\* A cursor that is not one of this bus gets everything, marked incomplete.
RecordsSince(previous) ==
    LET known == previous \in 0 .. revision
        lost  == ~known \/ revision - previous > Len(ring)
    IN  [current  |-> revision,
         records  |-> CASE ~known -> Merge(Retained, Serious)
                        [] known /\ lost -> Merge(After(Retained, previous),
                                                  After(Serious, previous))
                        [] OTHER -> After(Retained, previous),
         overflow |-> lost]

\* Fault: the priority read trusts a cursor the ring no longer reaches.
PrioritySinceUnbounded(previous) ==
    [current  |-> priorityRevision,
     records  |-> {x \in EntriesOf(priorityRing) : x.priority > previous},
     overflow |-> previous \notin 0 .. priorityRevision]

\* priority_records_since: the same for the priority lane alone.
PriorityRecordsSince(previous) ==
    LET known == previous \in 0 .. priorityRevision
    IN  [current  |-> priorityRevision,
         records  |-> {x \in EntriesOf(priorityRing) :
                          ~known \/ x.priority > previous},
         overflow |-> ~known \/ priorityRevision - previous > Len(priorityRing)]

-----------------------------------------------------------------------------
RingsTypeOK ==
    /\ revision \in Nat /\ priorityRevision \in Nat
    /\ Len(published) = revision
    /\ Len(ring) <= RingSize /\ Len(priorityRing) <= PrioritySize
    /\ EntriesOf(ring) \subseteq EntriesOf(published)
    /\ \A x \in EntriesOf(priorityRing) :
          x.revision \in 1 .. revision /\ x.priority \in 1 .. priorityRevision

\* Revisions of the HIGH publications, and those among them the priority lane
\* promises to keep.
SeriousRevisions == {r \in 1 .. revision : IsSerious(published[r])}

\* A cursor read never misattributes and never hides a loss.  Every record
\* carries the event that was published at that revision, after the cursor;
\* a read that is not marked as an overflow is the whole delta; and a read is
\* marked as an overflow only when the general ring really lost an event of
\* the delta.  Durable exporters advance their cursor on this answer.
DeltaIsExact ==
    \A previous \in 0 .. revision :
        LET delta == RecordsSince(previous)
            known == {x.revision : x \in delta.records}
        IN  /\ known \subseteq previous + 1 .. revision
            /\ \A x \in delta.records : x.event = published[x.revision]
            /\ ~delta.overflow => known = previous + 1 .. revision
            /\ delta.overflow => previous + 1 \notin {x.revision : x \in Retained}

\* A burst of low-severity events cannot push a recent HIGH event out of an
\* overflowed general read: those still in the priority ring are merged in.
SeriousOutlivesNoise ==
    \A previous \in 0 .. revision, r \in SeriousRevisions :
        /\ r > previous
        /\ \E x \in EntriesOf(priorityRing) : x.revision = r
        => [revision |-> r, event |-> published[r]] \in RecordsSince(previous).records

\* The priority lane is a gap-free window of the HIGH publications: a cursor
\* read of it returns exactly those after the cursor, in the lane's own
\* numbering, unless it says that some are gone.
PriorityLaneIsExact ==
    \A previous \in 0 .. priorityRevision :
        LET delta == PriorityRecordsSince(previous)
        IN  /\ \A x \in delta.records : x.event = published[x.revision]
            /\ ~delta.overflow =>
                  {x.priority : x \in delta.records} = previous + 1 .. priorityRevision
=============================================================================
