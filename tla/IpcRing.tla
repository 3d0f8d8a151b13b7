------------------------------- MODULE IpcRing -------------------------------
(***************************************************************************)
(* The shared-memory telemetry ring (resilience/ipc_ring.py) between the    *)
(* scanner process, its only producer, and the core's ring-drain thread,    *)
(* its only consumer.  The ring is a memory-mapped file: a header with the  *)
(* two 64-bit positions write_seq and read_seq, and N slots.  There is no   *)
(* lock and no atomic store.                                                *)
(*                                                                          *)
(* Each action is the code between two accesses to memory the other process *)
(* can reach.  struct.pack_into clears the bytes it is about to fill, so a  *)
(* position or a counter is stored in two steps; the other side, or the     *)
(* process that follows a killed one, may find 0 in between (values below   *)
(* 256 have no further intermediate one).  Reading the header is one copy.  *)
(* read_seq is stored by BOTH sides: by the consumer when a batch ends, by  *)
(* the producer when it finds itself a lap ahead.                           *)
(*                                                                          *)
(* A frame is its number in the order of production; what a slot holds is   *)
(* the frame and the sequence number its HMAC binds, NoFrame while the      *)
(* record is being overwritten.  Both processes may be killed between any   *)
(* two steps and are started again on the same file.                        *)
(***************************************************************************)
EXTENDS Integers, FiniteSets

CONSTANTS
    N,          \* slot_count
    Batch,      \* max_frames of one read_batch, cut to slot_count
    MaxSent,    \* bound: frames the sensors produce
    MaxKills    \* bound: kills of each process

ASSUME RingAssumption ==
    /\ N \in Nat /\ N >= 2
    /\ Batch \in 1..N
    /\ MaxSent \in Nat /\ MaxKills \in Nat

VARIABLES
    write_seq,  \* header field at offset 16, as the consumer sees it
    read_seq,   \* header field at offset 24, as either side sees it
    slots,      \* slot index -> [seq, frame]
    drops,      \* header field at offset 32, stored by the producer only
    writer,     \* the scanner: [pc, w, d, lean]
    reader,     \* the drain thread: [pc, w, r, scanned, out]
    sent,       \* frames the sensors produced so far
    sampled,    \* frames the scanner left out under backpressure (_dropped)
    refused,    \* the header was refused at least once
    published,  \* frames handed to the event bus
    again,      \* history: frames handed to it more than once
    fell,       \* history: frames in hand when a process was killed
    uncounted,  \* history: losses a killed scanner left out of the drops counter
    rewound,    \* history: newest frame made when a read position was last set back
    kills,      \* history: kills of the <<scanner, core>>
    broken      \* history: a kill left the write position cleared

wvars == <<write_seq, slots, drops, writer, sent, sampled>>
rvars == <<reader, refused, published, again>>
history == <<fell, uncounted, rewound, kills, broken>>
vars == <<write_seq, read_seq, slots, drops, writer, reader, sent, sampled,
          refused, published, again, fell, uncounted, rewound, kills, broken>>

NoFrame == [seq |-> 0, frame |-> 0]
Frames == 1..MaxSent
Positions == 0..MaxSent

Record == [seq : Positions, frame : 0..MaxSent]

Scanner ==
    [pc : {"loop", "burst", "big", "big2", "lap", "lap2", "count", "count2", "slot",
           "fill", "pub", "pub2", "down"},
     w : Positions, d : Positions, lean : BOOLEAN]

Drain ==
    [pc : {"idle", "scan", "store2", "publish", "down"},
     w : Positions, r : Positions, scanned : 0..Batch, out : SUBSET Frames]

RTypeOK ==
    /\ write_seq \in Positions /\ read_seq \in Positions
    /\ slots \in [0..(N - 1) -> Record]
    /\ drops \in 0..MaxSent /\ sampled \in 0..MaxSent /\ sent \in 0..MaxSent
    /\ writer \in Scanner /\ reader \in Drain
    /\ refused \in BOOLEAN
    /\ published \subseteq Frames /\ again \subseteq published /\ fell \subseteq Frames
    /\ uncounted \in Nat /\ rewound \in 0..MaxSent
    /\ kills \in [{"scanner", "core"} -> 0..MaxKills] /\ broken \in BOOLEAN

Init ==
    /\ write_seq = 0 /\ read_seq = 0
    /\ slots = [i \in 0..(N - 1) |-> NoFrame]
    /\ drops = 0 /\ sampled = 0 /\ sent = 0
    /\ writer = [pc |-> "loop", w |-> 0, d |-> 0, lean |-> FALSE]
    /\ reader = [pc |-> "idle", w |-> 0, r |-> 0, scanned |-> 0, out |-> {}]
    /\ refused = FALSE
    /\ published = {} /\ again = {} /\ fell = {} /\ uncounted = 0 /\ rewound = 0
    /\ kills = [p \in {"scanner", "core"} |-> 0] /\ broken = FALSE

WriterAt(label) == writer.pc = label
ReaderAt(label) == reader.pc = label
Slot(seq) == seq % N

(* occupancy / slot_count >= BACKPRESSURE_FRAC *)
Pressed(w, r) == 100 * (w - r) >= 85 * N

-----------------------------------------------------------------------------
(* The producer: one iteration of ScannerHost.run samples the backpressure  *)
(* once and then writes, or leaves out, each frame its sensors returned.    *)

(* A read position ahead of the write position ends the scanner: the        *)
(* property raises and nothing in the loop catches it.                      *)
HostLoop ==
    /\ WriterAt("loop")
    /\ writer' = IF write_seq < read_seq
                 THEN [writer EXCEPT !.pc = "down"]
                 ELSE [writer EXCEPT !.pc = "burst", !.lean = Pressed(write_seq, read_seq)]
    /\ UNCHANGED <<write_seq, read_seq, slots, drops, sent, sampled, history>>
    /\ UNCHANGED rvars

EndBurst ==
    /\ WriterAt("burst")
    /\ writer' = [writer EXCEPT !.pc = "loop", !.lean = FALSE]
    /\ UNCHANGED <<write_seq, read_seq, slots, drops, sent, sampled, history>>
    /\ UNCHANGED rvars

SampleOut ==
    /\ WriterAt("burst") /\ writer.lean /\ sent < MaxSent
    /\ sent' = sent + 1
    /\ sampled' = sampled + 1
    /\ UNCHANGED <<write_seq, read_seq, slots, drops, writer, history>>
    /\ UNCHANGED rvars

(* write: a record that does not fit its slot is counted and not stored. *)
Oversize ==
    /\ WriterAt("burst") /\ ~writer.lean /\ sent < MaxSent
    /\ sent' = sent + 1
    /\ writer' = [writer EXCEPT !.w = write_seq, !.pc = "big"]
    /\ UNCHANGED <<write_seq, read_seq, slots, drops, sampled, history>>
    /\ UNCHANGED rvars

(* write: takes its own position and the consumer's, once. *)
Write ==
    /\ WriterAt("burst") /\ ~writer.lean /\ sent < MaxSent
    /\ sent' = sent + 1
    /\ writer' = [writer EXCEPT !.w = write_seq,
                                !.pc = IF write_seq - read_seq >= N THEN "lap" ELSE "slot"]
    /\ UNCHANGED <<write_seq, read_seq, slots, drops, sampled, history>>
    /\ UNCHANGED rvars

(* _advance_read, computed from the position read in Write. *)
ClearRead ==
    /\ WriterAt("lap")
    /\ read_seq' = 0
    /\ rewound' = sent
    /\ writer' = [writer EXCEPT !.pc = "lap2"]
    /\ UNCHANGED <<write_seq, slots, drops, sent, sampled, fell, uncounted, kills, broken>>
    /\ UNCHANGED rvars

(* Fault: a frame that is written over is not counted as dropped. *)
AdvanceUncounted ==
    /\ WriterAt("lap2")
    /\ read_seq' = writer.w - N + 1
    /\ writer' = [writer EXCEPT !.pc = "slot"]
    /\ UNCHANGED <<write_seq, slots, drops, sent, sampled, history>>
    /\ UNCHANGED rvars

AdvanceRead ==
    /\ WriterAt("lap2")
    /\ read_seq' = writer.w - N + 1
    /\ writer' = [writer EXCEPT !.pc = "count"]
    /\ UNCHANGED <<write_seq, slots, drops, sent, sampled, history>>
    /\ UNCHANGED rvars

(* _bump_drops, after a correction of the read position or for a record     *)
(* that did not fit: the counter is read, cleared and filled.               *)
ClearDrops ==
    /\ writer.pc \in {"count", "big"}
    /\ drops' = 0
    /\ writer' = [writer EXCEPT !.d = drops,
                                !.pc = IF @ = "count" THEN "count2" ELSE "big2"]
    /\ UNCHANGED <<write_seq, read_seq, slots, sent, sampled, history>>
    /\ UNCHANGED rvars

StoreDrops ==
    /\ writer.pc \in {"count2", "big2"}
    /\ drops' = writer.d + 1
    /\ writer' = IF WriterAt("count2")
                 THEN [writer EXCEPT !.pc = "slot", !.d = 0]
                 ELSE [writer EXCEPT !.pc = "burst", !.w = 0, !.d = 0]
    /\ UNCHANGED <<write_seq, read_seq, slots, sent, sampled, history>>
    /\ UNCHANGED rvars

(* The length and the record are two stores.  Neither frame authenticates   *)
(* from the first byte that differs to the last one: the step is that byte, *)
(* of the length, or of the record when both are of one length.             *)
ClearSlot ==
    /\ WriterAt("slot")
    /\ slots' = [slots EXCEPT ![Slot(writer.w)] = NoFrame]
    /\ writer' = [writer EXCEPT !.pc = "fill"]
    /\ UNCHANGED <<write_seq, read_seq, drops, sent, sampled, history>>
    /\ UNCHANGED rvars

FillSlot ==
    /\ WriterAt("fill")
    /\ slots' = [slots EXCEPT ![Slot(writer.w)] = [seq |-> writer.w, frame |-> sent]]
    /\ writer' = [writer EXCEPT !.pc = "pub"]
    /\ UNCHANGED <<write_seq, read_seq, drops, sent, sampled, history>>
    /\ UNCHANGED rvars

ClearWrite ==
    /\ WriterAt("pub")
    /\ write_seq' = 0
    /\ writer' = [writer EXCEPT !.pc = "pub2"]
    /\ UNCHANGED <<read_seq, slots, drops, sent, sampled, history>>
    /\ UNCHANGED rvars

AdvanceWrite ==
    /\ WriterAt("pub2")
    /\ write_seq' = writer.w + 1
    /\ writer' = [writer EXCEPT !.pc = "burst", !.w = 0]
    /\ UNCHANGED <<read_seq, slots, drops, sent, sampled, history>>
    /\ UNCHANGED rvars

-----------------------------------------------------------------------------
(* The consumer: _ring_loop around RingReader.read_batch.                   *)

BadHeader ==
    /\ ReaderAt("idle") /\ write_seq < read_seq
    /\ refused' = TRUE
    /\ UNCHANGED <<read_seq, reader, published, again, history>>
    /\ UNCHANGED wvars

(* Fault: a lapped consumer skips everything. *)
SkipToNewest(w, r) == IF w - r > N THEN w ELSE r

(* The header as one snapshot; more than a lap behind, the consumer skips   *)
(* to the oldest slot it takes to be intact.                                *)
OldestIntact(w, r) == IF w - r > N THEN w - N ELSE r

ReadHeader ==
    /\ ReaderAt("idle") /\ write_seq >= read_seq
    /\ reader' = [pc |-> "scan", w |-> write_seq, r |-> OldestIntact(write_seq, read_seq),
                  scanned |-> 0, out |-> {}]
    /\ UNCHANGED <<read_seq, refused, published, again, history>>
    /\ UNCHANGED wvars

Unread == reader.r < reader.w /\ reader.scanned < Batch

(* decode_frame: the record authenticates for the sequence number expected. *)
Authentic(slot, seq) == slot.frame # 0 /\ slot.seq = seq

(* Fault: a record that does not authenticate is left for the next batch. *)
ScanStuck ==
    /\ ReaderAt("scan") /\ Unread
    /\ LET slot == slots[Slot(reader.r)]
           ok == Authentic(slot, reader.r)
       IN  reader' = [reader EXCEPT !.r = IF ok THEN @ + 1 ELSE @, !.scanned = @ + 1,
                                    !.out = IF ok THEN @ \cup {slot.frame} ELSE @]
    /\ UNCHANGED <<read_seq, refused, published, again, history>>
    /\ UNCHANGED wvars

ScanSlot ==
    /\ ReaderAt("scan") /\ Unread
    /\ LET slot == slots[Slot(reader.r)]
           ok == Authentic(slot, reader.r)
       IN  reader' = [reader EXCEPT !.r = @ + 1, !.scanned = @ + 1,
                                    !.out = IF ok THEN @ \cup {slot.frame} ELSE @]
    /\ UNCHANGED <<read_seq, refused, published, again, history>>
    /\ UNCHANGED wvars

EndScan ==
    /\ ReaderAt("scan") /\ ~Unread
    /\ read_seq' = 0
    /\ reader' = [reader EXCEPT !.pc = "store2"]
    /\ UNCHANGED <<refused, published, again, history>>
    /\ UNCHANGED wvars

StoreReadAs(r) ==
    /\ ReaderAt("store2")
    /\ read_seq' = r
    /\ reader' = [reader EXCEPT !.pc = "publish"]
    /\ UNCHANGED <<refused, published, again, history>>
    /\ UNCHANGED wvars

(* Faults: the position stored is one too far, or one too low. *)
StoreTooFar == StoreReadAs(reader.r + 1)
StoreTooLow == StoreReadAs(IF reader.r > 0 THEN reader.r - 1 ELSE 0)

StoreRead == StoreReadAs(reader.r)

(* _handle_frame for each frame of the batch, after read_batch returned. *)
Publish ==
    /\ ReaderAt("publish")
    /\ published' = published \cup reader.out
    /\ again' = again \cup (published \cap reader.out)
    /\ reader' = [reader EXCEPT !.pc = "idle", !.w = 0, !.r = 0, !.scanned = 0, !.out = {}]
    /\ UNCHANGED <<read_seq, refused, history>>
    /\ UNCHANGED wvars

-----------------------------------------------------------------------------
(* Kills and restarts: the ring file keeps its header and its slots.        *)

InHand ==
    writer.pc \in {"big", "big2", "lap", "lap2", "count", "count2", "slot", "fill", "pub", "pub2"}

(* What the drops counter lacks for good if the scanner is killed now: the  *)
(* overrun it had corrected already, all it held if it is cleared.          *)
CountInHand ==
    (IF writer.pc \in {"count", "count2"} THEN 1 ELSE 0)
        + (IF writer.pc \in {"count2", "big2"} THEN writer.d ELSE 0)

KillScanner ==
    /\ ~WriterAt("down") /\ kills["scanner"] < MaxKills
    /\ kills' = [kills EXCEPT !["scanner"] = @ + 1]
    /\ broken' = (broken \/ WriterAt("pub2"))
    /\ fell' = IF InHand THEN fell \cup {sent} ELSE fell
    /\ uncounted' = uncounted + CountInHand
    /\ writer' = [pc |-> "down", w |-> 0, d |-> 0, lean |-> FALSE]
    /\ UNCHANGED <<write_seq, read_seq, slots, drops, sent, sampled, rewound>>
    /\ UNCHANGED rvars

StartScanner ==
    /\ WriterAt("down") /\ write_seq >= read_seq
    /\ writer' = [pc |-> "loop", w |-> 0, d |-> 0, lean |-> FALSE]
    /\ UNCHANGED <<write_seq, read_seq, slots, drops, sent, sampled, history>>
    /\ UNCHANGED rvars

KillCore ==
    /\ ~ReaderAt("down") /\ kills["core"] < MaxKills
    /\ kills' = [kills EXCEPT !["core"] = @ + 1]
    /\ fell' = IF reader.pc = "publish" THEN fell \cup reader.out ELSE fell
    /\ rewound' = IF ReaderAt("store2") THEN sent ELSE rewound
    /\ \E some \in SUBSET reader.out :
        /\ ReaderAt("publish") \/ some = {}
        /\ published' = published \cup some
        /\ again' = again \cup (published \cap some)
    /\ reader' = [pc |-> "down", w |-> 0, r |-> 0, scanned |-> 0, out |-> {}]
    /\ UNCHANGED <<read_seq, refused, uncounted, broken>>
    /\ UNCHANGED wvars

StartCore ==
    /\ ReaderAt("down")
    /\ reader' = [reader EXCEPT !.pc = "idle"]
    /\ UNCHANGED <<read_seq, refused, published, again, history>>
    /\ UNCHANGED wvars

-----------------------------------------------------------------------------
Producer ==
    \/ HostLoop \/ EndBurst \/ SampleOut \/ Oversize \/ Write
    \/ ClearRead \/ AdvanceRead \/ ClearDrops \/ StoreDrops
    \/ ClearSlot \/ FillSlot \/ ClearWrite \/ AdvanceWrite

MidWrite ==
    \/ ClearRead \/ AdvanceRead \/ ClearDrops \/ StoreDrops
    \/ ClearSlot \/ FillSlot \/ ClearWrite \/ AdvanceWrite

Consumer ==
    \/ BadHeader \/ ReadHeader \/ ScanSlot \/ EndScan \/ StoreRead \/ Publish

Next ==
    \/ Producer
    \/ Consumer
    \/ KillScanner \/ StartScanner \/ KillCore \/ StartCore

Spec == Init /\ [][Next]_vars

(* The drain loop and a started write are never abandoned by a process that *)
(* lives, and a killed process is started again by its supervisor.          *)
FairSpec ==
    /\ Spec
    /\ WF_vars(Consumer) /\ WF_vars(MidWrite)
    /\ WF_vars(StartCore) /\ WF_vars(StartScanner)

-----------------------------------------------------------------------------
Written == IF WriterAt("pub2") THEN writer.w ELSE write_seq

Resting ==
    /\ writer.pc \in {"loop", "burst", "down"}
    /\ reader.pc \in {"idle", "down"}

(* The frame the next batches will find at a sequence number, if any. *)
Ahead(seq) ==
    /\ seq \in OldestIntact(write_seq, read_seq)..(write_seq - 1)
    /\ Authentic(slots[Slot(seq)], seq)

Readable == { slots[Slot(seq)].frame : seq \in { q \in Positions : Ahead(q) } }

(* Neither side ever leaves the read position beyond the write position,    *)
(* whatever half-stored value it computed with: the producer's header check *)
(* (RingWriter.backpressure) raises out of the scanner's loop otherwise.    *)
ReadBehindWrite == broken \/ (read_seq <= Written /\ reader.r <= Written)

(* "The newest telemetry is always preserved": each of the newest N - 1     *)
(* frames in the ring was published, or will be found by the next batches;  *)
(* only a kill with the frame in hand excuses a process.                    *)
NewestSurvives ==
    (Resting /\ ~broken) =>
        \A seq \in (write_seq - N + 1)..(write_seq - 1) :
            seq >= 0 => LET frame == slots[Slot(seq)].frame
                       IN  frame \in published \cup fell \/ Ahead(seq)

(* The drop counter and the frames sampled out account for every frame the  *)
(* core will never see, whatever positions the two sides computed with;     *)
(* only a scanner killed between the correction of a read position and the  *)
(* end of the counter's store leaves something out, and never more than it  *)
(* was about to count.                                                      *)
LossIsCounted ==
    (Resting /\ ~broken) =>
        Cardinality((1..sent) \ (published \cup fell \cup Readable))
            <= drops + sampled + uncounted

(* A frame is published a second time only if it was made before a read     *)
(* position was last set back: by the producer, who took the consumer to be *)
(* a lap behind, or by a kill of the core while it stored its position.     *)
(* What was made since is published once, whatever the two stores of        *)
(* read_seq did to each other.                                              *)
ReplayOnlyAfterRewind == broken \/ \A f \in again : f <= rewound

(* When the sensors fall silent the consumer reaches the write position,    *)
(* past slots it could not authenticate.                                    *)
CatchesUp == []<>(broken \/ (ReaderAt("publish") /\ reader.r = write_seq))
=============================================================================
