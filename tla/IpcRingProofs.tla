---------------------------- MODULE IpcRingProofs ----------------------------
(***************************************************************************)
(* The shared-memory ring for any number of slots, batch size, frames and   *)
(* kills: its variables stay in range, the position the consumer stores     *)
(* never overtakes the producer, a frame is handed over twice only if a read *)
(* position was set back after it was made, the newest records survive, and *)
(* what is lost is counted but for what a killed scanner had in hand.       *)
(* A store of the header has the one intermediate value of IpcRing.         *)
(***************************************************************************)
EXTENDS IpcRing, FiniteSetTheorems, TLAPS

(* An abbreviation of the UNCHANGED lists, expanded everywhere. *)
USE DEF history

(* Before the producer stores its position it works on the slot at that     *)
(* position, for a frame the sensors produced.                              *)
WriterSound ==
    /\ write_seq <= sent /\ drops <= sent /\ sampled <= sent
    /\ InHand => writer.w < sent /\ (writer.pc # "pub2" => write_seq = writer.w)
    /\ writer.pc = "pub2" => write_seq = 0
    /\ writer.pc \in {"lap", "lap2"} => writer.w >= N
    /\ writer.pc \in {"lap", "lap2", "count", "big"} => drops < sent
    /\ writer.pc \in {"count2", "big2"} => writer.d < sent

(* The consumer scans up to the position it read, which was published; a    *)
(* half-stored position only makes it read less.                            *)
ReaderSound ==
    /\ reader.r <= reader.w
    /\ broken \/ (read_seq <= Written /\ reader.w <= Written)

IInv == RTypeOK /\ WriterSound /\ ReaderSound

(* What a step leaves of the two processes' records.                        *)
LEMMA ScannerRecord ==
  \A x \in Scanner :
    /\ x.w \in Positions /\ x.d \in Positions /\ x.lean \in BOOLEAN
    /\ \A l \in {"loop", "burst", "big", "big2", "lap", "lap2", "count", "count2",
                "slot", "fill", "pub", "pub2", "down"} :
        LET y == [x EXCEPT !.pc = l] IN y \in Scanner /\ y.pc = l /\ y.w = x.w /\ y.d = x.d
  BY DEF Scanner

(* Everything holds of an empty ring.                                       *)
LEMMA InitIInv == Init => IInv
<1> SUFFICES ASSUME Init PROVE IInv
  OBVIOUS
<1>1. slots \in [0..(N - 1) -> Record]
  BY RingAssumption DEF RingAssumption, Init, Record, NoFrame, Positions
<1>2. writer \in Scanner /\ writer.pc = "loop" /\ writer.w = 0
  BY RingAssumption DEF RingAssumption, Init, Scanner, Positions
<1>3. reader \in Drain /\ reader.w = 0 /\ reader.r = 0
  BY RingAssumption DEF RingAssumption, Init, Drain, Positions, Frames
<1>4. kills \in [{"scanner", "core"} -> 0..MaxKills]
  BY RingAssumption DEF RingAssumption, Init
<1>5. RTypeOK
  <2>1. 0 \in Positions /\ 0 \in 0..MaxSent
    BY RingAssumption DEF RingAssumption, Positions
  <2>2. /\ published \subseteq Frames /\ again \subseteq published /\ fell \subseteq Frames
        /\ refused \in BOOLEAN /\ broken \in BOOLEAN
        /\ uncounted = 0 /\ rewound = 0
    BY DEF Init
  <2> QED
    BY <1>1, <1>2, <1>3, <1>4, <2>1, <2>2 DEF Init, RTypeOK
<1>6. WriterSound /\ ReaderSound
  BY <1>2, <1>3 DEF Init, WriterSound, ReaderSound, InHand, Written, WriterAt
<1> QED
  BY <1>5, <1>6 DEF IInv

(* One iteration of the scanner's loop, up to the first store.              *)
LEMMA BurstSteps ==
  ASSUME IInv, HostLoop \/ EndBurst \/ SampleOut \/ Oversize \/ Write
  PROVE  IInv'
<1> USE RingAssumption DEF RingAssumption, IInv, RTypeOK, WriterSound, ReaderSound,
        InHand, Written, WriterAt, Positions, rvars
<1>1. CASE HostLoop
  <2> DEFINE lean == Pressed(write_seq, read_seq)
  <2>0. writer' \in {[writer EXCEPT !.pc = "down"], [writer EXCEPT !.pc = "burst", !.lean = lean]}
    BY <1>1 DEF HostLoop
  <2>a. lean \in BOOLEAN
    BY DEF Pressed
  <2>1. writer' \in Scanner /\ writer'.pc \in {"down", "burst"}
    <3> HIDE DEF lean
    <3> QED
      BY <2>0, <2>a DEF Scanner
  <2> QED
    BY <1>1, <2>1 DEF HostLoop
<1>2. CASE EndBurst
  <2>1. writer' \in Scanner /\ writer'.pc = "loop"
    BY <1>2 DEF EndBurst, Scanner
  <2> QED
    BY <1>2, <2>1 DEF EndBurst
<1>3. CASE SampleOut
  BY <1>3 DEF SampleOut
<1>4. CASE Oversize
  <2>1. writer' \in Scanner /\ writer'.w = write_seq /\ writer'.pc = "big"
    BY <1>4 DEF Oversize, Scanner
  <2> QED
    BY <1>4, <2>1 DEF Oversize
<1>5. CASE Write
  <2>1. /\ writer' \in Scanner /\ writer'.w = write_seq
        /\ writer'.pc = IF write_seq - read_seq >= N THEN "lap" ELSE "slot"
    BY <1>5 DEF Write, Scanner
  <2>2. UNCHANGED <<write_seq, read_seq, slots, drops, sampled, history>> /\ UNCHANGED rvars
        /\ sent' = sent + 1 /\ sent < MaxSent
    BY <1>5 DEF Write
  <2>t. RTypeOK'
    BY <2>1, <2>2
  <2>w. WriterSound'
    BY <2>1, <2>2
  <2>r. ReaderSound'
    BY <1>5, <2>1, <2>2 DEF Write
  <2> QED
    BY <2>t, <2>w, <2>r DEF IInv
<1> QED
  BY <1>1, <1>2, <1>3, <1>4, <1>5

(* The stores of one write, each to its own place in the shared memory.     *)
LEMMA StoreSteps ==
  ASSUME IInv, MidWrite
  PROVE  IInv'
<1> USE RingAssumption DEF RingAssumption, IInv, RTypeOK, WriterSound, ReaderSound,
        InHand, Written, WriterAt, Positions, rvars
<1>d. writer.w \in Positions /\ reader.w \in Positions /\ reader.r \in Positions
  BY DEF Scanner, Drain
<1>1. CASE ClearRead
  <2>1. writer' \in Scanner /\ writer'.w = writer.w /\ writer'.pc = "lap2"
    BY <1>1, ScannerRecord DEF ClearRead
  <2> QED
    BY <1>1, <2>1 DEF ClearRead
<1>2. CASE AdvanceRead
  <2>1. writer' \in Scanner /\ writer'.w = writer.w /\ writer'.pc = "count"
    BY <1>2, ScannerRecord DEF AdvanceRead
  <2>2. /\ writer.pc = "lap2" /\ write_seq = writer.w /\ drops < sent
        /\ read_seq' \in Positions /\ read_seq' <= writer.w
    <3>1. writer.pc = "lap2" /\ read_seq' = writer.w - N + 1
      BY <1>2 DEF AdvanceRead
    <3>2. /\ write_seq = writer.w /\ writer.w >= N /\ drops < sent
      BY <3>1
    <3> QED
      BY <3>1, <3>2, <1>d
  <2>3. UNCHANGED <<write_seq, slots, drops, sent, sampled, history>> /\ UNCHANGED rvars
    BY <1>2 DEF AdvanceRead
  <2>t. RTypeOK'
    BY <1>d, <2>1, <2>2, <2>3
  <2>w. WriterSound'
    BY <1>d, <2>1, <2>2, <2>3
  <2>r. ReaderSound'
    BY <1>d, <2>1, <2>2, <2>3
  <2> QED
    BY <2>t, <2>w, <2>r DEF IInv
<1>3. CASE ClearSlot
  <2>1. writer' \in Scanner /\ writer'.w = writer.w /\ writer'.pc = "fill"
    BY <1>3, ScannerRecord DEF ClearSlot
  <2>2. NoFrame \in Record /\ slots' = [slots EXCEPT ![Slot(writer.w)] = NoFrame]
    BY <1>3 DEF ClearSlot, Record, NoFrame
  <2>3. slots' \in [0..(N - 1) -> Record]
    BY <2>2
  <2> QED
    BY <1>3, <2>1, <2>3 DEF ClearSlot
<1>4. CASE FillSlot
  <2>1. writer' \in Scanner /\ writer'.w = writer.w /\ writer'.pc = "pub"
    BY <1>4, ScannerRecord DEF FillSlot
  <2>2. [seq |-> writer.w, frame |-> sent] \in Record
    BY <1>4, ScannerRecord DEF Record
  <2>3. slots' \in [0..(N - 1) -> Record]
    BY <1>4, <2>2 DEF FillSlot
  <2> QED
    BY <1>4, <2>1, <2>3 DEF FillSlot
<1>5. CASE ClearWrite
  <2>1. writer' \in Scanner /\ writer'.w = writer.w /\ writer'.pc = "pub2"
    BY <1>5, ScannerRecord DEF ClearWrite
  <2>2. UNCHANGED <<read_seq, slots, drops, sent, sampled, history>> /\ UNCHANGED rvars
        /\ write_seq' = 0
    BY <1>5 DEF ClearWrite
  <2>t. RTypeOK'
    BY <2>1, <2>2
  <2>w. WriterSound'
    BY <1>5, <1>d, <2>1 DEF ClearWrite
  <2>r. ReaderSound'
    BY <1>5, <1>d, <2>1 DEF ClearWrite
  <2> QED
    BY <2>t, <2>w, <2>r DEF IInv
<1>6. CASE AdvanceWrite
  <2>1. writer' \in Scanner /\ writer'.w = 0 /\ writer'.pc = "burst"
    <3>1. writer' = [writer EXCEPT !.pc = "burst", !.w = 0]
      BY <1>6 DEF AdvanceWrite
    <3>2. 0 \in Positions
      BY DEF Positions
    <3> HIDE DEF Positions
    <3> QED
      BY <3>1, <3>2 DEF Scanner
  <2>2. /\ writer.pc = "pub2" /\ write_seq' = writer.w + 1
        /\ write_seq' \in Positions /\ write_seq' <= sent
    <3>1. writer.pc = "pub2" /\ write_seq' = writer.w + 1
      BY <1>6 DEF AdvanceWrite
    <3>2. writer.w < sent
      BY <3>1
    <3> QED
      BY <3>1, <3>2, <1>d
  <2>3. UNCHANGED <<read_seq, slots, drops, sent, sampled, history>>
        /\ UNCHANGED rvars
    BY <1>6 DEF AdvanceWrite
  <2>t. RTypeOK'
    BY <1>d, <2>1, <2>2, <2>3
  <2>w. WriterSound'
    BY <1>d, <2>1, <2>2, <2>3
  <2>r. ReaderSound'
    BY <1>d, <2>1, <2>2, <2>3
  <2> QED
    BY <2>t, <2>w, <2>r DEF IInv
<1>7. CASE ClearDrops
  <2>1. /\ writer' \in Scanner /\ writer'.w = writer.w /\ writer'.d = drops
        /\ \/ writer.pc = "count" /\ writer'.pc = "count2"
           \/ writer.pc = "big" /\ writer'.pc = "big2"
        /\ drops < sent /\ write_seq = writer.w
    BY <1>7 DEF ClearDrops, Scanner
  <2>2. UNCHANGED <<write_seq, read_seq, slots, sent, sampled, history>> /\ UNCHANGED rvars
        /\ drops' = 0
    BY <1>7 DEF ClearDrops
  <2>t. RTypeOK'
    BY <1>d, <2>1, <2>2
  <2>w. WriterSound'
    BY <1>d, <2>1, <2>2
  <2>r. ReaderSound'
    BY <1>d, <2>1, <2>2
  <2> QED
    BY <2>t, <2>w, <2>r DEF IInv
<1>8. CASE StoreDrops
  <2>1. /\ writer' \in Scanner /\ writer.d < sent /\ write_seq = writer.w
        /\ \/ writer.pc = "count2" /\ writer'.pc = "slot" /\ writer'.w = writer.w
           \/ writer.pc = "big2" /\ writer'.pc = "burst"
    <3>1. writer.pc \in {"count2", "big2"} /\ writer.d < sent /\ write_seq = writer.w
      BY <1>8 DEF StoreDrops
    <3>4. 0 \in Positions
      BY DEF Positions
    <3> HIDE DEF Positions
    <3>2. CASE writer.pc = "count2"
      <4>1. writer' = [writer EXCEPT !.pc = "slot", !.d = 0]
        BY <1>8, <3>2 DEF StoreDrops
      <4> QED
        BY <3>1, <3>2, <3>4, <4>1 DEF Scanner
    <3>3. CASE writer.pc = "big2"
      <4>1. writer' = [writer EXCEPT !.pc = "burst", !.w = 0, !.d = 0]
        BY <1>8, <3>3 DEF StoreDrops
      <4> QED
        BY <3>1, <3>3, <3>4, <4>1 DEF Scanner
    <3> QED
      BY <3>1, <3>2, <3>3
  <2>2. UNCHANGED <<write_seq, read_seq, slots, sent, sampled, history>> /\ UNCHANGED rvars
        /\ drops' = writer.d + 1
    BY <1>8 DEF StoreDrops
  <2>3. writer.d \in 0..MaxSent /\ drops' \in 0..MaxSent /\ drops' <= sent
    <3>1. writer.d \in 0..MaxSent
      BY DEF Scanner
    <3> QED
      BY <2>1, <2>2, <3>1
  <2>t. RTypeOK'
    BY <1>d, <2>1, <2>2, <2>3
  <2>w. WriterSound'
    BY <1>d, <2>1, <2>2, <2>3
  <2>r. ReaderSound'
    BY <1>d, <2>1, <2>2, <2>3
  <2> QED
    BY <2>t, <2>w, <2>r DEF IInv
<1> QED
  BY <1>1, <1>2, <1>3, <1>4, <1>5, <1>6, <1>7, <1>8 DEF MidWrite

(* One batch of the consumer.                                               *)
LEMMA BatchSteps ==
  ASSUME IInv, Consumer
  PROVE  IInv'
<1> USE RingAssumption DEF RingAssumption, IInv, RTypeOK, WriterSound, ReaderSound,
        InHand, Written, WriterAt, ReaderAt, Positions, wvars
<1>d. /\ writer.w \in Positions
      /\ reader.w \in Positions /\ reader.r \in Positions /\ reader.scanned \in 0..Batch
      /\ reader.out \subseteq Frames
  BY DEF Scanner, Drain
<1>1. CASE BadHeader
  BY <1>1 DEF BadHeader
<1>2. CASE ReadHeader
  <2>1. OldestIntact(write_seq, read_seq) \in 0..write_seq
    BY <1>2 DEF ReadHeader, OldestIntact
  <2>2. /\ reader' \in Drain /\ reader'.w = write_seq
        /\ reader'.r = OldestIntact(write_seq, read_seq)
    BY <1>2, <2>1 DEF ReadHeader, Drain
  <2>3. reader'.r <= reader'.w /\ reader'.w <= Written
    BY <1>d, <2>1, <2>2
  <2>t. RTypeOK'
    BY <1>2, <1>d, <2>1, <2>2, <2>3 DEF ReadHeader
  <2>w. WriterSound'
    BY <1>2, <1>d, <2>1, <2>2, <2>3 DEF ReadHeader
  <2>r. ReaderSound'
    BY <1>2, <1>d, <2>1, <2>2, <2>3 DEF ReadHeader
  <2> QED
    BY <2>t, <2>w, <2>r DEF IInv
<1>3. CASE ScanSlot
  <2> DEFINE slot == slots[Slot(reader.r)]
  <2>1. slot \in Record
    <3>1. Slot(reader.r) \in 0..(N - 1)
      BY <1>d DEF Slot
    <3> QED
      BY <3>1
  <2>2. Authentic(slot, reader.r) => slot.frame \in Frames
    BY <2>1 DEF Authentic, Record, Frames
  <2>3. /\ reader' \in Drain /\ reader'.w = reader.w /\ reader'.r = reader.r + 1
        /\ reader.r < reader.w
    <3> DEFINE ok == Authentic(slot, reader.r)
               out == IF ok THEN reader.out \cup {slot.frame} ELSE reader.out
    <3>1. out \subseteq Frames
      BY <1>d, <2>2
    <3>2. reader' = [reader EXCEPT !.r = @ + 1, !.scanned = @ + 1, !.out = out]
      BY <1>3 DEF ScanSlot
    <3>3. reader.r < reader.w /\ reader.scanned < Batch
      BY <1>3 DEF ScanSlot, Unread
    <3>4. reader.r + 1 \in Positions /\ reader.scanned + 1 \in 0..Batch
      BY ONLY <1>d, <3>3, RingAssumption DEF RingAssumption, Positions
    <3> HIDE DEF out, Positions
    <3> QED
      BY <3>1, <3>2, <3>3, <3>4 DEF Drain
  <2>5. reader'.r <= reader'.w
    BY <1>d, <2>3
  <2>6. /\ UNCHANGED <<read_seq, refused, published, again, history>>
        /\ UNCHANGED wvars
    BY <1>3 DEF ScanSlot
  <2> HIDE DEF slot
  <2>t. RTypeOK'
    BY <1>d, <2>3, <2>5, <2>6
  <2>w. WriterSound'
    BY <1>d, <2>3, <2>5, <2>6
  <2>r. ReaderSound'
    BY <1>d, <2>3, <2>5, <2>6
  <2> QED
    BY <2>t, <2>w, <2>r DEF IInv
<1>4. CASE EndScan
  <2>1. reader' \in Drain /\ reader'.w = reader.w /\ reader'.r = reader.r
    BY <1>4 DEF EndScan, Drain
  <2>2. UNCHANGED <<refused, published, again, history>> /\ UNCHANGED wvars /\ read_seq' = 0
    BY <1>4 DEF EndScan
  <2>t. RTypeOK'
    BY <2>1, <2>2
  <2>w. WriterSound'
    BY <1>4, <1>d, <2>1 DEF EndScan
  <2>r. ReaderSound'
    BY <1>4, <1>d, <2>1 DEF EndScan
  <2> QED
    BY <2>t, <2>w, <2>r DEF IInv
<1>5. CASE StoreRead
  <2>1. reader' \in Drain /\ reader'.w = reader.w /\ reader'.r = reader.r
    BY <1>5 DEF StoreRead, StoreReadAs, Drain
  <2>2. read_seq' = reader.r
    BY <1>5 DEF StoreRead, StoreReadAs
  <2>3. /\ UNCHANGED <<refused, published, again, history>>
        /\ UNCHANGED wvars
    BY <1>5 DEF StoreRead, StoreReadAs
  <2>t. RTypeOK'
    BY <1>d, <2>1, <2>2, <2>3
  <2>w. WriterSound'
    BY <1>d, <2>1, <2>2, <2>3
  <2>r. ReaderSound'
    BY <1>d, <2>1, <2>2, <2>3
  <2> QED
    BY <2>t, <2>w, <2>r DEF IInv
<1>6. CASE Publish
  <2>1. reader' \in Drain /\ reader'.w = 0 /\ reader'.r = 0
    <3>1. reader' = [reader EXCEPT !.pc = "idle", !.w = 0, !.r = 0, !.scanned = 0, !.out = {}]
      BY <1>6 DEF Publish
    <3>2. 0 \in Positions /\ 0 \in 0..Batch
      BY DEF Positions
    <3> HIDE DEF Positions
    <3> QED
      BY <3>1, <3>2 DEF Drain
  <2>t. RTypeOK'
    BY <1>6, <1>d, <2>1 DEF Publish
  <2>w. WriterSound'
    BY <1>6, <1>d, <2>1 DEF Publish
  <2>r. ReaderSound'
    BY <1>6, <1>d, <2>1 DEF Publish
  <2> QED
    BY <2>t, <2>w, <2>r DEF IInv
<1> QED
  BY <1>1, <1>2, <1>3, <1>4, <1>5, <1>6 DEF Consumer

(* A kill leaves the ring file as it is; only one in the middle of the      *)
(* store of write_seq loses the position.                                   *)
LEMMA KillSteps ==
  ASSUME IInv, KillScanner \/ StartScanner \/ KillCore \/ StartCore
  PROVE  IInv'
<1> USE RingAssumption DEF RingAssumption, IInv, RTypeOK, WriterSound, ReaderSound,
        InHand, Written, WriterAt, ReaderAt, Positions, rvars, wvars
<1>d. writer.w \in Positions /\ reader.out \subseteq Frames
  BY DEF Scanner, Drain
<1>1. CASE KillScanner
  <2>1. writer' \in Scanner /\ writer'.pc = "down"
    BY <1>1 DEF KillScanner, Scanner
  <2>2. kills' \in [{"scanner", "core"} -> 0..MaxKills]
    BY <1>1 DEF KillScanner
  <2>3. fell' \subseteq Frames
    <3>1. InHand => sent \in Frames
      BY <1>d DEF Frames
    <3> QED
      BY <1>1, <3>1 DEF KillScanner
  <2>4. uncounted' \in Nat
    <3>1. CountInHand \in Nat
      BY DEF CountInHand, Scanner
    <3> QED
      BY <1>1, <3>1 DEF KillScanner
  <2> QED
    BY <1>1, <2>1, <2>2, <2>3, <2>4 DEF KillScanner
<1>2. CASE StartScanner
  <2>1. writer' \in Scanner /\ writer'.pc = "loop"
    BY <1>2 DEF StartScanner, Scanner
  <2> QED
    BY <1>2, <2>1 DEF StartScanner
<1>3. CASE KillCore
  <2>1. reader' \in Drain /\ reader'.w = 0 /\ reader'.r = 0
    BY <1>3 DEF KillCore, Drain
  <2>2. kills' \in [{"scanner", "core"} -> 0..MaxKills]
    BY <1>3 DEF KillCore
  <2>3. published' \subseteq Frames /\ again' \subseteq published' /\ fell' \subseteq Frames
    BY <1>3, <1>d DEF KillCore
  <2>t. RTypeOK'
    BY <1>3, <1>d, <2>1, <2>2, <2>3 DEF KillCore
  <2>w. WriterSound'
    BY <1>3, <1>d, <2>1, <2>2, <2>3 DEF KillCore
  <2>r. ReaderSound'
    BY <1>3, <1>d, <2>1, <2>2, <2>3 DEF KillCore
  <2> QED
    BY <2>t, <2>w, <2>r DEF IInv
<1>4. CASE StartCore
  <2>1. reader' \in Drain /\ reader'.w = reader.w /\ reader'.r = reader.r
    BY <1>4 DEF StartCore, Drain
  <2> QED
    BY <1>4, <2>1 DEF StartCore
<1> QED
  BY <1>1, <1>2, <1>3, <1>4

(* The invariant is inductive.                                              *)
LEMMA NextIInv == IInv /\ [Next]_vars => IInv'
<1> SUFFICES ASSUME IInv, [Next]_vars PROVE IInv'
  OBVIOUS
<1>1. ASSUME Producer PROVE IInv'
  BY <1>1, BurstSteps, StoreSteps DEF Producer, MidWrite
<1>2. ASSUME UNCHANGED vars PROVE IInv'
  BY <1>2 DEF vars, IInv, RTypeOK, WriterSound, ReaderSound, InHand, Written, WriterAt
<1> QED
  BY <1>1, <1>2, BatchSteps, KillSteps DEF Next

(* Every variable keeps its range: in particular a position never exceeds   *)
(* the number of frames, and no more records are dropped than were made.    *)
THEOREM TypeCorrect == Spec => []RTypeOK
<1>1. IInv => RTypeOK
  BY DEF IInv
<1> QED
  BY <1>1, InitIInv, NextIInv, PTL DEF Spec

(* ReadBehindWrite: whatever half-stored position either side computes      *)
(* with, the read position stays behind the write position, so the header   *)
(* check of RingWriter.backpressure does not end the scanner.               *)
THEOREM ReadBehindWriteHolds == Spec => []ReadBehindWrite
<1>1. IInv => ReadBehindWrite
  <2>1. IInv => /\ reader.r \in Positions /\ reader.w \in Positions
                /\ writer.w \in Positions
    BY DEF IInv, RTypeOK, Drain, Scanner
  <2> QED
    BY <2>1, RingAssumption
    DEF RingAssumption, IInv, RTypeOK, WriterSound, ReaderSound, ReadBehindWrite, Written,
        WriterAt, Positions
<1> QED
  BY <1>1, InitIInv, NextIInv, PTL DEF Spec

(* Every sequence number has a slot.                                        *)
LEMMA SlotRange ==
  ASSUME NEW q \in Nat
  PROVE  Slot(q) \in 0..(N - 1)
  BY RingAssumption DEF RingAssumption, Slot

(* Sequence numbers less than a lap apart have different slots.             *)
LEMMA SlotsDiffer ==
  ASSUME NEW p \in Nat, NEW q \in Nat, p < q, q - p < N
  PROVE  Slot(p) # Slot(q)
<1> USE RingAssumption DEF RingAssumption
<1> DEFINE a == p \div N
           b == q \div N
<1>1. /\ p = N * a + (p % N) /\ q = N * b + (q % N)
      /\ a \in Int /\ b \in Int
  OBVIOUS
<1>2. SUFFICES ASSUME p % N = q % N PROVE FALSE
  BY DEF Slot
<1>3. q - p = N * (b - a)
  BY <1>1, <1>2
<1>4. ASSUME NEW k \in Int, NEW d \in Nat, 0 < d, d < N, d = N * k PROVE FALSE
  <2>1. k > 0 => N * k >= N
    OBVIOUS
  <2>2. k <= 0 => N * k <= 0
    OBVIOUS
  <2> QED
    BY <1>4, <2>1, <2>2
<1> HIDE DEF a, b
<1>5. b - a \in Int /\ q - p \in Nat
  BY <1>1
<1> QED
  BY <1>3, <1>4, <1>5

(* A lap later it is the same slot.                                         *)
LEMMA SlotsRepeat ==
  ASSUME NEW p \in Nat
  PROVE  Slot(p + N) = Slot(p)
<1> USE RingAssumption DEF RingAssumption, Slot
<1>1. p + N = N * ((p \div N) + 1) + (p % N)
  OBVIOUS
<1>2. (p + N) \div N = (p \div N) + 1
  BY <1>1
<1> QED
  BY <1>1, <1>2

-----------------------------------------------------------------------------
(* The position up to which the consumer has taken records.                 *)
Taken == IF reader.pc \in {"scan", "store2"} THEN reader.r ELSE read_seq

(* The ranges these steps need. *)
LEMMA RingRanges ==
  ASSUME IInv
  PROVE  /\ write_seq \in Nat /\ read_seq \in Nat /\ sent \in Nat /\ drops \in Nat
         /\ sampled \in Nat /\ rewound \in Nat
         /\ writer.w \in Nat /\ reader.r \in Nat /\ reader.w \in Nat
         /\ Written \in Nat /\ Taken \in Nat
         /\ \A i \in 0..(N - 1) : slots[i].frame \in Nat /\ slots[i].seq \in Nat
         /\ published \cup reader.out \subseteq Nat
         /\ writer \in Scanner /\ reader \in Drain
<1> USE RingAssumption DEF RingAssumption, IInv, RTypeOK, Positions
<1>1. writer.w \in Nat /\ reader.r \in Nat /\ reader.w \in Nat /\ reader.out \subseteq Nat
  BY DEF Scanner, Drain, Frames
<1>2. \A i \in 0..(N - 1) : slots[i].frame \in Nat /\ slots[i].seq \in Nat
  BY DEF Record
<1>3. published \subseteq Nat
  BY DEF Frames
<1>5. /\ write_seq \in Nat /\ read_seq \in Nat /\ sent \in Nat /\ drops \in Nat
      /\ sampled \in Nat /\ rewound \in Nat /\ writer \in Scanner /\ reader \in Drain
  OBVIOUS
<1>6. Written \in Nat /\ Taken \in Nat
  BY <1>1, <1>5 DEF Written, Taken
<1> QED
  BY <1>1, <1>2, <1>3, <1>5, <1>6

-----------------------------------------------------------------------------
(***************************************************************************)
(* The newest records.  Unless a kill has lost the write position, the      *)
(* newest N - 1 records are intact at every moment, in the middle of a      *)
(* write as well, and those of them behind a read position are with the     *)
(* core or in the batch in its hands.                                       *)
(***************************************************************************)
FrameAt(q) == slots[Slot(q)].frame
Intact(q) == Authentic(slots[Slot(q)], q)
Newest(q) == Written - N < q /\ q < Written

(* Frames the core has, or a process fell with.                             *)
Saved == published \cup fell \cup (IF ReaderAt("publish") THEN reader.out ELSE {})

NewestIntact ==
    /\ \A q \in Nat : Newest(q) => Intact(q)
    /\ WriterAt("fill") => slots[Slot(writer.w)] = NoFrame
    /\ writer.pc \in {"pub", "pub2"} =>
          slots[Slot(writer.w)] = [seq |-> writer.w, frame |-> sent]

PassedIsSaved ==
    \A q \in Nat : Newest(q) =>
       /\ q < read_seq => FrameAt(q) \in Saved
       /\ reader.pc \in {"scan", "store2"} /\ q < reader.r =>
             FrameAt(q) \in Saved \cup reader.out

NewestInv == ~broken => NewestIntact /\ PassedIsSaved

(* Ranges, and what is known of the read positions while nothing is broken. *)
LEMMA SoundRanges ==
  ASSUME IInv, ~broken
  PROVE  /\ N \in Nat /\ N >= 2
         /\ Written \in Nat /\ read_seq \in Nat /\ read_seq <= Written
         /\ reader.r \in Nat /\ reader.r <= reader.w /\ reader.w <= Written
         /\ reader.w \in Nat
         /\ writer.w \in Nat /\ sent \in Nat /\ write_seq \in Nat
         /\ drops \in Nat /\ sampled \in Nat
         /\ writer \in Scanner /\ reader \in Drain
         /\ slots \in [0..(N - 1) -> Record]
         /\ InHand => writer.w < sent /\ Written = writer.w
<1>1. ReaderSound /\ WriterSound /\ slots \in [0..(N - 1) -> Record]
  BY DEF IInv, RTypeOK
<1>2. reader.r <= reader.w /\ read_seq <= Written /\ reader.w <= Written
  BY <1>1 DEF ReaderSound
<1>3. InHand => writer.w < sent /\ Written = writer.w
  BY <1>1 DEF WriterSound, InHand, Written, WriterAt
<1>4. N \in Nat /\ N >= 2
  BY RingAssumption DEF RingAssumption
<1> QED
  BY <1>1, <1>2, <1>3, <1>4, RingRanges

(* The producer's stores touch none of the newest records.                  *)
LEMMA NewestUntouched ==
  ASSUME IInv, ~broken, ClearSlot \/ FillSlot, NEW q \in Nat, Newest(q)
  PROVE  slots'[Slot(q)] = slots[Slot(q)]
<1>r. writer.w \in Nat /\ Written \in Nat /\ N \in Nat
      /\ slots \in [0..(N - 1) -> Record]
  BY SoundRanges
<1>1. Written = writer.w
  BY SoundRanges DEF ClearSlot, FillSlot, InHand, WriterAt
<1>2. Slot(q) # Slot(writer.w)
  BY <1>r, <1>1, SlotsDiffer DEF Newest
<1>3. Slot(q) \in 0..(N - 1)
  BY SlotRange
<1> QED
  BY <1>r, <1>2, <1>3 DEF ClearSlot, FillSlot

(* What a step does to the window of the newest records.                    *)
LEMMA StepWindow ==
  ASSUME IInv, Next, ~broken'
  PROVE  /\ ~broken
         /\ \/ AdvanceWrite /\ Written' = Written + 1
            \/ ~AdvanceWrite /\ Written' = Written
         /\ ClearSlot \/ FillSlot \/ UNCHANGED slots
<1>r. writer \in Scanner /\ WriterSound
  BY RingRanges DEF IInv
<1>1. CASE HostLoop \/ EndBurst \/ SampleOut \/ Oversize \/ Write \/ ClearRead \/ AdvanceRead
           \/ ClearDrops \/ StoreDrops \/ StartScanner
  <2>1. UNCHANGED <<slots, broken, write_seq>> /\ writer.pc # "pub2" /\ ~AdvanceWrite
    BY <1>1 DEF HostLoop, EndBurst, SampleOut, Oversize, Write, ClearRead, AdvanceRead,
                ClearDrops, StoreDrops, StartScanner, WriterAt, AdvanceWrite
  <2>2. writer'.pc # "pub2"
    <3>1. CASE HostLoop
      <4> DEFINE lean == Pressed(write_seq, read_seq)
      <4>1. writer' \in {[writer EXCEPT !.pc = "down"], [writer EXCEPT !.pc = "burst", !.lean = lean]}
        BY <3>1 DEF HostLoop
      <4> HIDE DEF lean
      <4> QED
        BY <1>r, <4>1 DEF Scanner
    <3>2. CASE EndBurst
      BY <3>2, <1>r DEF EndBurst, Scanner
    <3>3. CASE SampleOut
      BY <3>3, <2>1 DEF SampleOut
    <3>4. CASE Write \/ Oversize
      BY <3>4, <1>r DEF Write, Oversize, Scanner
    <3>7. CASE ClearDrops
      BY <3>7, <1>r DEF ClearDrops, Scanner
    <3>8. CASE StoreDrops
      BY <3>8, <1>r DEF StoreDrops, Scanner
    <3>5. CASE ClearRead \/ AdvanceRead
      BY <3>5, <1>r DEF ClearRead, AdvanceRead, Scanner
    <3>6. CASE StartScanner
      BY <3>6 DEF StartScanner
    <3> QED
      BY <1>1, <3>1, <3>2, <3>3, <3>4, <3>5, <3>6, <3>7, <3>8
  <2> QED
    BY <2>1, <2>2 DEF Written, WriterAt
<1>2. CASE ClearSlot \/ FillSlot
  <2>1. UNCHANGED <<broken, write_seq>> /\ writer.pc # "pub2" /\ writer'.pc # "pub2"
        /\ ~AdvanceWrite
    BY <1>2, <1>r DEF ClearSlot, FillSlot, Scanner, WriterAt, AdvanceWrite
  <2> QED
    BY <1>2, <2>1 DEF Written, WriterAt
<1>3. CASE ClearWrite
  <2>1. /\ UNCHANGED <<slots, broken>> /\ writer.pc = "pub" /\ writer'.pc = "pub2"
        /\ writer'.w = writer.w /\ write_seq = writer.w /\ ~AdvanceWrite
    BY <1>3, <1>r DEF ClearWrite, Scanner, WriterAt, WriterSound, InHand, AdvanceWrite
  <2> QED
    BY <2>1 DEF Written, WriterAt
<1>4. CASE AdvanceWrite
  <2>1. /\ UNCHANGED <<slots, broken>> /\ writer.pc = "pub2" /\ writer'.pc = "burst"
        /\ write_seq' = writer.w + 1
    BY <1>4, <1>r DEF AdvanceWrite, Scanner, WriterAt
  <2> QED
    BY <1>4, <2>1 DEF Written, WriterAt
<1>5. CASE KillScanner
  <2>1. /\ UNCHANGED <<slots, write_seq>> /\ ~broken /\ writer.pc # "pub2"
        /\ writer'.pc = "down" /\ ~AdvanceWrite
    BY <1>5 DEF KillScanner, WriterAt, AdvanceWrite
  <2> QED
    BY <2>1 DEF Written, WriterAt
<1>6. CASE Consumer \/ KillCore \/ StartCore
  <2>1. UNCHANGED <<slots, broken, write_seq, writer>> /\ ~AdvanceWrite
    <3>1. UNCHANGED <<slots, broken, write_seq, writer>>
      BY <1>6 DEF Consumer, BadHeader, ReadHeader, ScanSlot, EndScan, StoreRead,
                  StoreReadAs, Publish, KillCore, StartCore, wvars
    <3>2. AdvanceWrite => writer'.pc # writer.pc
      BY <1>r DEF AdvanceWrite, WriterAt, Scanner
    <3> QED
      BY <3>1, <3>2
  <2> QED
    BY <2>1 DEF Written, WriterAt
<1> QED
  BY <1>1, <1>2, <1>3, <1>4, <1>5, <1>6 DEF Next, Producer

(* The newest records stay intact while the next one is written.            *)
LEMMA NewestSteps ==
  ASSUME IInv, Next, ~broken', NewestIntact
  PROVE  NewestIntact'
<1>0. ~broken
  BY StepWindow
<1>r. /\ N \in Nat /\ N >= 2 /\ Written \in Nat /\ writer.w \in Nat /\ sent \in Nat
      /\ writer \in Scanner /\ slots \in [0..(N - 1) -> Record]
      /\ (InHand => writer.w < sent /\ Written = writer.w)
  BY <1>0, SoundRanges
<1>k. Slot(writer.w) \in 0..(N - 1)
  BY <1>r, SlotRange
<1>1. CASE ClearSlot
  <2>1. /\ writer'.pc = "fill" /\ writer'.w = writer.w
        /\ slots'[Slot(writer.w)] = NoFrame /\ Written' = Written
    <3>1. writer'.pc = "fill" /\ writer'.w = writer.w /\ slots'[Slot(writer.w)] = NoFrame
      BY <1>1, <1>r, <1>k DEF ClearSlot, Scanner
    <3>2. ~AdvanceWrite
      BY <3>1, <1>r DEF AdvanceWrite, Scanner
    <3> QED
      BY <3>1, <3>2, StepWindow
  <2>2. ASSUME NEW q \in Nat, Newest(q)' PROVE Intact(q)'
    BY <1>0, <1>1, <2>1, <2>2, NewestUntouched DEF NewestIntact, Newest, Intact
  <2> QED
    BY <2>1, <2>2 DEF NewestIntact, WriterAt
<1>2. CASE FillSlot
  <2>1. /\ writer'.pc = "pub" /\ writer'.w = writer.w /\ sent' = sent
        /\ slots'[Slot(writer.w)] = [seq |-> writer.w, frame |-> sent] /\ Written' = Written
    <3>1. /\ writer'.pc = "pub" /\ writer'.w = writer.w /\ sent' = sent
          /\ slots'[Slot(writer.w)] = [seq |-> writer.w, frame |-> sent]
      BY <1>2, <1>r, <1>k DEF FillSlot, Scanner
    <3>2. ~AdvanceWrite
      BY <3>1, <1>r DEF AdvanceWrite, Scanner
    <3> QED
      BY <3>1, <3>2, StepWindow
  <2>2. ASSUME NEW q \in Nat, Newest(q)' PROVE Intact(q)'
    BY <1>0, <1>2, <2>1, <2>2, NewestUntouched DEF NewestIntact, Newest, Intact
  <2> QED
    BY <2>1, <2>2 DEF NewestIntact, WriterAt
<1>3. CASE AdvanceWrite
  <2>1. /\ writer.pc = "pub2" /\ writer'.pc = "burst" /\ UNCHANGED slots
        /\ Written = writer.w /\ writer.w < sent /\ Written' = Written + 1
    <3>1. writer.pc = "pub2" /\ writer'.pc = "burst" /\ UNCHANGED slots
      BY <1>3, <1>r DEF AdvanceWrite, Scanner, WriterAt
    <3>2. Written' = Written + 1
      BY <1>3, StepWindow
    <3> QED
      BY <3>1, <3>2, <1>r DEF InHand
  <2>2. ASSUME NEW q \in Nat, Newest(q)' PROVE Intact(q)'
    <3>1. q < Written + 1 /\ Written + 1 - N < q
      BY <1>r, <2>1, <2>2 DEF Newest
    <3>2. CASE q = Written
      <4>1. slots[Slot(q)] = [seq |-> q, frame |-> sent] /\ sent # 0
        BY <1>r, <2>1, <3>2 DEF NewestIntact
      <4> QED
        BY <2>1, <4>1 DEF Intact, Authentic
    <3>3. CASE q # Written
      <4>1. Newest(q)
        BY <1>r, <3>1, <3>3 DEF Newest
      <4> QED
        BY <2>1, <4>1 DEF NewestIntact, Intact
    <3> QED
      BY <3>2, <3>3
  <2> QED
    BY <2>1, <2>2 DEF NewestIntact, WriterAt
<1>4. CASE ~AdvanceWrite /\ UNCHANGED slots /\ ~ClearSlot /\ ~FillSlot
  <2>1. Written' = Written
    BY <1>4, StepWindow
  <2>2. ASSUME NEW q \in Nat, Newest(q)' PROVE Intact(q)'
    BY <1>4, <2>1, <2>2 DEF NewestIntact, Newest, Intact
  <2>3. /\ writer'.pc # "fill" \/ UNCHANGED writer
        /\ \/ writer'.pc \notin {"pub", "pub2"}
           \/ UNCHANGED <<writer, sent>>
           \/ writer.pc = "pub" /\ writer'.w = writer.w /\ sent' = sent
    <3>1. CASE HostLoop
      <4> DEFINE lean == Pressed(write_seq, read_seq)
      <4>1. writer' \in {[writer EXCEPT !.pc = "down"], [writer EXCEPT !.pc = "burst", !.lean = lean]}
        BY <3>1 DEF HostLoop
      <4> HIDE DEF lean
      <4> QED
        BY <1>r, <4>1 DEF Scanner
    <3>2. CASE EndBurst \/ ClearWrite
      BY <3>2, <1>r DEF EndBurst, ClearWrite, Scanner, WriterAt
    <3>3. CASE SampleOut
      BY <3>3 DEF SampleOut, WriterAt
    <3>4. CASE Write \/ Oversize
      BY <3>4, <1>r DEF Write, Oversize, Scanner
    <3>5. CASE ClearRead \/ AdvanceRead \/ ClearDrops
      BY <3>5, <1>r DEF ClearRead, AdvanceRead, ClearDrops, Scanner
    <3>8. CASE StoreDrops
      BY <3>8, <1>r DEF StoreDrops, Scanner
    <3>6. CASE StartScanner \/ KillScanner
      BY <3>6 DEF StartScanner, KillScanner
    <3>7. CASE Consumer \/ KillCore \/ StartCore
      BY <3>7 DEF Consumer, BadHeader, ReadHeader, ScanSlot, EndScan, StoreRead,
                  StoreReadAs, Publish, KillCore, StartCore, wvars
    <3> QED
      BY <1>4, <3>1, <3>2, <3>3, <3>4, <3>5, <3>6, <3>7, <3>8 DEF Next, Producer
  <2> QED
    BY <1>4, <2>2, <2>3 DEF NewestIntact, WriterAt
<1> QED
  BY <1>1, <1>2, <1>3, <1>4, StepWindow

(* Nothing is taken from the core again.                                    *)
LEMMA SavedGrows ==
  ASSUME IInv, Next
  PROVE  Saved \subseteq Saved'
<1>r. reader \in Drain
  BY RingRanges
<1>1. CASE Producer \/ StartScanner
  <2>1. UNCHANGED <<published, fell, reader>>
    BY <1>1 DEF Producer, HostLoop, EndBurst, SampleOut, Oversize, Write, ClearRead,
        AdvanceRead, ClearDrops, StoreDrops, ClearSlot, FillSlot, ClearWrite, AdvanceWrite,
        StartScanner, rvars
  <2> QED
    BY <2>1 DEF Saved, ReaderAt
<1>2. CASE KillScanner
  BY <1>2 DEF KillScanner, Saved, ReaderAt, rvars
<1>3. CASE BadHeader \/ ReadHeader \/ StartCore
  <2>1. UNCHANGED <<published, fell>> /\ (reader.pc # "publish" \/ UNCHANGED reader)
    BY <1>3 DEF BadHeader, ReadHeader, StartCore, ReaderAt
  <2> QED
    BY <2>1 DEF Saved, ReaderAt
<1>4. CASE ScanSlot \/ EndScan \/ StoreRead
  <2>1. UNCHANGED <<published, fell>> /\ reader.pc # "publish"
    BY <1>4 DEF ScanSlot, EndScan, StoreRead, StoreReadAs, ReaderAt
  <2> QED
    BY <2>1 DEF Saved, ReaderAt
<1>5. CASE Publish
  BY <1>5 DEF Publish, Saved, ReaderAt
<1>6. CASE KillCore
  BY <1>6 DEF KillCore, Saved, ReaderAt
<1> QED
  BY <1>1, <1>2, <1>3, <1>4, <1>5, <1>6 DEF Next, Consumer

(* What the steps of the consumer do to the read positions.                 *)
LEMMA ReadPositions ==
  ASSUME IInv, ~broken, Next
  PROVE  /\ \/ read_seq' \in {0, read_seq}
            \/ AdvanceRead /\ read_seq' = Written - N + 1
            \/ /\ reader.pc = "store2" /\ read_seq' = reader.r
               /\ reader'.pc = "publish" /\ Saved' = Saved \cup reader.out
         /\ \/ reader'.pc \notin {"scan", "store2"}
            \/ /\ reader.pc \in {"scan", "store2"}
               /\ reader'.r = reader.r /\ reader'.out = reader.out
            \/ /\ reader.pc = "scan" /\ reader'.r = reader.r + 1
               /\ reader'.out = IF Intact(reader.r)
                                THEN reader.out \cup {FrameAt(reader.r)} ELSE reader.out
            \/ /\ reader'.r = OldestIntact(write_seq, read_seq)
               /\ write_seq <= Written /\ read_seq <= write_seq
<1>r. /\ reader \in Drain /\ Written \in Nat /\ writer.w \in Nat /\ write_seq \in Nat
      /\ read_seq \in Nat /\ WriterSound /\ (InHand => Written = writer.w)
  BY SoundRanges DEF IInv
<1>1. CASE AdvanceRead
  <2>1. read_seq' = writer.w - N + 1 /\ writer.pc = "lap2" /\ UNCHANGED reader
    BY <1>1 DEF AdvanceRead, WriterAt, rvars
  <2>2. Written = writer.w
    BY <1>r, <2>1 DEF InHand
  <2> QED
    BY <1>1, <2>1, <2>2
<1>2. CASE ClearRead
  BY <1>2 DEF ClearRead, rvars
<1>3. CASE \/ HostLoop \/ EndBurst \/ SampleOut \/ Oversize \/ Write \/ ClearSlot
           \/ FillSlot \/ ClearWrite \/ AdvanceWrite \/ StartScanner \/ KillScanner
           \/ ClearDrops \/ StoreDrops \/ BadHeader
  <2>1. UNCHANGED <<read_seq, reader>>
    BY <1>3 DEF HostLoop, EndBurst, SampleOut, Oversize, Write, ClearSlot, FillSlot,
        ClearWrite, AdvanceWrite, ClearDrops, StoreDrops, StartScanner, KillScanner,
        BadHeader, rvars
  <2> QED
    BY <2>1
<1>4. CASE ReadHeader
  <2>1. /\ read_seq' = read_seq /\ reader'.r = OldestIntact(write_seq, read_seq)
        /\ read_seq <= write_seq
    BY <1>4, <1>r DEF ReadHeader
  <2>2. write_seq <= Written
    BY <1>r DEF Written, WriterAt, WriterSound
  <2> QED
    BY <2>1, <2>2
<1>5. CASE ScanSlot
  <2>1. read_seq' = read_seq /\ reader.pc = "scan" /\ reader'.r = reader.r + 1
    BY <1>5, <1>r DEF ScanSlot, ReaderAt, Drain
  <2>2. reader'.out = IF Intact(reader.r)
                      THEN reader.out \cup {FrameAt(reader.r)} ELSE reader.out
    BY <1>5, <1>r DEF ScanSlot, Drain, Intact, FrameAt
  <2> QED
    BY <2>1, <2>2
<1>6. CASE EndScan
  <2>1. read_seq' = 0 /\ reader.pc = "scan" /\ reader'.r = reader.r /\ reader'.out = reader.out
    BY <1>6, <1>r DEF EndScan, ReaderAt, Drain
  <2> QED
    BY <2>1
<1>7. CASE StoreRead
  <2>1. /\ read_seq' = reader.r /\ reader.pc = "store2" /\ reader'.pc = "publish"
        /\ reader'.out = reader.out /\ UNCHANGED <<published, fell>>
    BY <1>7, <1>r DEF StoreRead, StoreReadAs, ReaderAt, Drain
  <2>2. Saved' = Saved \cup reader.out
    BY <2>1 DEF Saved, ReaderAt
  <2> QED
    BY <2>1, <2>2
<1>8. CASE Publish \/ KillCore \/ StartCore
  <2>1. read_seq' = read_seq
    BY <1>8 DEF Publish, KillCore, StartCore
  <2>2. reader'.pc \in {"idle", "down"}
    <3>1. CASE Publish
      BY <3>1, <1>r DEF Publish, Drain
    <3>2. CASE KillCore
      BY <3>2 DEF KillCore
    <3>3. CASE StartCore
      BY <3>3, <1>r DEF StartCore, Drain
    <3> QED
      BY <1>8, <3>1, <3>2, <3>3
  <2> QED
    BY <2>1, <2>2
<1> QED
  BY <1>1, <1>2, <1>3, <1>4, <1>5, <1>6, <1>7, <1>8 DEF Next, Producer, Consumer

(* What lies behind a read position is with the core, step by step.         *)
LEMMA PassedSteps ==
  ASSUME IInv, Next, ~broken', NewestIntact, PassedIsSaved
  PROVE  PassedIsSaved'
<1>0. ~broken
  BY StepWindow
<1>r. /\ N \in Nat /\ Written \in Nat /\ read_seq \in Nat /\ reader.r \in Nat
      /\ read_seq <= Written /\ reader.r <= Written /\ write_seq \in Nat
  BY <1>0, SoundRanges
<1> SUFFICES ASSUME NEW q \in Nat, Newest(q)'
             PROVE  /\ q < read_seq' => FrameAt(q)' \in Saved'
                    /\ reader'.pc \in {"scan", "store2"} /\ q < reader'.r =>
                          FrameAt(q)' \in Saved' \cup reader'.out
  BY DEF PassedIsSaved
<1>1. CASE AdvanceWrite /\ q >= Written
  <2>1. UNCHANGED <<read_seq, reader>>
    BY <1>1 DEF AdvanceWrite, rvars
  <2> QED
    BY <1>1, <1>r, <2>1
<1>2. CASE ~(AdvanceWrite /\ q >= Written)
  <2>1. Newest(q)
    <3>1. (Written' = Written + 1 /\ q < Written) \/ Written' = Written
      BY <1>2, <1>r, StepWindow
    <3>2. Written' - N < q /\ q < Written'
      BY DEF Newest
    <3> QED
      BY <1>r, <3>1, <3>2 DEF Newest
  <2>2. FrameAt(q)' = FrameAt(q)
    BY <1>0, <2>1, NewestUntouched, StepWindow DEF FrameAt
  <2>3. /\ q < read_seq => FrameAt(q) \in Saved
        /\ reader.pc \in {"scan", "store2"} /\ q < reader.r =>
              FrameAt(q) \in Saved \cup reader.out
        /\ Intact(q) /\ Written - N < q
    BY <2>1 DEF PassedIsSaved, NewestIntact, Newest
  <2>4. Saved \subseteq Saved'
    BY SavedGrows
  <2>5. ASSUME q < read_seq' PROVE FrameAt(q) \in Saved'
    <3>1. CASE read_seq' \in {0, read_seq}
      BY <2>3, <2>4, <2>5, <3>1
    <3>2. CASE read_seq' = Written - N + 1
      BY <1>r, <2>3, <2>5, <3>2
    <3>3. CASE /\ reader.pc = "store2" /\ read_seq' = reader.r
               /\ Saved' = Saved \cup reader.out
      BY <2>3, <2>5, <3>3
    <3> QED
      BY <1>0, <3>1, <3>2, <3>3, ReadPositions
  <2>6. ASSUME reader'.pc \in {"scan", "store2"}, q < reader'.r
        PROVE  FrameAt(q) \in Saved' \cup reader'.out
    <3>1. CASE /\ reader.pc \in {"scan", "store2"}
               /\ reader'.r = reader.r /\ reader'.out = reader.out
      BY <2>3, <2>4, <2>6, <3>1
    <3>2. CASE /\ reader.pc = "scan" /\ reader'.r = reader.r + 1
               /\ reader'.out = IF Intact(reader.r)
                                THEN reader.out \cup {FrameAt(reader.r)} ELSE reader.out
      <4>1. q < reader.r \/ q = reader.r
        BY <1>r, <2>6, <3>2
      <4>2. q = reader.r => FrameAt(q) \in reader'.out
        BY <2>3, <3>2
      <4> QED
        BY <2>3, <2>4, <3>2, <4>1, <4>2
    <3>3. CASE /\ reader'.r = OldestIntact(write_seq, read_seq)
               /\ write_seq <= Written /\ read_seq <= write_seq
      <4>1. q < read_seq
        BY <1>r, <2>3, <2>6, <3>3 DEF OldestIntact
      <4> QED
        BY <2>3, <2>4, <4>1
    <3> QED
      BY <1>0, <2>6, <3>1, <3>2, <3>3, ReadPositions
  <2> QED
    BY <2>2, <2>5, <2>6
<1> QED
  BY <1>1, <1>2

LEMMA NextNewest ==
  ASSUME IInv, NewestInv, [Next]_vars
  PROVE  NewestInv'
<1>1. CASE UNCHANGED vars
  BY <1>1 DEF vars, NewestInv, NewestIntact, PassedIsSaved, Newest, Intact, Saved, FrameAt,
              Written, WriterAt, ReaderAt
<1>2. CASE Next
  BY <1>2, StepWindow, NewestSteps, PassedSteps DEF NewestInv
<1> QED
  BY <1>1, <1>2

LEMMA InitNewest == Init => NewestInv
<1> SUFFICES ASSUME Init PROVE NewestInv
  OBVIOUS
<1>1. Written = 0 /\ writer.pc = "loop"
  BY DEF Init, Written, WriterAt
<1>2. \A q \in Nat : ~Newest(q)
  BY <1>1 DEF Newest
<1> QED
  BY <1>1, <1>2 DEF NewestInv, NewestIntact, PassedIsSaved, WriterAt

(* NewestSurvives: whatever half-stored positions the two sides computed    *)
(* with, laps and kills included, at rest each of the newest N - 1 frames is *)
(* with the core, fell with a process, or is ahead of the next batch.        *)
THEOREM NewestHolds == Spec => []NewestSurvives
<1>1. IInv /\ NewestInv => NewestSurvives
  <2> SUFFICES ASSUME IInv, NewestInv, Resting, ~broken,
                      NEW seq \in (write_seq - N + 1)..(write_seq - 1), seq >= 0
               PROVE  FrameAt(seq) \in published \cup fell \/ Ahead(seq)
    BY DEF NewestSurvives, FrameAt
  <2>r. N \in Nat /\ write_seq \in Nat /\ read_seq \in Nat
    BY SoundRanges
  <2>1. Written = write_seq /\ Saved = published \cup fell
    BY DEF Resting, Written, WriterAt, Saved, ReaderAt
  <2>2. Newest(seq) /\ seq \in Nat
    BY <2>r, <2>1 DEF Newest
  <2>3. CASE seq < read_seq
    BY <2>1, <2>2, <2>3 DEF NewestInv, PassedIsSaved
  <2>4. CASE seq >= read_seq
    <3>1. seq \in OldestIntact(write_seq, read_seq)..(write_seq - 1)
      BY <2>r, <2>4 DEF OldestIntact
    <3> QED
      BY <2>2, <3>1 DEF NewestInv, NewestIntact, Intact, Ahead
  <2> QED
    BY <2>r, <2>3, <2>4
<1> QED
  BY <1>1, InitIInv, NextIInv, InitNewest, NextNewest, PTL DEF Spec

-----------------------------------------------------------------------------
(***************************************************************************)
(* No frame twice.  Frames lie in the ring in the order of their production, *)
(* kills or not, and what the consumer took since a read position was last   *)
(* set back is older than what it has still to take.  The second clause is   *)
(* needed at the position in the header too while the consumer scans, since  *)
(* a core killed there leaves that one to the next.                          *)
(***************************************************************************)

Fresh(f) == f > rewound

(* Not newer than the frame in the producer's hand, older until it is stored. *)
Known(frame) ==
    /\ frame <= sent
    /\ writer.pc \in {"lap", "lap2", "count", "count2", "slot", "fill"} => frame < sent

SlotKnown(i) ==
    slots[i].frame # 0 =>
        Known(slots[i].frame) /\ slots[i].seq <= Written /\ Slot(slots[i].seq) = i

SlotsOrdered(i, j) ==
    slots[i].frame # 0 /\ slots[j].frame # 0 /\ slots[i].seq < slots[j].seq =>
        slots[i].frame < slots[j].frame

(* A frame is older than every record from a position on. *)
Older(f, from) ==
    \A i \in 0..(N - 1) :
        slots[i].frame # 0 /\ from <= slots[i].seq => f < slots[i].frame

InOrder == \A i, j \in 0..(N - 1) : SlotKnown(i) /\ SlotsOrdered(i, j)

TakenOnce ==
    /\ \A f \in again \cup (published \cap reader.out) : ~Fresh(f)
    /\ \A f \in published \cup reader.out : Known(f) /\ (Fresh(f) => Older(f, Taken))
    /\ ReaderAt("scan") => \A f \in published : Fresh(f) => Older(f, read_seq)
    /\ WriterAt("lap2") => rewound = sent

OnceInv == ~broken => InOrder /\ TakenOnce

LEMMA OnceRanges ==
  ASSUME IInv
  PROVE  /\ sent \in Nat /\ rewound \in Nat /\ Written \in Nat /\ Taken \in Nat
         /\ read_seq \in Nat /\ N \in Nat
         /\ \A i \in 0..(N - 1) : slots[i].frame \in Nat /\ slots[i].seq \in Nat
         /\ published \cup reader.out \subseteq Nat
         /\ again \subseteq published
  BY RingRanges, RingAssumption DEF RingAssumption, IInv, RTypeOK

(* What is known of a frame stays known: the frames made only grow, and a    *)
(* new one is on its way when the producer takes it in hand.                 *)
LEMMA KnownKept ==
  ASSUME IInv, Next, NEW n \in Nat, Known(n)
  PROVE  Known(n)'
<1>r. sent \in Nat /\ writer \in Scanner
  BY RingRanges
<1> DEFINE Early == {"lap", "lap2", "count", "count2", "slot", "fill"}
<1>1. CASE SampleOut \/ Oversize \/ Write
  <2>1. sent' = sent + 1 /\ n < sent'
    BY <1>1, <1>r DEF SampleOut, Oversize, Write, Known
  <2> QED
    BY <1>r, <2>1 DEF Known
<1>2. CASE ~(SampleOut \/ Oversize \/ Write)
  <2>1. sent' = sent /\ (writer'.pc \in Early => writer.pc \in Early)
    <3>1. CASE HostLoop
      <4> DEFINE lean == Pressed(write_seq, read_seq)
      <4>1. writer' \in {[writer EXCEPT !.pc = "down"], [writer EXCEPT !.pc = "burst", !.lean = lean]}
        BY <3>1 DEF HostLoop
      <4> HIDE DEF lean
      <4> QED
        BY <3>1, <1>r, <4>1 DEF HostLoop, Scanner
    <3>2. CASE EndBurst
      BY <3>2, <1>r DEF EndBurst, Scanner
    <3>8. CASE StartScanner \/ KillScanner
      BY <3>8 DEF StartScanner, KillScanner
    <3>3. CASE ClearRead \/ AdvanceRead \/ ClearSlot \/ FillSlot
      BY <3>3, <1>r DEF ClearRead, AdvanceRead, ClearSlot, FillSlot, Scanner, WriterAt
    <3>4. CASE ClearDrops
      BY <3>4, <1>r DEF ClearDrops, Scanner
    <3>5. CASE StoreDrops
      BY <3>5, <1>r DEF StoreDrops, Scanner, WriterAt
    <3>6. CASE ClearWrite \/ AdvanceWrite
      BY <3>6, <1>r DEF ClearWrite, AdvanceWrite, Scanner
    <3>7. CASE Consumer \/ KillCore \/ StartCore
      <4>1. UNCHANGED <<sent, writer>>
        BY <3>7 DEF Consumer, BadHeader, ReadHeader, ScanSlot, EndScan, StoreRead, StoreReadAs,
                    Publish, KillCore, StartCore, wvars
      <4> QED
        BY <4>1
    <3> QED
      BY <1>2, <3>1, <3>2, <3>3, <3>4, <3>5, <3>6, <3>7, <3>8 DEF Next, Producer
  <2> QED
    BY <2>1 DEF Known
<1> QED
  BY <1>1, <1>2

(* The order of the records under every step that writes none.               *)
LEMMA OrderKept ==
  ASSUME IInv, Next, ~broken', InOrder, UNCHANGED slots
  PROVE  InOrder'
<1>r. /\ Written \in Nat /\ Written <= Written'
      /\ \A i \in 0..(N - 1) : slots[i].frame \in Nat /\ slots[i].seq \in Nat
  BY OnceRanges, StepWindow
<1> SUFFICES ASSUME NEW i \in 0..(N - 1), NEW j \in 0..(N - 1)
             PROVE  SlotKnown(i)' /\ SlotsOrdered(i, j)'
  BY DEF InOrder
<1>1. SlotKnown(i) /\ SlotsOrdered(i, j)
  BY DEF InOrder
<1>w. Written' \in Nat
  BY <1>r, StepWindow
<1>2. SlotKnown(i)'
  <2> SUFFICES ASSUME slots[i].frame # 0
               PROVE  Known(slots[i].frame)' /\ slots[i].seq <= Written' /\ Slot(slots[i].seq) = i
    BY DEF SlotKnown
  <2>1. PICK n \in Nat : n = slots[i].frame
    BY <1>r
  <2>2. Known(n)'
    BY <1>1, <2>1, KnownKept DEF SlotKnown
  <2>3. Known(slots[i].frame)'
    BY <2>1, <2>2
  <2> QED
    BY <1>r, <1>w, <1>1, <2>3 DEF SlotKnown
<1>3. SlotsOrdered(i, j)'
  BY <1>1 DEF SlotsOrdered
<1> QED
  BY <1>2, <1>3

(* A step that leaves the slots alone and takes nothing.                     *)
LEMMA OnceFrame ==
  ASSUME IInv, IInv', Next, TakenOnce,
         UNCHANGED <<slots, published, again, rewound>>,
         reader'.out \subseteq reader.out, Taken <= Taken',
         ReaderAt("scan")' => read_seq' = read_seq /\ (ReaderAt("scan") \/ Taken = read_seq),
         WriterAt("lap2")' => WriterAt("lap2") /\ sent' = sent
  PROVE  TakenOnce'
<1>r. /\ Taken \in Nat /\ Taken' \in Nat
      /\ \A i \in 0..(N - 1) : slots[i].frame \in Nat /\ slots[i].seq \in Nat
      /\ published \cup reader.out \subseteq Nat
  <2>1. Taken' \in Nat
    <3>1. read_seq' \in Nat /\ reader'.r \in Nat
      BY RingAssumption DEF RingAssumption, IInv, RTypeOK, Positions, Drain
    <3> QED
      BY <3>1 DEF Taken
  <2> QED
    BY <2>1, OnceRanges
<1>1. \A f \in again' \cup (published' \cap reader'.out) : ~Fresh(f)'
  BY DEF TakenOnce, Fresh
<1>2. ASSUME NEW f \in published' \cup reader'.out
      PROVE  Known(f)' /\ (Fresh(f)' => Older(f, Taken)')
  <2>1. f \in published \cup reader.out /\ f \in Nat
    BY <1>r
  <2>2. Known(f) /\ (Fresh(f) => Older(f, Taken))
    BY <2>1 DEF TakenOnce
  <2>3. Known(f)'
    BY <2>1, <2>2, KnownKept
  <2>4. Fresh(f)' => Older(f, Taken)'
    BY <1>r, <2>2 DEF Older, Fresh
  <2> QED
    BY <2>3, <2>4
<1>3. ReaderAt("scan")' => \A f \in published' : Fresh(f)' => Older(f, read_seq)'
  <2> SUFFICES ASSUME ReaderAt("scan")', NEW f \in published, Fresh(f)
               PROVE  Older(f, read_seq)'
    BY DEF Fresh
  <2>1. read_seq' = read_seq
    OBVIOUS
  <2>2. Older(f, read_seq)
    BY DEF TakenOnce
  <2> QED
    BY <2>1, <2>2 DEF Older
<1>4. WriterAt("lap2")' => rewound' = sent'
  BY DEF TakenOnce
<1> QED
  BY <1>1, <1>2, <1>3, <1>4 DEF TakenOnce

(* Setting a position back makes every frame so far an old one.              *)
LEMMA OnceRewind ==
  ASSUME IInv, IInv', Next, TakenOnce, sent' = sent, rewound' = sent,
         published' \cup reader'.out \subseteq published \cup reader.out
  PROVE  TakenOnce'
<1>r. /\ sent \in Nat /\ published \cup reader.out \subseteq Nat
      /\ again' \subseteq published'
  BY OnceRanges DEF IInv, RTypeOK
<1>1. ASSUME NEW f \in published' \cup reader'.out
      PROVE  Known(f)' /\ ~Fresh(f)'
  <2>1. f \in Nat /\ Known(f)
    BY <1>r DEF TakenOnce
  <2>2. Known(f)'
    BY <2>1, KnownKept
  <2>3. f <= sent
    BY <2>1 DEF Known
  <2> QED
    BY <1>r, <2>1, <2>2, <2>3 DEF Fresh
<1>2. \A f \in again' \cup (published' \cap reader'.out) : ~Fresh(f)'
  BY <1>r, <1>1
<1>3. ReaderAt("scan")' => \A f \in published' : Fresh(f)' => Older(f, read_seq)'
  BY <1>1
<1>4. \A f \in published' \cup reader'.out : Known(f)' /\ (Fresh(f)' => Older(f, Taken)')
  BY <1>1
<1> QED
  BY <1>2, <1>3, <1>4 DEF TakenOnce

(* The producer, up to and after its stores to a slot.                       *)
LEMMA OnceProducer ==
  ASSUME IInv, IInv', Next, TakenOnce,
         \/ HostLoop \/ EndBurst \/ SampleOut \/ Oversize \/ Write \/ ClearDrops \/ StoreDrops
         \/ ClearWrite \/ AdvanceWrite \/ StartScanner \/ KillScanner
  PROVE  TakenOnce'
<1>r. writer \in Scanner /\ Taken \in Nat
  BY RingRanges
<1>0. UNCHANGED <<slots, reader, published, again, read_seq, rewound>>
  BY DEF HostLoop, EndBurst, SampleOut, Oversize, Write, ClearDrops, StoreDrops, ClearWrite,
         AdvanceWrite, StartScanner, KillScanner, rvars
<1>1. Taken' = Taken /\ (ReaderAt("scan")' => ReaderAt("scan"))
  BY <1>0 DEF Taken, ReaderAt
<1>2. writer'.pc # "lap2"
  <2>1. CASE HostLoop
    <3> DEFINE lean == Pressed(write_seq, read_seq)
    <3>1. writer' \in {[writer EXCEPT !.pc = "down"], [writer EXCEPT !.pc = "burst", !.lean = lean]}
      BY <2>1 DEF HostLoop
    <3> HIDE DEF lean
    <3> QED
      BY <1>r, <3>1 DEF Scanner
  <2>2. CASE EndBurst \/ Oversize
    BY <2>2, <1>r DEF EndBurst, Oversize, Scanner
  <2>7. CASE StartScanner \/ KillScanner
    BY <2>7 DEF StartScanner, KillScanner
  <2>3. CASE SampleOut
    BY <2>3 DEF SampleOut, WriterAt
  <2>4. CASE Write
    BY <2>4, <1>r DEF Write, Scanner
  <2>5. CASE ClearDrops \/ StoreDrops
    BY <2>5, <1>r DEF ClearDrops, StoreDrops, Scanner
  <2>6. CASE ClearWrite \/ AdvanceWrite
    BY <2>6, <1>r DEF ClearWrite, AdvanceWrite, Scanner
  <2> QED
    BY <2>1, <2>2, <2>3, <2>4, <2>5, <2>6, <2>7
<1> QED
  BY <1>r, <1>0, <1>1, <1>2, OnceFrame DEF WriterAt

(* The producer overwrites one slot with the newest frame.                   *)
LEMMA OnceSlots ==
  ASSUME IInv, Next, ~broken', InOrder, TakenOnce, ClearSlot \/ FillSlot
  PROVE  InOrder' /\ TakenOnce'
<1>r. /\ sent \in Nat /\ writer \in Scanner /\ writer.w \in Nat
      /\ Written \in Nat /\ Taken \in Nat /\ read_seq \in Nat
      /\ \A i \in 0..(N - 1) : slots[i].frame \in Nat /\ slots[i].seq \in Nat
      /\ published \cup reader.out \subseteq Nat
      /\ slots \in [0..(N - 1) -> Record]
  BY RingRanges DEF IInv, RTypeOK
<1>0. /\ UNCHANGED <<reader, published, again, read_seq, sent, rewound>>
      /\ writer'.pc # "lap2"
  BY <1>r DEF ClearSlot, FillSlot, rvars, Scanner
<1>1. Taken' = Taken
  BY <1>0 DEF Taken
<1>2. Written' = Written /\ Written = writer.w
  <2>1. ~AdvanceWrite
    BY DEF ClearSlot, FillSlot, AdvanceWrite, WriterAt
  <2>2. Written' = Written
    BY <2>1, StepWindow
  <2>3. InHand /\ writer.pc # "pub2"
    BY DEF ClearSlot, FillSlot, InHand, WriterAt
  <2> QED
    BY <2>2, <2>3 DEF IInv, WriterSound, Written, WriterAt
<1>p. PICK w \in Nat : w = writer.w
  BY <1>r
<1>k. PICK new \in 0..(N - 1) : new = Slot(w)
  BY SlotRange
<1>3. \A n \in Nat : Known(n) => Known(n)'
  BY KnownKept
<1>4. ASSUME NEW i \in 0..(N - 1), slots[i].frame # 0
      PROVE  /\ slots[i].frame < sent
             /\ slots[i].seq <= Written /\ Slot(slots[i].seq) = i
             /\ i # new => slots[i].seq < w
  <2>1. Known(slots[i].frame) /\ slots[i].seq <= Written /\ Slot(slots[i].seq) = i
    BY <1>4 DEF InOrder, SlotKnown
  <2>2. slots[i].frame < sent
    BY <2>1 DEF Known, ClearSlot, FillSlot, WriterAt
  <2>4. i # new => slots[i].seq # w
    BY <1>k, <2>1
  <2> QED
    BY <1>r, <1>2, <1>p, <2>1, <2>2, <2>4
<1>5. /\ \A i \in 0..(N - 1) : i # new => slots'[i] = slots[i]
      /\ \/ slots'[new].frame = 0
         \/ slots'[new].frame = sent /\ slots'[new].seq = w /\ Known(sent)'
  <2>1. CASE ClearSlot
    BY <2>1, <1>r, <1>p, <1>k DEF ClearSlot, NoFrame
  <2>2. CASE FillSlot
    <3>1. writer'.pc = "pub"
      BY <2>2, <1>r DEF FillSlot, Scanner
    <3> QED
      BY <2>2, <3>1, <1>0, <1>r, <1>p, <1>k DEF FillSlot, Known
  <2> QED
    BY <2>1, <2>2
<1>6. InOrder'
  <2> SUFFICES ASSUME NEW i \in 0..(N - 1), NEW j \in 0..(N - 1)
               PROVE  SlotKnown(i)' /\ SlotsOrdered(i, j)'
    BY DEF InOrder
  <2>1. SlotKnown(i)'
    <3>1. CASE i = new
      BY <1>5, <1>0, <1>2, <1>p, <1>k, <1>r, <3>1 DEF SlotKnown, Known
    <3>2. CASE i # new
      <4>1. slots'[i] = slots[i]
        BY <1>5, <3>2
      <4>2. slots[i].frame # 0 =>
               slots[i].frame < sent /\ slots[i].seq <= Written' /\ Slot(slots[i].seq) = i
        BY <1>2, <1>4
      <4> QED
        BY <1>0, <1>r, <4>1, <4>2 DEF SlotKnown, Known
    <3> QED
      BY <3>1, <3>2
  <2>2. SlotsOrdered(i, j)'
    <3>1. CASE i # new /\ j # new
      BY <1>5, <3>1 DEF InOrder, SlotsOrdered
    <3>2. CASE i # new /\ j = new
      BY <1>5, <1>4, <3>2 DEF SlotsOrdered
    <3>3. CASE i = new /\ j # new
      <4>1. slots'[j] = slots[j] /\ slots[j].seq \in Nat /\ (slots[j].frame # 0 => slots[j].seq < w)
        BY <1>r, <1>5, <1>4, <3>3
      <4> QED
        BY <1>5, <3>3, <4>1 DEF SlotsOrdered
    <3>4. CASE i = new /\ j = new
      BY <1>5, <3>4 DEF SlotsOrdered
    <3> QED
      BY <3>1, <3>2, <3>3, <3>4
  <2> QED
    BY <2>1, <2>2
<1>7. ASSUME NEW f \in published \cup reader.out, NEW p \in Nat, Older(f, p)
      PROVE  Older(f, p)'
  <2>1. f \in Nat /\ f < sent
    <3>1. f \in Nat /\ Known(f)
      BY <1>r DEF TakenOnce
    <3> QED
      BY <3>1 DEF Known, ClearSlot, FillSlot, WriterAt
  <2> SUFFICES ASSUME NEW i \in 0..(N - 1), slots'[i].frame # 0, p <= slots'[i].seq
               PROVE  f < slots'[i].frame
    BY DEF Older
  <2>2. CASE i = new
    BY <1>5, <2>1, <2>2
  <2>3. CASE i # new
    BY <1>5, <1>7, <2>3 DEF Older
  <2> QED
    BY <2>2, <2>3
<1>8. TakenOnce'
  <2>1. \A f \in again' \cup (published' \cap reader'.out) : ~Fresh(f)'
    BY <1>0 DEF TakenOnce, Fresh
  <2>2. ASSUME NEW f \in published' \cup reader'.out
        PROVE  Known(f)' /\ (Fresh(f)' => Older(f, Taken)')
    <3>1. f \in published \cup reader.out /\ f \in Nat
      BY <1>0, <1>r
    <3>2. Known(f) /\ (Fresh(f) => Older(f, Taken))
      BY <3>1 DEF TakenOnce
    <3>3. PICK p \in Nat : p = Taken
      BY <1>r
    <3>4. Fresh(f) => Older(f, p)'
      BY <1>7, <3>1, <3>2, <3>3
    <3>5. Older(f, p)' => Older(f, Taken)'
      BY <1>1, <3>3 DEF Older
    <3> QED
      BY <1>0, <1>3, <3>1, <3>2, <3>4, <3>5 DEF Fresh
  <2>3. ReaderAt("scan")' => \A f \in published' : Fresh(f)' => Older(f, read_seq)'
    <3> SUFFICES ASSUME ReaderAt("scan"), NEW f \in published, Fresh(f)
                 PROVE  Older(f, read_seq)'
      BY <1>0 DEF ReaderAt, Fresh
    <3>1. PICK p \in Nat : p = read_seq
      BY <1>r
    <3>2. Older(f, p)
      BY <3>1 DEF TakenOnce
    <3>3. Older(f, p)'
      BY <1>7, <3>2
    <3> QED
      BY <1>0, <3>1, <3>3 DEF Older
  <2>4. WriterAt("lap2")' => rewound' = sent'
    BY <1>0 DEF WriterAt
  <2> QED
    BY <2>1, <2>2, <2>3, <2>4 DEF TakenOnce
<1> QED
  BY <1>6, <1>8

(* The consumer takes the next record, which is newer than all it took since. *)
LEMMA OnceScan ==
  ASSUME IInv, Next, InOrder, TakenOnce, ScanSlot
  PROVE  TakenOnce'
<1>r. /\ writer \in Scanner /\ reader \in Drain /\ reader.r \in Nat
      /\ \A i \in 0..(N - 1) : slots[i].frame \in Nat /\ slots[i].seq \in Nat
      /\ published \cup reader.out \subseteq Nat
  BY RingRanges
<1>p. PICK r \in Nat : r = reader.r
  BY <1>r
<1>k. PICK k \in 0..(N - 1) : k = Slot(r)
  BY SlotRange
<1>q. PICK f \in Nat : f = slots[k].frame
  BY <1>r, <1>k
<1>0. /\ UNCHANGED <<slots, writer, sent, published, again, read_seq, rewound>>
      /\ reader.pc = "scan"
      /\ reader'.pc = "scan" /\ reader'.r = r + 1
      /\ \/ reader'.out = reader.out
         \/ f # 0 /\ slots[k].seq = r /\ reader'.out = reader.out \cup {f}
  BY <1>r, <1>p, <1>k, <1>q DEF ScanSlot, wvars, ReaderAt, Drain, Authentic
<1>1. Taken = r /\ Taken' = r + 1 /\ \A n \in Nat : Known(n)' <=> Known(n)
  BY <1>0, <1>p DEF Taken, Known
<1>2. \A g : Fresh(g)' <=> Fresh(g)
  BY <1>0 DEF Fresh
<1>3. ASSUME NEW g \in published \cup reader.out
      PROVE  Known(g)' /\ (Fresh(g)' => Older(g, Taken)')
  <2>1. g \in Nat /\ Known(g) /\ (Fresh(g) => Older(g, r))
    BY <1>r, <1>1 DEF TakenOnce
  <2>2. Older(g, r) => Older(g, Taken)'
    BY <1>r, <1>0, <1>1 DEF Older
  <2> QED
    BY <1>1, <1>2, <2>1, <2>2
<1>4. ReaderAt("scan")' => \A g \in published' : Fresh(g)' => Older(g, read_seq)'
  BY <1>0, <1>2 DEF TakenOnce, Older, ReaderAt
<1>5. WriterAt("lap2")' => rewound' = sent'
  BY <1>0 DEF TakenOnce, WriterAt
<1>6. CASE reader'.out = reader.out
  <2>1. \A g \in again' \cup (published' \cap reader'.out) : ~Fresh(g)'
    BY <1>0, <1>2, <1>6 DEF TakenOnce
  <2>2. \A g \in published' \cup reader'.out : Known(g)' /\ (Fresh(g)' => Older(g, Taken)')
    BY <1>0, <1>3, <1>6
  <2> QED
    BY <1>4, <1>5, <2>1, <2>2 DEF TakenOnce
<1>7. CASE f # 0 /\ slots[k].seq = r /\ reader'.out = reader.out \cup {f}
  <2>1. f \in published => ~Fresh(f)
    <3> SUFFICES ASSUME f \in published, Fresh(f) PROVE FALSE
      OBVIOUS
    <3>1. Older(f, r)
      BY <1>1 DEF TakenOnce
    <3> QED
      BY <1>q, <1>7, <3>1 DEF Older
  <2>2. Known(f)
    BY <1>q, <1>7 DEF InOrder, SlotKnown
  <2>3. Older(f, Taken)'
    <3> SUFFICES ASSUME NEW i \in 0..(N - 1), slots[i].frame # 0, r + 1 <= slots[i].seq
                 PROVE  f < slots[i].frame
      BY <1>0, <1>1 DEF Older
    <3>1. SlotsOrdered(k, i)
      BY DEF InOrder
    <3> QED
      BY <1>r, <1>q, <1>7, <3>1 DEF SlotsOrdered
  <2>4. \A g \in again' \cup (published' \cap reader'.out) : ~Fresh(g)'
    BY <1>0, <1>2, <1>7, <2>1 DEF TakenOnce
  <2>5. \A g \in published' \cup reader'.out : Known(g)' /\ (Fresh(g)' => Older(g, Taken)')
    BY <1>0, <1>1, <1>3, <1>7, <2>2, <2>3
  <2> QED
    BY <1>4, <1>5, <2>4, <2>5 DEF TakenOnce
<1> QED
  BY <1>0, <1>6, <1>7

LEMMA OnceConsumer ==
  ASSUME IInv, IInv', Next, TakenOnce,
         BadHeader \/ ReadHeader \/ EndScan \/ StoreRead \/ StartCore
  PROVE  TakenOnce'
<1>r. /\ reader \in Drain /\ write_seq \in Nat /\ read_seq \in Nat /\ reader.r \in Nat
  BY RingRanges
<1>0. UNCHANGED <<slots, writer, sent, published, again, rewound>>
  BY DEF BadHeader, ReadHeader, EndScan, StoreRead, StoreReadAs, StartCore, wvars
<1>1. WriterAt("lap2")' => WriterAt("lap2") /\ sent' = sent
  BY <1>0 DEF WriterAt
<1>2. /\ reader'.out \subseteq reader.out /\ Taken <= Taken'
      /\ ReaderAt("scan")' => read_seq' = read_seq /\ (ReaderAt("scan") \/ Taken = read_seq)
  <2>1. CASE BadHeader
    BY <2>1, RingRanges DEF BadHeader, Taken, ReaderAt
  <2>2. CASE ReadHeader
    <3>1. /\ reader.pc = "idle" /\ reader'.pc = "scan" /\ reader'.out = {}
          /\ reader'.r = OldestIntact(write_seq, read_seq) /\ read_seq' = read_seq
      BY <2>2 DEF ReadHeader, ReaderAt
    <3>2. read_seq <= OldestIntact(write_seq, read_seq)
      BY <1>r, RingAssumption DEF RingAssumption, OldestIntact
    <3> QED
      BY <3>1, <3>2 DEF Taken, ReaderAt
  <2>3. CASE EndScan
    <3>1. /\ reader.pc = "scan" /\ reader'.pc = "store2" /\ reader'.out = reader.out
          /\ reader'.r = reader.r
      BY <2>3, <1>r DEF EndScan, ReaderAt, Drain
    <3> QED
      BY <1>r, <3>1 DEF Taken, ReaderAt
  <2>4. CASE StoreRead
    <3>1. /\ reader.pc = "store2" /\ reader'.pc = "publish" /\ reader'.out = reader.out
          /\ read_seq' = reader.r
      BY <2>4, <1>r DEF StoreRead, StoreReadAs, ReaderAt, Drain
    <3> QED
      BY <1>r, <3>1 DEF Taken, ReaderAt
  <2>5. CASE StartCore
    <3>1. /\ reader.pc = "down" /\ reader'.pc = "idle" /\ reader'.out = reader.out
          /\ read_seq' = read_seq
      BY <2>5, <1>r DEF StartCore, ReaderAt, Drain
    <3> QED
      BY <1>r, <3>1 DEF Taken, ReaderAt
  <2> QED
    BY <2>1, <2>2, <2>3, <2>4, <2>5
<1> QED
  BY <1>0, <1>1, <1>2, OnceFrame

(* The batch is published, whole or by a core that is killed on the way: of  *)
(* what is fresh in it, nothing was published before.                        *)
LEMMA OncePublish ==
  ASSUME IInv, Next, TakenOnce, Publish \/ (KillCore /\ ReaderAt("publish"))
  PROVE  TakenOnce'
<1>r. reader \in Drain
  BY RingRanges
<1>0. /\ UNCHANGED <<slots, writer, sent, read_seq, rewound>>
      /\ reader.pc = "publish" /\ reader'.pc \in {"idle", "down"} /\ reader'.out = {}
  <2>1. CASE Publish
    BY <2>1, <1>r DEF Publish, wvars, ReaderAt, Drain
  <2>2. CASE KillCore /\ ReaderAt("publish")
    BY <2>2 DEF KillCore, wvars, ReaderAt
  <2> QED
    BY <2>1, <2>2
<1>1. /\ published' \subseteq published \cup reader.out
      /\ again' \subseteq again \cup (published \cap reader.out)
  BY DEF Publish, KillCore
<1>2. /\ Taken' = Taken
      /\ \A f : (Fresh(f)' <=> Fresh(f)) /\ (Known(f)' <=> Known(f))
      /\ \A f : Older(f, Taken) => Older(f, Taken)'
  <2>1. Taken' = Taken
    BY <1>0 DEF Taken
  <2> QED
    BY <1>0, <2>1 DEF Fresh, Known, Older
<1>3. \A f \in again' \cup (published' \cap reader'.out) : ~Fresh(f)'
  BY <1>0, <1>1, <1>2 DEF TakenOnce
<1>4. \A f \in published' \cup reader'.out : Known(f)' /\ (Fresh(f)' => Older(f, Taken)')
  BY <1>0, <1>1, <1>2 DEF TakenOnce
<1>5. ~ReaderAt("scan")' /\ (WriterAt("lap2")' => rewound' = sent')
  BY <1>0 DEF TakenOnce, ReaderAt, WriterAt
<1> QED
  BY <1>3, <1>4, <1>5 DEF TakenOnce

(* A core killed elsewhere drops its batch and leaves the position in the    *)
(* header to the next.                                                       *)
LEMMA OnceKilled ==
  ASSUME IInv, Next, TakenOnce, KillCore, ~ReaderAt("publish"), ~ReaderAt("store2")
  PROVE  TakenOnce'
<1>0. /\ UNCHANGED <<slots, writer, sent, read_seq, rewound, published, again>>
      /\ reader'.pc = "down" /\ reader'.out = {}
  BY DEF KillCore, wvars
<1>1. /\ Taken' = read_seq
      /\ \A f : (Fresh(f)' <=> Fresh(f)) /\ (Known(f)' <=> Known(f))
      /\ \A f : Older(f, read_seq) => Older(f, Taken)'
  <2>1. Taken' = read_seq
    BY <1>0 DEF Taken
  <2> QED
    BY <1>0, <2>1 DEF Fresh, Known, Older
<1>2. \A f \in published : Fresh(f) => Older(f, read_seq)
  <2>1. CASE ReaderAt("scan")
    BY <2>1 DEF TakenOnce
  <2>2. CASE ~ReaderAt("scan")
    <3>1. Taken = read_seq
      BY <2>2 DEF Taken, ReaderAt
    <3> QED
      BY <3>1 DEF TakenOnce
  <2> QED
    BY <2>1, <2>2
<1>3. \A f \in again' \cup (published' \cap reader'.out) : ~Fresh(f)'
  BY <1>0, <1>1 DEF TakenOnce
<1>4. \A f \in published' \cup reader'.out : Known(f)' /\ (Fresh(f)' => Older(f, Taken)')
  BY <1>0, <1>1, <1>2 DEF TakenOnce
<1>5. ~ReaderAt("scan")' /\ (WriterAt("lap2")' => rewound' = sent')
  BY <1>0 DEF TakenOnce, ReaderAt, WriterAt
<1> QED
  BY <1>3, <1>4, <1>5 DEF TakenOnce

(* The three steps that leave a lower position in the header.                *)
LEMMA OnceSetBack ==
  ASSUME IInv, IInv', Next, TakenOnce,
         ClearRead \/ AdvanceRead \/ (KillCore /\ ReaderAt("store2"))
  PROVE  TakenOnce'
<1>1. CASE ClearRead \/ AdvanceRead
  <2>1. UNCHANGED <<sent, reader, published>> /\ rewound' = sent
    BY <1>1 DEF ClearRead, AdvanceRead, TakenOnce, rvars
  <2> QED
    BY <2>1, OnceRewind
<1>2. CASE KillCore /\ ReaderAt("store2")
  <2>1. UNCHANGED <<sent, published>> /\ rewound' = sent /\ reader'.out = {}
    BY <1>2 DEF KillCore, ReaderAt, wvars
  <2> QED
    BY <2>1, OnceRewind
<1> QED
  BY <1>1, <1>2

LEMMA NextOnce ==
  ASSUME IInv, OnceInv, [Next]_vars
  PROVE  OnceInv'
<1> SUFFICES ASSUME ~broken' PROVE InOrder' /\ TakenOnce'
  BY DEF OnceInv
<1>1. IInv'
  BY NextIInv
<1>2. CASE UNCHANGED vars
  <2>1. InOrder /\ TakenOnce
    BY <1>2 DEF vars, OnceInv
  <2>2. InOrder'
    BY <1>2, <2>1 DEF vars, InOrder, SlotKnown, SlotsOrdered, Known, Written, WriterAt
  <2>3. TakenOnce'
    BY <1>2, <2>1 DEF vars, TakenOnce, Fresh, Known, Older, Taken, ReaderAt, WriterAt
  <2> QED
    BY <2>2, <2>3
<1>3. CASE Next
  <2>1. InOrder /\ TakenOnce /\ (ClearSlot \/ FillSlot \/ UNCHANGED slots)
    BY <1>3, StepWindow DEF OnceInv
  <2>2. CASE ClearSlot \/ FillSlot
    BY <1>3, <2>1, <2>2, OnceSlots
  <2>3. CASE ~(ClearSlot \/ FillSlot)
    <3>1. InOrder'
      BY <1>3, <2>1, <2>3, OrderKept
    <3>2. TakenOnce'
      BY <1>1, <1>3, <2>1, <2>3, OnceProducer, OnceScan, OnceConsumer, OncePublish, OnceKilled,
         OnceSetBack DEF Next, Producer, Consumer
    <3> QED
      BY <3>1, <3>2
  <2> QED
    BY <2>2, <2>3
<1> QED
  BY <1>2, <1>3

LEMMA InitOnce == Init => OnceInv
<1> SUFFICES ASSUME Init PROVE InOrder /\ TakenOnce
  BY DEF OnceInv
<1>1. \A i \in 0..(N - 1) : slots[i].frame = 0
  BY DEF Init, NoFrame
<1>2. published \cup reader.out = {} /\ again = {} /\ ~WriterAt("lap2")
  BY DEF Init, WriterAt
<1>3. InOrder
  BY <1>1 DEF InOrder, SlotKnown, SlotsOrdered
<1>4. TakenOnce
  BY <1>2 DEF TakenOnce
<1> QED
  BY <1>3, <1>4

(* ReplayOnlyAfterRewind: the half-stored positions, and kills at any other   *)
(* place, never make the consumer hand a frame to the bus a second time that  *)
(* was made since a position was last set back by the producer's correction   *)
(* or by a kill of the core in the middle of its own store.                   *)
THEOREM ReplayHolds == Spec => []ReplayOnlyAfterRewind
<1>1. IInv /\ OnceInv => ReplayOnlyAfterRewind
  <2> SUFFICES ASSUME IInv, OnceInv, ~broken, NEW f \in again PROVE f <= rewound
    BY DEF ReplayOnlyAfterRewind
  <2>1. ~(f > rewound)
    BY DEF OnceInv, TakenOnce, Fresh
  <2>2. f \in Nat /\ rewound \in Nat
    BY OnceRanges
  <2> QED
    BY <2>1, <2>2
<1> QED
  BY <1>1, InitIInv, NextIInv, InitOnce, NextOnce, PTL DEF Spec

-----------------------------------------------------------------------------
(***************************************************************************)
(* No frame is lost without a count.  A frame is gone once the core does    *)
(* not have it, no slot of the last lap holds it and the producer has left  *)
(* it.  It is counted when that is decided, which is before it happens: the *)
(* oldest record counts as lost while it is intact but doomed.              *)
(***************************************************************************)
Findable(f) ==
    \E q \in Nat : Written - N <= q /\ q < Written /\ Intact(q) /\ FrameAt(q) = f

Gone == { f \in 1..sent : f \notin Saved /\ ~Findable(f) /\ ~(InHand /\ f = sent) }

(* The oldest record lies behind a read position, or is about to be written *)
(* over: the read position was corrected, or the ring was not full.         *)
DoomedAt(q) ==
    /\ q = Written - N /\ Intact(q) /\ FrameAt(q) \notin Saved
    /\ \/ q < read_seq
       \/ reader.pc \in {"scan", "store2"} /\ q < reader.r /\ FrameAt(q) \notin reader.out
       \/ writer.pc \in {"count", "count2", "slot"}

Doomed == \E q \in Nat : DoomedAt(q)

(* What is counted or will be: in the middle of its store the drops counter *)
(* is in the producer's hand, and a corrected overrun is as good as counted.*)
Counter ==
    (IF writer.pc \in {"count2", "big2"} THEN writer.d ELSE drops)
        + (IF writer.pc \in {"count", "count2"} THEN 1 ELSE 0)

Tally == Counter + sampled + uncounted

Counted == Cardinality(Gone) + (IF Doomed THEN 1 ELSE 0) <= Tally

CountInv == ~broken => Counted

(* One frame more makes the count one larger at the most.                   *)
LEMMA CountAdded ==
  ASSUME NEW n \in Nat, NEW B \in SUBSET (1..n), NEW f, NEW A \in SUBSET (B \cup {f})
  PROVE  /\ Cardinality(A) \in Nat /\ Cardinality(B) \in Nat
         /\ Cardinality(A) <= Cardinality(B) + 1
         /\ A \subseteq B => Cardinality(A) <= Cardinality(B)
<1>1. IsFiniteSet(1..n)
  BY FS_Interval
<1>2. IsFiniteSet(B)
  BY <1>1, FS_Subset
<1>3. /\ IsFiniteSet(B \cup {f}) /\ Cardinality(B) \in Nat
      /\ Cardinality(B \cup {f}) = IF f \in B THEN Cardinality(B) ELSE Cardinality(B) + 1
  BY <1>2, FS_AddElement, FS_CardinalityType
<1>4. IsFiniteSet(A) /\ Cardinality(A) <= Cardinality(B \cup {f})
  BY <1>3, FS_Subset
<1>5. A \subseteq B => Cardinality(A) <= Cardinality(B)
  BY <1>2, FS_Subset
<1>6. Cardinality(A) \in Nat /\ Cardinality(B) \in Nat /\ Cardinality(B \cup {f}) \in Nat
  BY <1>2, <1>3, <1>4, FS_CardinalityType
<1> QED
  BY <1>3, <1>4, <1>5, <1>6

LEMMA TallyRange ==
  ASSUME IInv
  PROVE  Tally \in Nat
<1>1. /\ drops \in Nat /\ sampled \in Nat /\ uncounted \in Nat /\ writer.d \in Nat
  BY RingAssumption DEF RingAssumption, IInv, RTypeOK, Scanner, Positions
<1> QED
  BY <1>1 DEF Tally, Counter

LEMMA TallyRangeNext ==
  ASSUME IInv'
  PROVE  Tally' \in Nat
<1>1. /\ drops' \in Nat /\ sampled' \in Nat /\ uncounted' \in Nat /\ writer'.d \in Nat
  BY RingAssumption DEF RingAssumption, IInv, RTypeOK, Scanner, Positions
<1> QED
  BY <1>1 DEF Tally, Counter

(* No step takes anything off the account, and each of the three that gives *)
(* up a frame for good adds one to it.                                      *)
LEMMA TallyGrows ==
  ASSUME IInv, Next
  PROVE  /\ Tally <= Tally'
         /\ SampleOut \/ AdvanceRead \/ (StoreDrops /\ WriterAt("big2")) => Tally + 1 <= Tally'
<1>r. /\ drops \in Nat /\ sampled \in Nat /\ uncounted \in Nat /\ writer.d \in Nat
      /\ writer \in Scanner
  BY RingAssumption DEF RingAssumption, IInv, RTypeOK, Scanner, Positions
<1>n. ~(writer.pc = "burst") => ~SampleOut
  BY DEF SampleOut, WriterAt
<1>m. ~(writer.pc = "lap2") => ~AdvanceRead
  BY DEF AdvanceRead, WriterAt
<1>o. ~(writer.pc = "big2") => ~(StoreDrops /\ WriterAt("big2"))
  BY DEF WriterAt
<1>1. CASE SampleOut
  <2>1. writer' = writer /\ sampled' = sampled + 1 /\ UNCHANGED <<drops, uncounted>>
    BY <1>1 DEF SampleOut
  <2> QED
    BY <1>r, <2>1 DEF Tally, Counter
<1>2. CASE AdvanceRead
  <2>1. /\ writer.pc = "lap2" /\ writer'.pc = "count"
        /\ UNCHANGED <<drops, sampled, uncounted>>
    BY <1>2, <1>r DEF AdvanceRead, WriterAt, Scanner
  <2> QED
    BY <1>r, <2>1 DEF Tally, Counter
<1>3. CASE ClearDrops
  <2>1. /\ \/ writer.pc = "count" /\ writer'.pc = "count2"
           \/ writer.pc = "big" /\ writer'.pc = "big2"
        /\ writer'.d = drops /\ UNCHANGED <<sampled, uncounted>>
    BY <1>3, <1>r DEF ClearDrops, Scanner
  <2>2. Counter' = Counter
    BY <1>r, <2>1 DEF Counter
  <2>3. ~SampleOut /\ ~AdvanceRead /\ ~(StoreDrops /\ WriterAt("big2"))
    BY <1>n, <1>m, <1>o, <2>1
  <2> QED
    BY <1>r, <2>1, <2>2, <2>3, TallyRange DEF Tally
<1>4. CASE StoreDrops
  <2>1. /\ \/ writer.pc = "count2" /\ writer'.pc = "slot"
           \/ writer.pc = "big2" /\ writer'.pc = "burst"
        /\ drops' = writer.d + 1 /\ UNCHANGED <<sampled, uncounted>>
    BY <1>4, <1>r DEF StoreDrops, Scanner, WriterAt
  <2>2. /\ Counter \in Nat /\ Counter' \in Nat
        /\ Counter' = IF writer.pc = "big2" THEN Counter + 1 ELSE Counter
    BY <1>r, <2>1 DEF Counter
  <2>3. ~SampleOut /\ ~AdvanceRead
    BY <1>n, <1>m, <2>1
  <2> QED
    BY <1>r, <2>1, <2>2, <2>3 DEF Tally, WriterAt
<1>5. CASE KillScanner
  <2>1. /\ writer'.pc = "down" /\ uncounted' = uncounted + CountInHand
        /\ UNCHANGED <<drops, sampled>>
    BY <1>5 DEF KillScanner
  <2>2. Counter' = drops /\ CountInHand \in Nat /\ Counter <= drops + CountInHand
    BY <1>r, <2>1 DEF Counter, CountInHand
  <2>3. ~SampleOut /\ ~AdvanceRead /\ ~StoreDrops
    <3>1. writer'.pc = "down" /\ sampled' = sampled /\ drops' = drops
      BY <1>5 DEF KillScanner
    <3>2. ~SampleOut
      BY <1>r, <3>1 DEF SampleOut
    <3>3. ~AdvanceRead
      BY <1>r, <3>1 DEF AdvanceRead, Scanner
    <3>4. ~StoreDrops
      BY <1>r, <3>1 DEF StoreDrops, Scanner
    <3> QED
      BY <3>2, <3>3, <3>4
  <2>4. Counter \in Nat
    BY <1>r DEF Counter
  <2> QED
    BY <1>r, <2>1, <2>2, <2>3, <2>4 DEF Tally
<1>6. CASE \/ HostLoop \/ EndBurst \/ Oversize \/ Write \/ ClearRead \/ ClearSlot \/ FillSlot
           \/ ClearWrite \/ AdvanceWrite \/ StartScanner \/ Consumer \/ KillCore \/ StartCore
  <2>1. /\ UNCHANGED <<drops, sampled, uncounted>>
        /\ \/ UNCHANGED writer
           \/ /\ writer.pc \notin {"big2", "lap2", "count", "count2"}
              /\ writer'.pc \notin {"big2", "count", "count2"}
    <3>1. CASE HostLoop
      <4> DEFINE lean == Pressed(write_seq, read_seq)
      <4>1. writer' \in {[writer EXCEPT !.pc = "down"], [writer EXCEPT !.pc = "burst", !.lean = lean]}
        BY <3>1 DEF HostLoop
      <4> HIDE DEF lean
      <4> QED
        BY <3>1, <1>r, <4>1 DEF HostLoop, Scanner, WriterAt
    <3>2. CASE EndBurst \/ Oversize \/ ClearRead
      BY <3>2, <1>r DEF EndBurst, Oversize, ClearRead, Scanner, WriterAt
    <3>7. CASE StartScanner
      BY <3>7 DEF StartScanner, WriterAt
    <3>3. CASE Write
      BY <3>3, <1>r DEF Write, Scanner, WriterAt
    <3>4. CASE ClearSlot \/ FillSlot
      BY <3>4, <1>r DEF ClearSlot, FillSlot, Scanner, WriterAt
    <3>5. CASE ClearWrite \/ AdvanceWrite
      BY <3>5, <1>r DEF ClearWrite, AdvanceWrite, Scanner, WriterAt
    <3>6. CASE Consumer \/ KillCore \/ StartCore
      BY <3>6 DEF Consumer, BadHeader, ReadHeader, ScanSlot, EndScan, StoreRead, StoreReadAs,
                  Publish, KillCore, StartCore, wvars
    <3> QED
      BY <1>6, <3>1, <3>2, <3>3, <3>4, <3>5, <3>6, <3>7
  <2>2. Tally' = Tally
    BY <2>1 DEF Tally, Counter
  <2>3. ~SampleOut /\ ~AdvanceRead /\ ~(StoreDrops /\ WriterAt("big2"))
    <3>1. ~SampleOut
      BY <1>r, <2>1 DEF SampleOut
    <3>2. ~AdvanceRead
      BY <1>r, <2>1 DEF AdvanceRead, Scanner, WriterAt
    <3>3. ~(StoreDrops /\ WriterAt("big2"))
      BY <1>r, <2>1 DEF StoreDrops, Scanner, WriterAt
    <3> QED
      BY <3>1, <3>2, <3>3
  <2> QED
    BY <2>2, <2>3, TallyRange
<1> QED
  BY <1>1, <1>2, <1>3, <1>4, <1>5, <1>6 DEF Next, Producer

(* The four ways in which a step keeps the account.                         *)
LEMMA CountedStep ==
  ASSUME IInv, IInv', Counted, NEW f,
         \/ Gone' \subseteq Gone /\ (Doomed' => Doomed) /\ Tally <= Tally'
         \/ /\ Gone' \subseteq Gone \cup {f} /\ (Doomed' => Doomed)
            /\ Tally + 1 <= Tally'
         \/ Gone' \subseteq Gone /\ Tally + 1 <= Tally'
         \/ /\ Gone' \subseteq Gone \cup {f} /\ Doomed /\ ~Doomed'
            /\ Tally <= Tally'
  PROVE  Counted'
<1> DEFINE B == Gone
           A == Gone'
<1>1. sent \in Nat /\ Tally \in Nat /\ Tally' \in Nat
  <2>1. sent \in Nat
    BY RingAssumption DEF RingAssumption, IInv, RTypeOK
  <2>2. Tally \in Nat /\ (Tally \in Nat)'
    BY TallyRange, TallyRangeNext
  <2> QED
    BY <2>1, <2>2
<1>2. B \in SUBSET (1..sent) /\ A \in SUBSET (B \cup {f})
  BY DEF Gone
<1> DEFINE a == Cardinality(A)
           b == Cardinality(B)
           was == IF Doomed THEN 1 ELSE 0
           is == IF Doomed' THEN 1 ELSE 0
           old == Tally
           new == Tally'
<1>3. a \in Nat /\ b \in Nat /\ a <= b + 1 /\ (A \subseteq B => a <= b)
  <2> HIDE DEF A, B
  <2> QED
    BY <1>1, <1>2, CountAdded
<1>4. b + was <= old /\ old \in Nat /\ new \in Nat
  BY <1>1 DEF Counted
<1>5. /\ was \in {0, 1} /\ is \in {0, 1}
      /\ (Doomed' => Doomed) => is <= was
      /\ Doomed /\ ~Doomed' => was = 1 /\ is = 0
  OBVIOUS
<1>6. \/ A \subseteq B /\ (Doomed' => Doomed) /\ old <= new
      \/ (Doomed' => Doomed) /\ old + 1 <= new
      \/ A \subseteq B /\ old + 1 <= new
      \/ Doomed /\ ~Doomed' /\ old <= new
  OBVIOUS
<1>7. a + is <= new
  <2> HIDE DEF A, B, a, b, was, is, old, new
  <2>1. CASE A \subseteq B /\ (Doomed' => Doomed) /\ old <= new
    BY <1>3, <1>4, <1>5, <2>1
  <2>2. CASE (Doomed' => Doomed) /\ old + 1 <= new
    <3>1. is <= was
      BY <1>5, <2>2
    <3> QED
      BY ONLY <1>3, <1>4, <1>5, <2>2, <3>1
  <2>3. CASE A \subseteq B /\ old + 1 <= new
    <3>1. a <= b
      BY <1>3, <2>3
    <3> QED
      BY ONLY <1>3, <1>4, <1>5, <2>3, <3>1
  <2>4. CASE Doomed /\ ~Doomed' /\ old <= new
    BY <1>3, <1>4, <1>5, <2>4
  <2> QED
    BY <1>6, <2>1, <2>2, <2>3, <2>4
<1> QED
  BY <1>7 DEF Counted

(* A record is doomed by the producer taking its position, or by its lap.   *)
LEMMA DoomedKept ==
  ASSUME IInv, Next, ~broken', UNCHANGED slots, ~AdvanceWrite, ~AdvanceRead, Doomed'
  PROVE  Doomed
<1>0. ~broken /\ Written' = Written
  BY StepWindow
<1>r. /\ N \in Nat /\ Written \in Nat /\ read_seq \in Nat /\ reader.r \in Nat
      /\ write_seq \in Nat /\ writer \in Scanner
  BY <1>0, SoundRanges
<1>1. PICK q \in Nat : DoomedAt(q)'
  BY DEF Doomed
<1>2. /\ q = Written - N /\ Intact(q) /\ FrameAt(q) \notin Saved
      /\ FrameAt(q) \notin Saved' /\ FrameAt(q)' = FrameAt(q)
  <2>1. q = Written - N /\ Intact(q) /\ FrameAt(q) \notin Saved' /\ FrameAt(q)' = FrameAt(q)
    BY <1>0, <1>1 DEF DoomedAt, Intact, FrameAt
  <2> QED
    BY <2>1, SavedGrows
<1>3. SUFFICES \/ q < read_seq
               \/ /\ reader.pc \in {"scan", "store2"} /\ q < reader.r
                  /\ FrameAt(q) \notin reader.out
               \/ writer.pc \in {"count", "count2", "slot"}
  BY <1>2 DEF Doomed, DoomedAt
<1>4. CASE q < read_seq'
  <2>1. CASE read_seq' \in {0, read_seq}
    BY <1>4, <2>1
  <2>2. CASE /\ reader.pc = "store2" /\ read_seq' = reader.r
             /\ Saved' = Saved \cup reader.out
    BY <1>2, <1>4, <2>2
  <2> QED
    BY <1>0, <2>1, <2>2, ReadPositions
<1>5. CASE /\ reader'.pc \in {"scan", "store2"} /\ q < reader'.r
           /\ FrameAt(q) \notin reader'.out
  <2>1. CASE /\ reader.pc \in {"scan", "store2"}
             /\ reader'.r = reader.r /\ reader'.out = reader.out
    BY <1>5, <2>1
  <2>2. CASE /\ reader.pc = "scan" /\ reader'.r = reader.r + 1
             /\ reader'.out = IF Intact(reader.r)
                              THEN reader.out \cup {FrameAt(reader.r)} ELSE reader.out
    <3>1. q < reader.r \/ q = reader.r
      BY <1>r, <1>5, <2>2
    <3>2. q # reader.r
      BY <1>2, <1>5, <2>2
    <3>3. FrameAt(q) \notin reader.out
      BY <1>5, <2>2
    <3> QED
      BY <2>2, <3>1, <3>2, <3>3
  <2>3. CASE /\ reader'.r = OldestIntact(write_seq, read_seq)
             /\ write_seq <= Written /\ read_seq <= write_seq
    BY <1>r, <1>2, <1>5, <2>3 DEF OldestIntact
  <2> QED
    BY <1>0, <1>5, <2>1, <2>2, <2>3, ReadPositions
<1>6. CASE writer'.pc \in {"count", "count2", "slot"}
  <2>1. \/ writer.pc \in {"count", "count2", "slot"}
        \/ Write /\ write_seq - read_seq < N
    <3>1. CASE HostLoop
      <4> DEFINE lean == Pressed(write_seq, read_seq)
      <4>1. writer' \in {[writer EXCEPT !.pc = "down"], [writer EXCEPT !.pc = "burst", !.lean = lean]}
        BY <3>1 DEF HostLoop
      <4> HIDE DEF lean
      <4> QED
        BY <1>r, <1>6, <4>1 DEF Scanner
    <3>2. CASE EndBurst \/ ClearRead \/ ClearSlot \/ FillSlot \/ ClearWrite
      BY <3>2, <1>r, <1>6 DEF EndBurst, ClearRead, ClearSlot, FillSlot, ClearWrite, Scanner
    <3>7. CASE ClearDrops \/ StoreDrops
      BY <3>7, <1>r, <1>6 DEF ClearDrops, StoreDrops, Scanner, WriterAt
    <3>8. CASE Oversize
      BY <3>8, <1>r, <1>6 DEF Oversize, Scanner
    <3>3. CASE SampleOut
      <4>1. UNCHANGED writer
        BY <3>3 DEF SampleOut
      <4> QED
        BY <4>1, <1>6
    <3>4. CASE Write
      <4>1. writer'.pc = IF write_seq - read_seq >= N THEN "lap" ELSE "slot"
        BY <3>4, <1>r DEF Write, Scanner
      <4> QED
        BY <1>r, <1>6, <3>4, <4>1
    <3>5. CASE StartScanner \/ KillScanner
      BY <3>5, <1>6 DEF StartScanner, KillScanner
    <3>6. CASE Consumer \/ KillCore \/ StartCore
      <4>1. UNCHANGED writer
        BY <3>6 DEF Consumer, BadHeader, ReadHeader, ScanSlot, EndScan, StoreRead,
                    StoreReadAs, Publish, KillCore, StartCore, wvars
      <4> QED
        BY <4>1, <1>6
    <3> QED
      BY <3>1, <3>2, <3>3, <3>4, <3>5, <3>6, <3>7, <3>8 DEF Next, Producer
  <2>2. Write => Written = write_seq
    BY DEF Write, Written, WriterAt
  <2> QED
    BY <1>r, <1>2, <2>1, <2>2
<1> QED
  BY <1>1, <1>2, <1>4, <1>5, <1>6 DEF DoomedAt

(* While the slots stay as they are, only a frame that is new can be gone,  *)
(* or the one that did not fit, once it is counted.                         *)
LEMMA GoneKept ==
  ASSUME IInv, Next, ~broken', UNCHANGED slots, ~AdvanceWrite,
         NEW f \in 1..sent, f \in Gone', ~(StoreDrops /\ WriterAt("big2") /\ f = sent)
  PROVE  f \in Gone
<1>0. ~broken /\ Written' = Written
  BY StepWindow
<1>r. writer \in Scanner
  BY RingRanges
<1>1. f \notin Saved' /\ ~Findable(f)' /\ ~(InHand' /\ f = sent')
  BY DEF Gone
<1>2. f \notin Saved
  BY <1>1, SavedGrows
<1>3. ~Findable(f)
  BY <1>0, <1>1 DEF Findable, Intact, FrameAt
<1>4. InHand => \/ sent' = sent /\ InHand'
                \/ sent \in Saved'
                \/ StoreDrops /\ WriterAt("big2")
  <2>1. CASE HostLoop \/ EndBurst \/ SampleOut \/ Oversize \/ Write \/ StartScanner
    BY <2>1 DEF HostLoop, EndBurst, SampleOut, Oversize, Write, StartScanner, InHand, WriterAt
  <2>2. CASE ClearRead \/ AdvanceRead \/ ClearSlot \/ FillSlot \/ ClearWrite
    BY <2>2, <1>r DEF ClearRead, AdvanceRead, ClearSlot, FillSlot, ClearWrite, InHand, Scanner
  <2>5. CASE ClearDrops
    BY <2>5, <1>r DEF ClearDrops, InHand, Scanner
  <2>6. CASE StoreDrops
    BY <2>6, <1>r DEF StoreDrops, InHand, Scanner, WriterAt
  <2>3. CASE KillScanner
    <3>1. InHand => fell' = fell \cup {sent}
      BY <2>3 DEF KillScanner
    <3> QED
      BY <3>1 DEF Saved
  <2>4. CASE Consumer \/ KillCore \/ StartCore
    <3>1. UNCHANGED <<writer, sent>>
      BY <2>4 DEF Consumer, BadHeader, ReadHeader, ScanSlot, EndScan, StoreRead,
                  StoreReadAs, Publish, KillCore, StartCore, wvars
    <3> QED
      BY <3>1 DEF InHand
  <2> QED
    BY <2>1, <2>2, <2>3, <2>4, <2>5, <2>6 DEF Next, Producer
<1> QED
  BY <1>1, <1>2, <1>3, <1>4 DEF Gone

(* Overwriting takes the oldest record at the most, and that was doomed.    *)
LEMMA CountedWrite ==
  ASSUME IInv, ~broken, NewestInv, IInv', Next, ~broken', Counted, ClearSlot \/ FillSlot
  PROVE  Counted'
<1>w. Written' = Written
  <2>1. ~AdvanceWrite
    BY DEF ClearSlot, FillSlot, AdvanceWrite, WriterAt
  <2> QED
    BY <2>1, StepWindow
<1>r. /\ N \in Nat /\ N >= 2 /\ Written \in Nat /\ writer.w \in Nat /\ Written = writer.w
      /\ writer \in Scanner /\ slots \in [0..(N - 1) -> Record] /\ InHand
  <2>1. InHand
    BY DEF ClearSlot, FillSlot, InHand, WriterAt
  <2> QED
    BY <2>1, SoundRanges
<1>u. /\ UNCHANGED sent /\ Tally <= Tally' /\ Saved' = Saved /\ InHand'
      /\ slots' = [slots EXCEPT ![Slot(Written)] = slots'[Slot(Written)]]
      /\ \/ ClearSlot /\ slots'[Slot(Written)] = NoFrame
         \/ FillSlot /\ slots'[Slot(Written)] = [seq |-> Written, frame |-> sent]
  <2>1. UNCHANGED <<sent, fell, published, reader>> /\ InHand'
    BY <1>r DEF ClearSlot, FillSlot, rvars, InHand, Scanner
  <2>2. Slot(Written) \in 0..(N - 1)
    BY <1>r, SlotRange
  <2>3. Saved' = Saved
    BY <2>1 DEF Saved, ReaderAt
  <2>4. /\ slots' = [slots EXCEPT ![Slot(Written)] = slots'[Slot(Written)]]
        /\ \/ ClearSlot /\ slots'[Slot(Written)] = NoFrame
           \/ FillSlot /\ slots'[Slot(Written)] = [seq |-> Written, frame |-> sent]
    <3>1. CASE ClearSlot
      BY <1>r, <2>2, <3>1 DEF ClearSlot
    <3>2. CASE FillSlot
      BY <1>r, <2>2, <3>2 DEF FillSlot
    <3> QED
      BY <3>1, <3>2
  <2> QED
    BY <2>1, <2>3, <2>4, TallyGrows
<1>o. ASSUME NEW q \in Nat, q = Written - N PROVE Slot(q) = Slot(Written)
  <2>1. q + N = Written
    BY <1>o, <1>r
  <2> QED
    BY <2>1, SlotsRepeat
<1>1. ~Doomed'
  <2> SUFFICES ASSUME NEW q \in Nat, DoomedAt(q)' PROVE FALSE
    BY DEF Doomed
  <2>1. q = Written - N /\ Authentic(slots'[Slot(q)], q)
    BY <1>w DEF DoomedAt, Intact, Authentic
  <2>2. slots'[Slot(q)] = slots'[Slot(Written)]
    BY <1>o, <2>1
  <2> QED
    BY <1>r, <1>u, <2>1, <2>2 DEF Authentic, NoFrame
<1>2. ASSUME NEW f \in Gone', f \notin Gone
      PROVE  \E q \in Nat : DoomedAt(q) /\ f = FrameAt(q)
  <2>1. f \in 1..sent /\ f \notin Saved /\ ~Findable(f)' /\ ~(InHand /\ f = sent)
    BY <1>u, <1>r DEF Gone
  <2>2. Findable(f)
    BY <1>2, <2>1 DEF Gone
  <2>3. PICK q \in Nat : /\ Written - N <= q /\ q < Written
                         /\ Intact(q) /\ FrameAt(q) = f
    BY <2>2 DEF Findable
  <2>4. ~Newest(q)
    <3> SUFFICES ASSUME Newest(q) PROVE FALSE
      OBVIOUS
    <3>1. slots'[Slot(q)] = slots[Slot(q)]
      BY NewestUntouched
    <3>2. Intact(q)' /\ FrameAt(q)' = f /\ Written' - N <= q /\ q < Written'
      BY <1>w, <2>3, <3>1 DEF Intact, FrameAt
    <3> QED
      BY <2>1, <3>2 DEF Findable
  <2>5. q = Written - N
    BY <1>r, <2>3, <2>4 DEF Newest
  <2>6. slots[Slot(q)] = slots[Slot(Written)]
    BY <1>o, <2>5
  <2>7. CASE ClearSlot
    <3>1. writer.pc = "slot"
      BY <2>7 DEF ClearSlot, WriterAt
    <3> QED
      BY <2>1, <2>3, <2>5, <3>1 DEF DoomedAt
  <2>8. CASE FillSlot
    <3>1. slots[Slot(Written)] = NoFrame
      BY <1>r, <2>8 DEF FillSlot, NewestInv, NewestIntact
    <3> QED
      BY <2>3, <2>6, <3>1 DEF Intact, Authentic, NoFrame
  <2> QED
    BY <2>7, <2>8
<1>3. CASE Gone' \subseteq Gone
  BY <1>1, <1>3, <1>u, CountedStep
<1>4. CASE ~(Gone' \subseteq Gone)
  <2>1. PICK q \in Nat : DoomedAt(q)
    BY <1>2, <1>4
  <2>2. Gone' \subseteq Gone \cup {FrameAt(q)} /\ Doomed
    BY <1>2, <2>1 DEF Doomed, DoomedAt
  <2>3. \A x : Gone' \subseteq Gone \cup {x} => Counted'
    BY <1>1, <1>u, <2>2, CountedStep
  <2> QED
    BY <2>2, <2>3
<1> QED
  BY <1>3, <1>4

(* Storing the position makes the frame findable, and the record that is    *)
(* now the oldest is with the core if a read position is past it.           *)
LEMMA CountedStore ==
  ASSUME IInv, ~broken, NewestInv, IInv', Next, ~broken', Counted, AdvanceWrite
  PROVE  Counted'
<1>r. /\ N \in Nat /\ N >= 2 /\ Written \in Nat /\ Written = writer.w /\ Written < sent
      /\ sent \in Nat /\ writer \in Scanner /\ writer.pc = "pub2"
  <2>1. InHand /\ writer.pc = "pub2"
    BY DEF AdvanceWrite, InHand, WriterAt
  <2> QED
    BY <2>1, SoundRanges
<1>u. /\ UNCHANGED <<slots, sent, read_seq, reader>> /\ Saved' = Saved /\ Tally <= Tally'
      /\ writer'.pc = "burst" /\ Written' = Written + 1
  <2>1. /\ UNCHANGED <<slots, sent, read_seq, reader, fell, published>>
        /\ writer'.pc = "burst"
    BY <1>r DEF AdvanceWrite, rvars, Scanner
  <2>2. Saved' = Saved
    BY <2>1 DEF Saved, ReaderAt
  <2> QED
    BY <2>1, <2>2, StepWindow, TallyGrows
<1>s. slots[Slot(Written)] = [seq |-> Written, frame |-> sent]
  BY <1>r DEF NewestInv, NewestIntact
<1>1. ~Doomed'
  <2> SUFFICES ASSUME NEW q \in Nat, DoomedAt(q)' PROVE FALSE
    BY DEF Doomed
  <2>1. /\ q = Written + 1 - N /\ FrameAt(q) \notin Saved
        /\ \/ q < read_seq
           \/ reader.pc \in {"scan", "store2"} /\ q < reader.r /\ FrameAt(q) \notin reader.out
    <3>1. FrameAt(q)' = FrameAt(q) /\ writer'.pc \notin {"count", "count2", "slot"}
      BY <1>u DEF FrameAt
    <3>2. /\ q = Written' - N /\ FrameAt(q)' \notin Saved'
          /\ \/ q < read_seq'
             \/ /\ reader'.pc \in {"scan", "store2"} /\ q < reader'.r
                /\ FrameAt(q)' \notin reader'.out
      BY <3>1 DEF DoomedAt
    <3>3. q = Written + 1 - N
      BY <1>r, <1>u, <3>2
    <3>4. /\ FrameAt(q) \notin Saved
          /\ \/ q < read_seq
             \/ /\ reader.pc \in {"scan", "store2"} /\ q < reader.r
                /\ FrameAt(q) \notin reader.out
      BY <1>u, <3>1, <3>2
    <3> QED
      BY <3>3, <3>4
  <2>2. Newest(q)
    BY <1>r, <2>1 DEF Newest
  <2> QED
    BY <2>1, <2>2 DEF NewestInv, PassedIsSaved
<1>2. ASSUME NEW f \in Gone' PROVE f \in Gone
  <2>1. f \in 1..sent /\ f \notin Saved /\ ~Findable(f)'
    BY <1>u DEF Gone
  <2>2. ~Findable(f)
    <3> SUFFICES ASSUME NEW q \in Nat, Written - N <= q, q < Written,
                        Intact(q), FrameAt(q) = f
                 PROVE  FALSE
      BY DEF Findable
    <3>1. CASE q = Written - N
      <4>1. Slot(q) = Slot(Written)
        <5>1. q + N = Written
          BY <1>r, <3>1
        <5> QED
          BY <5>1, SlotsRepeat
      <4> QED
        BY <1>r, <1>s, <3>1, <4>1 DEF Intact, Authentic
    <3>2. CASE q # Written - N
      <4>1. Intact(q)' /\ FrameAt(q)' = f
        BY <1>u DEF Intact, FrameAt
      <4>2. Written' - N <= q /\ q < Written'
        BY <1>r, <1>u, <3>2
      <4> QED
        BY <2>1, <4>1, <4>2 DEF Findable
    <3> QED
      BY <3>1, <3>2
  <2>3. f # sent
    <3> SUFFICES ASSUME f = sent PROVE FALSE
      OBVIOUS
    <3>1. PICK q \in Nat : q = Written
      BY <1>r
    <3>2. slots'[Slot(q)] = [seq |-> q, frame |-> sent] /\ sent # 0
      BY <1>r, <1>s, <1>u, <3>1
    <3>3. Intact(q)' /\ FrameAt(q)' = sent
      BY <3>2 DEF Intact, Authentic, FrameAt
    <3>4. Written' - N <= q /\ q < Written'
      BY <1>r, <1>u, <3>1
    <3> QED
      BY <2>1, <3>3, <3>4 DEF Findable
  <2> QED
    BY <2>1, <2>2, <2>3 DEF Gone
<1> QED
  BY <1>1, <1>2, <1>u, CountedStep

LEMMA NextCounted ==
  ASSUME IInv, NewestInv, CountInv, [Next]_vars
  PROVE  CountInv'
<1> SUFFICES ASSUME ~broken' PROVE Counted'
  BY DEF CountInv
<1>0. IInv'
  BY NextIInv
<1>1. CASE UNCHANGED vars
  <2>1. Counted
    BY <1>1 DEF vars, CountInv
  <2> QED
    BY <1>1, <2>1 DEF vars, Counted, Tally, Counter, Gone, Doomed, DoomedAt, Findable, Intact, FrameAt, Saved,
        Written, InHand, WriterAt, ReaderAt
<1>2. CASE Next
  <2>0. ~broken /\ Counted
    BY <1>2, StepWindow DEF CountInv
  <2>r. sent \in Nat
    BY <2>0, SoundRanges
  <2>t. /\ Tally <= Tally'
        /\ SampleOut \/ AdvanceRead \/ (StoreDrops /\ WriterAt("big2")) => Tally + 1 <= Tally'
    BY <1>2, TallyGrows
  <2>1. CASE ClearSlot \/ FillSlot
    BY <1>0, <1>2, <2>0, <2>1, CountedWrite
  <2>2. CASE AdvanceWrite
    BY <1>0, <1>2, <2>0, <2>2, CountedStore
  <2>3. CASE ~AdvanceWrite /\ ~(ClearSlot \/ FillSlot)
    <3>1. UNCHANGED slots
      BY <1>2, <2>3, StepWindow
    <3>2. \A f \in 1..sent : f \in Gone' /\ f \notin Gone => StoreDrops /\ WriterAt("big2") /\ f = sent
      BY <1>2, <2>3, <3>1, GoneKept
    <3>3. Gone' \subseteq 1..sent'
      BY DEF Gone
    <3>4. sent' = sent /\ ~(StoreDrops /\ WriterAt("big2")) => Gone' \subseteq Gone
      BY <3>2, <3>3
    <3>5. sent' = sent + 1 /\ ~StoreDrops => Gone' \subseteq Gone \cup {sent + 1}
      BY <2>r, <3>2, <3>3
    <3>6. ~AdvanceRead => (Doomed' => Doomed)
      BY <1>2, <2>3, <3>1, DoomedKept
    <3>7. CASE SampleOut
      <4>1. sent' = sent + 1 /\ ~AdvanceRead /\ ~StoreDrops
        BY <3>7 DEF SampleOut, AdvanceRead, StoreDrops, WriterAt
      <4>2. (Doomed' => Doomed) /\ Gone' \subseteq Gone \cup {sent + 1}
        BY <3>5, <3>6, <4>1
      <4> QED
        BY <1>0, <2>0, <2>t, <3>7, <4>2, CountedStep
    <3>8. CASE AdvanceRead
      <4>1. sent' = sent /\ ~StoreDrops
        BY <3>8 DEF AdvanceRead, StoreDrops, WriterAt
      <4>2. Gone' \subseteq Gone
        BY <3>4, <4>1
      <4> QED
        BY <1>0, <2>0, <2>t, <3>8, <4>2, CountedStep
    <3>9. CASE Write \/ Oversize
      <4>1. sent' = sent + 1 /\ InHand' /\ ~AdvanceRead /\ ~StoreDrops
        <5>1. sent' = sent + 1 /\ ~AdvanceRead /\ ~StoreDrops
          BY <3>9 DEF Write, Oversize, AdvanceRead, StoreDrops, WriterAt
        <5>2. writer \in Scanner
          BY RingRanges
        <5>3. writer'.pc \in {"lap", "slot", "big"}
          BY <3>9, <5>2 DEF Write, Oversize, Scanner
        <5> QED
          BY <5>1, <5>3 DEF InHand
      <4>2. Gone' \subseteq Gone
        <5>1. sent + 1 \notin Gone'
          BY <4>1 DEF Gone
        <5> QED
          BY <3>5, <4>1, <5>1
      <4> QED
        BY <1>0, <2>0, <2>t, <3>6, <4>1, <4>2, CountedStep
    <3>12. CASE StoreDrops /\ WriterAt("big2")
      <4>1. sent' = sent /\ ~AdvanceRead
        BY <3>12 DEF StoreDrops, AdvanceRead, WriterAt
      <4>2. Gone' \subseteq Gone \cup {sent}
        BY <3>2, <3>3, <4>1
      <4> QED
        BY <1>0, <2>0, <2>t, <3>6, <3>12, <4>1, <4>2, CountedStep
    <3>10. CASE \/ HostLoop \/ EndBurst \/ ClearRead \/ ClearDrops \/ ClearWrite
                \/ StartScanner \/ KillScanner
                \/ (StoreDrops /\ ~WriterAt("big2"))
      <4>1. sent' = sent /\ ~AdvanceRead
        BY <3>10 DEF HostLoop, EndBurst, ClearRead, ClearDrops, ClearWrite, StartScanner,
            KillScanner, StoreDrops, AdvanceRead, WriterAt
      <4>2. ~(StoreDrops /\ WriterAt("big2"))
        <5>1. KillScanner => ~StoreDrops
          <6>1. writer \in Scanner
            BY RingRanges
          <6>2. KillScanner => writer'.pc = "down"
            BY DEF KillScanner
          <6>3. StoreDrops => writer'.pc # "down"
            BY <6>1 DEF StoreDrops, Scanner
          <6> QED
            BY <6>2, <6>3
        <5> QED
          BY <3>10, <5>1 DEF HostLoop, EndBurst, ClearRead, ClearDrops, ClearWrite, StartScanner,
              WriterAt
      <4> QED
        BY <1>0, <2>0, <2>t, <3>4, <3>6, <4>1, <4>2, CountedStep
    <3>11. CASE Consumer \/ KillCore \/ StartCore
      <4>1. UNCHANGED <<sent, drops, writer>>
        BY <3>11 DEF Consumer, BadHeader, ReadHeader, ScanSlot, EndScan, StoreRead,
            StoreReadAs, Publish, KillCore, StartCore, wvars
      <4>2. ~AdvanceRead /\ ~StoreDrops
        <5>1. writer \in Scanner
          BY RingRanges
        <5> QED
          BY <4>1, <5>1 DEF AdvanceRead, StoreDrops, Scanner, WriterAt
      <4> QED
        BY <1>0, <2>0, <2>t, <3>4, <3>6, <4>1, <4>2, CountedStep
    <3> QED
      BY <1>2, <2>3, <3>7, <3>8, <3>9, <3>10, <3>11, <3>12 DEF Next, Producer
  <2> QED
    BY <2>1, <2>2, <2>3
<1> QED
  BY <1>1, <1>2

LEMMA InitCounted == Init => CountInv
<1> SUFFICES ASSUME Init PROVE Counted
  BY DEF CountInv
<1>1. Gone = {}
  BY DEF Init, Gone
<1>2. Written = 0 /\ N \in Nat /\ N >= 2
  BY RingAssumption DEF RingAssumption, Init, Written, WriterAt
<1>3. ~Doomed
  BY <1>2 DEF Doomed, DoomedAt
<1>4. Cardinality(Gone) = 0
  BY <1>1, FS_EmptySet
<1>5. Tally = 0
  BY DEF Init, Tally, Counter
<1> QED
  BY <1>3, <1>4, <1>5 DEF Counted

(* LossIsCounted: whatever the two sides computed with, at rest every frame  *)
(* the core has not and will not find is in the drops counter or was left    *)
(* out under backpressure, but for the losses that scanners killed on their  *)
(* way to the counter (RingWriter._bump_drops) did not count.                *)
THEOREM LossHolds == Spec => []LossIsCounted
<1>1. IInv /\ NewestInv /\ CountInv => LossIsCounted
  <2> SUFFICES ASSUME IInv, NewestInv, CountInv, Resting, ~broken
               PROVE  Cardinality((1..sent) \ (published \cup fell \cup Readable))
                         <= drops + sampled + uncounted
    BY DEF LossIsCounted
  <2> DEFINE Lost == (1..sent) \ (published \cup fell \cup Readable)
  <2>r. /\ N \in Nat /\ write_seq \in Nat /\ read_seq \in Nat /\ sent \in Nat
    BY SoundRanges
  <2>f. write_seq \in Positions
    BY DEF IInv, RTypeOK
  <2>t. Tally \in Nat /\ Tally = drops + sampled + uncounted
    <3>1. Counter = drops /\ drops \in Nat
      <4>1. drops \in Nat
        BY SoundRanges
      <4>2. writer.pc \notin {"count", "count2", "big2"}
        BY DEF Resting
      <4> QED
        BY <4>1, <4>2 DEF Counter
    <3> QED
      BY <3>1, TallyRange DEF Tally
  <2>1. Written = write_seq /\ Saved = published \cup fell /\ ~InHand
    BY DEF Resting, Written, WriterAt, Saved, ReaderAt, InHand
  <2>2. ASSUME NEW f \in Lost, f \notin Gone
        PROVE  \E q \in Nat : DoomedAt(q) /\ f = FrameAt(q)
    <3>1. f \in 1..sent /\ f \notin Saved /\ f \notin Readable
      BY <2>1, <2>2
    <3>2. Findable(f)
      BY <2>1, <2>2, <3>1 DEF Gone
    <3>3. PICK q \in Nat : /\ Written - N <= q /\ q < Written
                           /\ Intact(q) /\ FrameAt(q) = f
      BY <3>2 DEF Findable
    <3>4. q \in Positions
      BY <2>1, <2>r, <2>f, <3>3, RingAssumption DEF RingAssumption, Positions
    <3>5. ~Ahead(q)
      BY <3>1, <3>3, <3>4 DEF Readable, FrameAt
    <3>6. q \notin OldestIntact(write_seq, read_seq)..(write_seq - 1)
      BY <3>3, <3>5 DEF Ahead, Intact
    <3>7. q < read_seq
      BY <2>1, <2>r, <3>3, <3>6 DEF OldestIntact
    <3>8. ~Newest(q)
      BY <3>1, <3>3, <3>7 DEF NewestInv, PassedIsSaved
    <3>9. q = Written - N
      BY <2>1, <2>r, <3>3, <3>8 DEF Newest
    <3> QED
      BY <3>1, <3>3, <3>7, <3>9 DEF DoomedAt
  <2>3. Cardinality(Lost) <= Tally
    <3> DEFINE G == Gone
               a == Cardinality(Lost)
               b == Cardinality(G)
               total == Tally
    <3>1. b + (IF Doomed THEN 1 ELSE 0) <= total /\ total \in Nat
      <4>1. b + (IF Doomed THEN 1 ELSE 0) <= total
        BY DEF CountInv, Counted
      <4>2. total \in Nat
        BY <2>t
      <4> QED
        BY <4>1, <4>2
    <3>2. G \in SUBSET (1..sent)
      BY DEF Gone
    <3>3. \A x : Lost \subseteq G \cup {x} =>
                    a \in Nat /\ b \in Nat /\ a <= b + 1 /\ (Lost \subseteq G => a <= b)
      <4> HIDE DEF G, Lost
      <4> QED
        BY <2>r, <3>2, CountAdded
    <3>4. CASE Lost \subseteq G
      <4>1. a \in Nat /\ b \in Nat /\ a <= b
        <5> HIDE DEF a, b, G, Lost
        <5> QED
          BY <3>3, <3>4
      <4> HIDE DEF a, b, total, G, Lost
      <4>2. a <= total
        BY <3>1, <4>1
      <4> QED
        BY <4>2 DEF a, total
    <3>5. CASE ~(Lost \subseteq G)
      <4>1. PICK q \in Nat : DoomedAt(q)
        BY <2>2, <3>5
      <4>2. Lost \subseteq G \cup {FrameAt(q)} /\ Doomed
        BY <2>2, <4>1 DEF Doomed, DoomedAt
      <4>3. a \in Nat /\ b \in Nat /\ a <= b + 1
        <5> HIDE DEF a, b, G, Lost
        <5> QED
          BY <3>3, <4>2
      <4>4. b + 1 <= total
        BY <3>1, <4>2
      <4> HIDE DEF a, b, total, G, Lost
      <4>5. a <= total
        BY <3>1, <4>3, <4>4
      <4> QED
        BY <4>5 DEF a, total
    <3> QED
      BY <3>4, <3>5
  <2> QED
    BY <2>3, <2>t
<1> QED
  BY <1>1, InitIInv, NextIInv, InitNewest, NextNewest, InitCounted, NextCounted, PTL DEF Spec
=============================================================================
