------------------------- MODULE TimeshiftIndex_proofs -------------------------
(***************************************************************************)
(* Proofs about Timeshift, continued: the index tells the truth.  A mark   *)
(* whose offset is retained leads to the picture it describes, whatever    *)
(* has been written, trimmed, discarded or reset since, and so does a      *)
(* position that was kept outside the mutex and is not refused.            *)
(*                                                                         *)
(* A mark is added while the unit it describes is in the ring, and the     *)
(* cells between the new start and the old end survive every step          *)
(* (CellsKept).  What is left is the clock: its ticks are the packet's,    *)
(* whole wraps apart, and there is at most one wrap for every unit that    *)
(* has been visited (ClockFits), so their number is within MaxOffset.      *)
(* Of a WebM history the same facts give that its records are whole; with  *)
(* what trim() leaves first they give that what seek() answers can be used. *)
(***************************************************************************)
EXTENDS Timeshift_proofs, WellFoundedInduction

Visited == IF op.at \in {"replay", "trim"} THEN scan + 1 ELSE scan

WithinBound == mode # "webm" => end + Len(op.rest) <= MaxOffset

ClockFits ==
  mode # "webm" /\ clock.have =>
    /\ clock.raw \in 0 .. PtsModulus - 1
    /\ \E w \in Int : w <= Visited /\ clock.ticks = clock.raw + w * PtsModulus

NoneIndexed == mode # "webm" /\ pids.indexed = 0 => marks = <<>>

\* What a mark says of the ring, if the ring still has it.
Told(m, start, cells, indexed) ==
  start <= m.offset =>
    /\ Describes(cells[m.offset % Capacity].unit, m.pts)
    /\ mode # "webm" => cells[m.offset % Capacity].unit.pid = indexed

GoodMarks(ms, newest, start, cells, indexed) ==
  /\ \A i, j \in 1 .. Len(ms) : i < j => ms[i].offset < ms[j].offset
  /\ \A i \in 1 .. Len(ms) : ms[i].pts <= newest
  /\ \A i \in 1 .. Len(ms) : Told(ms[i], start, cells, indexed)

Indexed == GoodMarks(marks, latest, begin, storage, pids.indexed)

\* Only the indexer's own steps leave marks behind the start.
Retains ==
  op.at \in {"idle", "write"} => \A i \in 1 .. Len(marks) : begin <= marks[i].offset

IndexInv == WithinBound /\ ClockFits /\ NoneIndexed /\ Indexed /\ Retains

--------------------------------------------------------------------------------
(* The ring: what a write leaves alone, and where it puts a first unit. *)
LEMMA StoredKeeps ==
  ASSUME end \in Nat, NEW units \in Seq(Unit),
         NEW start \in Nat, end + Len(units) - start <= Capacity,
         NEW o \in start .. end - 1
  PROVE  Stored(units)[o % Capacity] = storage[o % Capacity]
<1>1. /\ o \in Nat /\ o % Capacity \in Slots /\ Len(units) \in Nat
      /\ Capacity \in Nat /\ Capacity # 0
  <2>1. o \in Nat /\ Len(units) \in Nat
    BY LenProperties
  <2> QED
    BY <2>1, SlotOfOffset, CapacityType
<1>2. ASSUME NEW k \in 1 .. Len(units), (end + k - 1) % Capacity = o % Capacity
      PROVE  FALSE
  <2> DEFINE p == end + k - 1
  <2>1. p \in Nat /\ o < p /\ o % Capacity = p % Capacity /\ p - o < Capacity
    BY <1>1, <1>2
  <2> HIDE DEF p
  <2>2. p - o >= Capacity
    BY <1>1, <2>1, LapApart
  <2> QED
    BY <1>1, <2>1, <2>2
<1> QED
  BY <1>1, <1>2 DEF Stored

LEMMA StoredAt ==
  ASSUME end \in Nat, NEW units \in Seq(Unit), Len(units) <= Capacity,
         NEW m \in 1 .. Len(units)
  PROVE  Stored(units)[(end + m - 1) % Capacity].unit = units[m]
<1> DEFINE q == end + m - 1
           Here(k) == (end + k - 1) % Capacity = q % Capacity
           k == CHOOSE k \in 1 .. Len(units) : Here(k)
           p == end + k - 1
<1>1. /\ q \in Nat /\ q % Capacity \in Slots /\ Len(units) \in Nat
      /\ Capacity \in Nat /\ Capacity # 0
  <2>1. q \in Nat /\ Len(units) \in Nat
    BY LenProperties
  <2> QED
    BY <2>1, SlotOfOffset, CapacityType
<1>2. m \in 1 .. Len(units) /\ Here(m)
  OBVIOUS
<1>3. k \in 1 .. Len(units) /\ Here(k)
  BY <1>2
<1>4. Stored(units)[q % Capacity] = [at |-> end + k - 1, unit |-> units[k]]
  BY <1>1, <1>2 DEF Stored
<1>5. /\ p \in Nat /\ p % Capacity = q % Capacity
      /\ p - q < Capacity /\ q - p < Capacity /\ (p = q => k = m)
  <2> HIDE DEF k
  <2> QED
    BY <1>1, <1>3
<1> HIDE DEF p, q, k
<1>6. p = q
  <2>1. CASE p < q
    <3>1. q - p >= Capacity
      BY <1>1, <1>5, <2>1, LapApart
    <3> QED
      BY <1>1, <1>5, <3>1
  <2>2. CASE q < p
    <3>1. p - q >= Capacity
      BY <1>1, <1>5, <2>2, LapApart
    <3> QED
      BY <1>1, <1>5, <3>1
  <2> QED
    BY <1>1, <1>5, <2>1, <2>2
<1>7. Stored(units)[q % Capacity].unit = units[m]
  BY <1>4, <1>5, <1>6
<1> QED
  BY <1>7 DEF q

LEMMA StoredFirst ==
  ASSUME end \in Nat, NEW units \in Seq(Unit), Len(units) >= 1, Len(units) <= Capacity
  PROVE  Stored(units)[end % Capacity].unit = units[1]
<1>1. 1 \in 1 .. Len(units) /\ end + 1 - 1 = end
  BY LenProperties
<1> QED
  BY <1>1, StoredAt

LEMMA PacketsAreUnits ==
  ASSUME NEW ps \in Seq(Packet)
  PROVE  ps \in Seq(Unit)
<1>1. Packet \subseteq Unit
  BY DEF Unit
<1>2. Len(ps) \in Nat /\ ps \in [1 .. Len(ps) -> Packet]
  BY LenProperties
<1> QED
  BY <1>1, <1>2, SMT

LEMMA ModeStays == ASSUME [Next]_vars PROVE mode' = mode
BY DEF Next, vars, AppendInput, WriteChunk, AppendEnds, IndexEnds, SkipUnit, IndexPacket,
       ScanSettings, Trim, AppendWebm, SetVideoPid, Discontinuity, DiscardBefore, Seek

(* Whatever a step does, what both the old and the new ring cover is what *)
(* it was. *)
LEMMA CellsKept ==
  ASSUME RingInv, [Next]_vars, NEW o \in begin' .. end - 1
  PROVE  storage'[o % Capacity] = storage[o % Capacity]
<1>1. /\ begin' \in Nat /\ end \in Nat /\ end' \in Nat
      /\ end' - begin' <= Capacity /\ op.rest \in Seq(Packet)
  <2>1. RingInv'
    BY NextInv
  <2> QED
    BY <2>1 DEF RingInv, TypeOK, Placed
<1>2. CASE storage' = storage
  BY <1>2
<1>3. CASE WriteChunk
  <2> DEFINE chunk == SubSeq(op.rest, 1, ChunkSize)
  <2>1. storage' = Stored(chunk) /\ end' = end + ChunkSize
    BY <1>3 DEF WriteChunk
  <2>2. ChunkSize \in 0 .. Len(op.rest)
    <3>1. Len(op.rest) \in Nat
      BY <1>1, LenProperties
    <3> QED
      BY <3>1, CapacityType DEF ChunkSize, Smaller
  <2>3. chunk \in Seq(Unit) /\ Len(chunk) = ChunkSize
    BY <1>1, <2>2, SubSeqOfPackets, PacketsAreUnits
  <2> HIDE DEF chunk
  <2>4. end + Len(chunk) - begin' <= Capacity
    BY <1>1, <2>1, <2>3
  <2> QED
    BY <1>1, <2>1, <2>3, <2>4, StoredKeeps
<1>4. ASSUME NEW b \in Blocks, AppendWebm(b), storage' # storage
      PROVE  storage'[o % Capacity] = storage[o % Capacity]
  <2> DEFINE units == <<b>> \o [k \in 1 .. b.units - 1 |-> Body]
  <2>1. storage' = Stored(units) /\ end' = end + b.units
    BY <1>4 DEF AppendWebm
  <2>2. units \in Seq(Unit) /\ Len(units) = b.units
    BY InputAssumption, RecordUnits
  <2> HIDE DEF units
  <2>3. end + Len(units) - begin' <= Capacity
    BY <1>1, <2>1, <2>2
  <2> QED
    BY <1>1, <2>1, <2>2, <2>3, StoredKeeps
<1>5. storage' = storage \/ WriteChunk \/ \E b \in Blocks : AppendWebm(b)
  BY DEF Next, vars, AppendInput, AppendEnds, IndexEnds, SkipUnit, IndexPacket,
         ScanSettings, Trim, SetVideoPid, Discontinuity, DiscardBefore, Seek, ringVars
<1> QED
  BY <1>2, <1>3, <1>4, <1>5

--------------------------------------------------------------------------------
(* Marks: none, fewer, one more, and the same ones after a step. *)
LEMMA NoMarks ==
  ASSUME NEW newest, NEW start, NEW cells, NEW indexed
  PROVE  GoodMarks(<<>>, newest, start, cells, indexed)
<1>1. Len(<<>>) = 0
  BY EmptySeq
<1> QED
  BY <1>1 DEF GoodMarks

LEMMA FewerMarks ==
  ASSUME NEW ms \in Seq(Mark), NEW n \in 0 .. Len(ms),
         NEW newest, NEW start, NEW cells, NEW indexed,
         GoodMarks(ms, newest, start, cells, indexed)
  PROVE  GoodMarks(After(ms, n), newest, start, cells, indexed)
<1> DEFINE as == After(ms, n)
<1>1. /\ Len(ms) \in Nat /\ n \in Nat /\ Len(as) = Len(ms) - n
      /\ \A i \in 1 .. Len(as) : i + n \in 1 .. Len(ms) /\ as[i] = ms[i + n]
  <2>1. Len(ms) \in Nat /\ n \in Nat /\ Len(as) = Len(ms) - n
    BY AfterMarks, LenProperties
  <2>2. \A i \in 1 .. Len(as) : as[i] = ms[i + n]
    BY AfterMarks
  <2> HIDE DEF as
  <2>3. \A i \in 1 .. Len(as) : i + n \in 1 .. Len(ms)
    BY <2>1
  <2> QED
    BY <2>1, <2>2, <2>3
<1> HIDE DEF as
<1>2. \A i, j \in 1 .. Len(as) : i < j => as[i].offset < as[j].offset
  <2> SUFFICES ASSUME NEW i \in 1 .. Len(as), NEW j \in 1 .. Len(as), i < j
               PROVE  as[i].offset < as[j].offset
    OBVIOUS
  <2>1. i + n \in 1 .. Len(ms) /\ j + n \in 1 .. Len(ms) /\ i + n < j + n
    BY <1>1
  <2> QED
    BY <1>1, <2>1 DEF GoodMarks
<1>3. \A i \in 1 .. Len(as) : as[i].pts <= newest /\ Told(as[i], start, cells, indexed)
  BY <1>1 DEF GoodMarks
<1>4. GoodMarks(as, newest, start, cells, indexed)
  BY <1>2, <1>3 DEF GoodMarks
<1> QED
  BY <1>4 DEF as

LEMMA OneMoreMark ==
  ASSUME NEW ms \in Seq(Mark), NEW m \in Mark,
         NEW newest \in Nat, NEW start, NEW cells, NEW indexed,
         GoodMarks(ms, newest, start, cells, indexed),
         \A i \in 1 .. Len(ms) : ms[i].offset < m.offset,
         Told(m, start, cells, indexed)
  PROVE  GoodMarks(Append(ms, m), Larger(newest, m.pts), start, cells, indexed)
<1> DEFINE as == Append(ms, m)
           high == Larger(newest, m.pts)
<1>1. /\ Len(ms) \in Nat /\ Len(as) = Len(ms) + 1 /\ as[Len(ms) + 1] = m
      /\ \A i \in 1 .. Len(ms) : as[i] = ms[i]
  BY AppendProperties, LenProperties
<1>2. m.pts \in Nat /\ high \in Nat /\ newest <= high /\ m.pts <= high
  <2>1. m.pts \in Nat
    BY DEF Mark
  <2> QED
    BY <2>1 DEF Larger
<1>3. \A i \in 1 .. Len(as) : i \in 1 .. Len(ms) \/ i = Len(ms) + 1
  BY <1>1
<1> HIDE DEF as, high
<1>4. \A i, j \in 1 .. Len(as) : i < j => as[i].offset < as[j].offset
  <2> SUFFICES ASSUME NEW i \in 1 .. Len(as), NEW j \in 1 .. Len(as), i < j
               PROVE  as[i].offset < as[j].offset
    OBVIOUS
  <2>1. i \in 1 .. Len(ms)
    BY <1>1, <1>3
  <2>2. CASE j \in 1 .. Len(ms)
    BY <1>1, <2>1, <2>2 DEF GoodMarks
  <2>3. CASE j = Len(ms) + 1
    BY <1>1, <2>1, <2>3
  <2> QED
    BY <1>3, <2>2, <2>3
<1>5. \A i \in 1 .. Len(as) : as[i].pts <= high
  <2> SUFFICES ASSUME NEW i \in 1 .. Len(ms)
               PROVE  ms[i].pts <= high
    BY <1>1, <1>2, <1>3
  <2>1. ms[i].pts \in Nat /\ ms[i].pts <= newest
    BY MarkTypes DEF GoodMarks
  <2> QED
    BY <1>2, <2>1
<1>6. \A i \in 1 .. Len(as) : Told(as[i], start, cells, indexed)
  BY <1>1, <1>3 DEF GoodMarks
<1>7. GoodMarks(as, high, start, cells, indexed)
  BY <1>4, <1>5, <1>6 DEF GoodMarks
<1> QED
  BY <1>7 DEF as, high

LEMMA MarksKept ==
  ASSUME RingInv, Indexed, [Next]_vars
  PROVE  GoodMarks(marks, latest, begin', storage', pids.indexed)
<1>1. /\ marks \in Seq(Mark) /\ begin \in Nat /\ begin' \in Nat /\ end \in Nat /\ begin <= begin'
  BY ForwardStep DEF RingInv, TypeOK
<1>2. ASSUME NEW i \in 1 .. Len(marks)
      PROVE  Told(marks[i], begin', storage', pids.indexed)
  <2>1. marks[i].offset \in Nat /\ marks[i].offset < end
    BY <1>1, MarkTypes DEF RingInv, MarksBehind
  <2>2. begin' <= marks[i].offset
          => /\ begin <= marks[i].offset
             /\ storage'[marks[i].offset % Capacity] = storage[marks[i].offset % Capacity]
    BY <1>1, <2>1, CellsKept
  <2>3. Told(marks[i], begin, storage, pids.indexed)
    BY DEF Indexed, GoodMarks
  <2> QED
    BY <2>2, <2>3 DEF Told
<1> QED
  BY <1>2 DEF Indexed, GoodMarks

LEMMA IndexedNext ==
  ASSUME mode' = mode, GoodMarks(marks', latest', begin', storage', pids'.indexed)
  PROVE  Indexed'
BY DEF Indexed, GoodMarks, Told, Describes

--------------------------------------------------------------------------------
(* The clock: a difference modulo the range moves it by at most one wrap. *)
LEMMA SmallModulus ==
  ASSUME NEW M \in Nat, M >= 1, NEW x \in Int, -M < x, x < M
  PROVE  x % M = IF x >= 0 THEN x ELSE x + M
<1> DEFINE q == x \div M
           r == x % M
<1>1. q \in Int /\ r \in Int /\ 0 <= r /\ r < M /\ x = M * q + r
  OBVIOUS
<1> HIDE DEF q, r
<1>2. CASE q >= 1
  <2>1. M * q >= M
    BY <1>1, <1>2
  <2> QED
    BY <1>1, <2>1
<1>3. CASE q <= -2
  <2>1. M * q <= M * (-2)
    BY <1>1, <1>3
  <2> QED
    BY <1>1, <2>1
<1>4. CASE q = 0
  <2>1. M * q = 0
    BY <1>4
  <2> QED
    BY <1>1, <2>1 DEF r
<1>5. CASE q = -1
  <2>1. M * q = -M
    BY <1>5
  <2> QED
    BY <1>1, <2>1 DEF r
<1> QED
  BY <1>1, <1>2, <1>3, <1>4, <1>5

LEMMA ClockMoves ==
  ASSUME clock.raw \in 0 .. PtsModulus - 1, NEW raw \in 0 .. PtsModulus - 1,
         NEW w \in Int, clock.ticks = clock.raw + w * PtsModulus
  PROVE  \E v \in Int : v <= w + 1 /\ clock.ticks + ClockDelta(raw) = raw + v * PtsModulus
<1> DEFINE M == PtsModulus
           d == raw - clock.raw
           whole == w * M
<1>1. M \in Nat /\ M >= 4 /\ d \in Int /\ -M < d /\ d < M
  BY PtsModulusAssumption
<1>2. whole \in Int /\ (w + 1) * M = whole + M /\ (w - 1) * M = whole - M
  BY <1>1
<1> DEFINE ahead == d % M
<1>3. ahead = d \/ ahead = d + M
  BY <1>1, SmallModulus
<1>4. ClockDelta(raw) = ahead \/ ClockDelta(raw) = ahead - M
  BY DEF ClockDelta
<1>5. ClockDelta(raw) = d \/ ClockDelta(raw) = d + M \/ ClockDelta(raw) = d - M
  <2> HIDE DEF ahead, d, M
  <2>1. CASE ClockDelta(raw) = ahead
    BY <1>3, <2>1
  <2>2. CASE ClockDelta(raw) = ahead - M
    BY <1>1, <1>3, <2>2
  <2> QED
    BY <1>4, <2>1, <2>2
<1>6. clock.ticks = clock.raw + whole /\ clock.raw \in Int /\ raw \in Int
  BY <1>1
<1>7. w * M = whole
  OBVIOUS
<1> HIDE DEF whole, M
<1>8. CASE ClockDelta(raw) = d
  <2>1. clock.ticks + ClockDelta(raw) = raw + w * M
    BY <1>2, <1>6, <1>7, <1>8
  <2> QED
    BY <2>1 DEF M
<1>9. CASE ClockDelta(raw) = d + M
  <2>1. clock.ticks + ClockDelta(raw) = raw + (w + 1) * M
    <3>1. clock.ticks + ClockDelta(raw) = raw + (whole + M)
      BY <1>1, <1>2, <1>6, <1>9
    <3> QED
      BY <1>2, <3>1
  <2>2. w + 1 \in Int /\ w + 1 <= w + 1
    OBVIOUS
  <2> QED
    BY <2>1, <2>2 DEF M
<1>10. CASE ClockDelta(raw) = d - M
  <2>1. clock.ticks + ClockDelta(raw) = raw + (w - 1) * M
    <3>1. clock.ticks + ClockDelta(raw) = raw + (whole - M)
      BY <1>1, <1>2, <1>6, <1>10
    <3> QED
      BY <1>2, <3>1
  <2>2. w - 1 \in Int /\ w - 1 <= w + 1
    OBVIOUS
  <2> QED
    BY <2>1, <2>2 DEF M
<1> QED
  BY <1>5, <1>8, <1>9, <1>10

(* The ticks of the packet at the scan: its clock, with no more wraps than *)
(* units visited, and none below zero if the ticks are not. *)
LEMMA PictureTicks ==
  ASSUME RingInv, ClockFits, mode # "webm", op.at = "index"
  PROVE  /\ AtScan.ticks \in 0 .. PtsModulus - 1
         /\ \E w \in Int : /\ w <= scan + 1
                           /\ TicksOf(AtScan.ticks) = AtScan.ticks + w * PtsModulus
<1>1. AtScan.ticks \in 0 .. PtsModulus - 1 /\ scan \in Nat
  BY IndexerFacts DEF Packet
<1>2. CASE ~(clock.have /\ ~ClockJumps(AtScan.ticks))
  <2>1. TicksOf(AtScan.ticks) = AtScan.ticks
    BY <1>2 DEF TicksOf
  <2>2. AtScan.ticks = AtScan.ticks + 0 * PtsModulus /\ 0 <= scan + 1 /\ 0 \in Int
    BY <1>1, PtsModulusAssumption
  <2> QED
    BY <1>1, <2>1, <2>2
<1>3. CASE clock.have /\ ~ClockJumps(AtScan.ticks)
  <2>1. TicksOf(AtScan.ticks) = clock.ticks + ClockDelta(AtScan.ticks)
    BY <1>3 DEF TicksOf
  <2>2. clock.raw \in 0 .. PtsModulus - 1
    BY <1>3 DEF ClockFits
  <2>3. PICK w \in Int : w <= scan /\ clock.ticks = clock.raw + w * PtsModulus
    BY <1>3 DEF ClockFits, Visited
  <2>4. PICK v \in Int : /\ v <= w + 1
                         /\ clock.ticks + ClockDelta(AtScan.ticks) = AtScan.ticks + v * PtsModulus
    BY <1>1, <2>2, <2>3, ClockMoves
  <2>5. v <= scan + 1
    BY <1>1, <2>3, <2>4
  <2> QED
    BY <1>1, <2>1, <2>4, <2>5
<1> QED
  BY <1>2, <1>3

LEMMA WrapsInBound ==
  ASSUME NEW t \in 0 .. PtsModulus - 1, NEW w \in Int, t + w * PtsModulus >= 0,
         NEW most \in Nat, w <= most
  PROVE  w \in 0 .. most
<1> SUFFICES ASSUME w <= -1 PROVE FALSE
  OBVIOUS
<1>1. PtsModulus \in Nat /\ PtsModulus >= 4
  BY PtsModulusAssumption
<1>2. w * PtsModulus <= -PtsModulus
  BY <1>1
<1> QED
  BY <1>1, <1>2

--------------------------------------------------------------------------------
(* The steps.  A clock that stays fits as long as nothing is unvisited. *)
LEMMA ClockStays ==
  ASSUME ClockFits, mode' = mode, clock' = clock,
         Visited \in Int, Visited' \in Int, Visited <= Visited'
  PROVE  ClockFits'
<1> SUFFICES ASSUME mode # "webm", clock.have
             PROVE  /\ clock.raw \in 0 .. PtsModulus - 1
                    /\ \E w \in Int : w <= Visited' /\ clock.ticks = clock.raw + w * PtsModulus
  BY DEF ClockFits
<1>1. clock.raw \in 0 .. PtsModulus - 1
  BY DEF ClockFits
<1>2. PICK w \in Int : w <= Visited /\ clock.ticks = clock.raw + w * PtsModulus
  BY DEF ClockFits
<1>3. w <= Visited'
  BY <1>2
<1> QED
  BY <1>1, <1>2, <1>3

LEMMA ClockStops == ASSUME ~clock'.have PROVE ClockFits'
BY DEF ClockFits

LEMMA SameMarks ==
  ASSUME RingInv, IndexInv, [Next]_vars, mode' = mode,
         UNCHANGED <<marks, latest>>, pids'.indexed = pids.indexed
  PROVE  Indexed' /\ NoneIndexed'
<1>1. Indexed'
  BY MarksKept, IndexedNext DEF IndexInv
<1>2. NoneIndexed'
  BY DEF IndexInv, NoneIndexed
<1> QED
  BY <1>1, <1>2

LEMMA MarksGone ==
  ASSUME mode' = mode, marks' = <<>>
  PROVE  Indexed' /\ NoneIndexed' /\ Retains'
<1>1. Len(<<>>) = 0
  BY EmptySeq
<1> QED
  BY <1>1, NoMarks, IndexedNext DEF NoneIndexed, Retains

LEMMA MarksDropped ==
  ASSUME RingInv, IndexInv, [Next]_vars, mode' = mode,
         latest' = latest, pids' = pids,
         NEW n \in 0 .. Len(marks), marks' = After(marks, n)
  PROVE  Indexed' /\ NoneIndexed'
<1>1. marks \in Seq(Mark)
  BY DEF RingInv, TypeOK
<1>2. GoodMarks(marks, latest, begin', storage', pids.indexed)
  BY MarksKept DEF IndexInv
<1>3. Indexed'
  BY <1>1, <1>2, FewerMarks, IndexedNext
<1>4. NoneIndexed'
  <2> SUFFICES ASSUME mode # "webm", pids.indexed = 0
               PROVE  marks' = <<>>
    BY DEF NoneIndexed
  <2>1. marks = <<>>
    BY DEF IndexInv, NoneIndexed
  <2>2. Len(marks') = 0 /\ marks' \in Seq(Mark)
    <3>1. Len(<<>>) = 0
      BY EmptySeq
    <3>2. n = 0 /\ Len(marks) = 0
      BY <2>1, <3>1
    <3>3. After(marks, n) \in Seq(Mark) /\ Len(After(marks, n)) = Len(marks) - n
      BY <1>1, AfterMarks
    <3> QED
      BY <3>2, <3>3
  <2> QED
    BY <2>2, EmptySeq
<1> QED
  BY <1>3, <1>4

\* The types these steps need.
LEMMA IndexTypes ==
  ASSUME RingInv
  PROVE  /\ begin \in Nat /\ end \in Nat /\ scan \in Nat /\ latest \in Nat
         /\ marks \in Seq(Mark) /\ Len(marks) \in Nat
         /\ op.rest \in Seq(Packet) /\ Len(op.rest) \in Nat
         /\ clock \in [have : BOOLEAN, ticks : Int, raw : Nat]
         /\ pids \in [video : Nat, indexed : Nat]
         /\ op.at \in {"idle", "write", "index", "replay", "trim", "finish"}
         /\ Visited \in Int
<1>1. Len(marks) \in Nat /\ Len(op.rest) \in Nat
  BY LenProperties DEF RingInv, TypeOK
<1> QED
  BY <1>1 DEF RingInv, TypeOK, Visited

LEMMA IndexTypesNext == ASSUME RingInv, [Next]_vars
                        PROVE  /\ Visited' \in Int /\ scan' \in Nat /\ begin' \in Nat
                               /\ end' \in Nat /\ RingInv'
<1>1. RingInv'
  BY NextInv
<1>2. scan' \in Nat /\ begin' \in Nat /\ end' \in Nat
  BY <1>1 DEF RingInv, TypeOK
<1> QED
  BY <1>1, <1>2 DEF Visited

LEMMA InputIndexed ==
  ASSUME RingInv, IndexInv, [Next]_vars, NEW input \in Inputs, AppendInput(input)
  PROVE  IndexInv'
<1>1. /\ op.at = "idle" /\ Len(input) <= MaxOffset - end
      /\ op' = [at |-> "write", rest |-> input, reset |-> FALSE]
      /\ UNCHANGED <<mode, storage, begin, end, scan, latest, marks, clock, pids>>
  BY DEF AppendInput, ringVars, timeVars
<1>2. WithinBound'
  <2>1. Len(input) \in Nat
    BY InputAssumption, LenProperties
  <2> QED
    BY <1>1, <2>1, IndexTypes, RingAssumption DEF WithinBound
<1>3. ClockFits'
  BY <1>1, IndexTypes, ClockStays DEF IndexInv, Visited
<1>4. Indexed' /\ NoneIndexed'
  BY <1>1, SameMarks
<1>5. Retains'
  BY <1>1 DEF IndexInv, Retains
<1> QED
  BY <1>2, <1>3, <1>4, <1>5 DEF IndexInv

LEMMA RestLength ==
  ASSUME NEW ps \in Seq(Packet), NEW k \in 0 .. Len(ps)
  PROVE  Len(SubSeq(ps, k + 1, Len(ps))) = Len(ps) - k
<1>1. Len(ps) \in Nat /\ k \in Nat
  BY LenProperties
<1>2. \A i \in k + 1 .. Len(ps) : ps[i] \in Packet
  BY <1>1, ElementOfSeq
<1>3. Len(SubSeq(ps, k + 1, Len(ps)))
        = IF k + 1 <= Len(ps) THEN Len(ps) - (k + 1) + 1 ELSE 0
  BY <1>1, <1>2, SubSeqProperties
<1> QED
  BY <1>1, <1>3

LEMMA ChunkIndexed ==
  ASSUME RingInv, IndexInv, [Next]_vars, WriteChunk
  PROVE  IndexInv'
<1>1. /\ op.at = "write" /\ end' = end + ChunkSize
      /\ op' = [op EXCEPT !.at = "index",
                          !.rest = SubSeq(op.rest, ChunkSize + 1, Len(op.rest))]
      /\ scan' = Larger(scan, StartAfter(begin, ChunkSize))
      /\ UNCHANGED <<mode, latest, marks, clock, pids>>
  BY DEF WriteChunk, timeVars
<1>2. ChunkSize \in 0 .. Len(op.rest)
  BY IndexTypes, CapacityType DEF ChunkSize, Smaller
<1>3. op'.at = "index" /\ op'.rest = SubSeq(op.rest, ChunkSize + 1, Len(op.rest))
  BY <1>1 DEF RingInv, TypeOK
<1>4. WithinBound'
  <2>1. Len(SubSeq(op.rest, ChunkSize + 1, Len(op.rest))) = Len(op.rest) - ChunkSize
    BY <1>2, IndexTypes, RestLength
  <2> DEFINE left == Len(SubSeq(op.rest, ChunkSize + 1, Len(op.rest)))
  <2> HIDE DEF left
  <2>2. end + Len(op.rest) = end' + left
    BY <1>1, <1>2, <2>1, IndexTypes DEF left
  <2> QED
    BY <1>1, <1>3, <2>2 DEF IndexInv, WithinBound, left
<1>5. ClockFits'
  <2>1. scan <= scan'
    <3>1. StartAfter(begin, ChunkSize) \in Int
      BY <1>2, IndexTypes, CapacityType DEF StartAfter
    <3> QED
      BY <1>1, <3>1, IndexTypes, LargerType
  <2>2. Visited <= Visited'
    BY <1>1, <1>3, <2>1, IndexTypes DEF Visited
  <2> QED
    BY <1>1, <2>2, IndexTypes, IndexTypesNext, ClockStays DEF IndexInv
<1>6. Indexed' /\ NoneIndexed'
  BY <1>1, SameMarks
<1>7. Retains'
  BY <1>3 DEF Retains
<1> QED
  BY <1>4, <1>5, <1>6, <1>7 DEF IndexInv

LEMMA EndsIndexed ==
  ASSUME RingInv, IndexInv, [Next]_vars, AppendEnds \/ IndexEnds \/ SkipUnit
  PROVE  IndexInv'
<1>1. /\ UNCHANGED <<mode, begin, end, marks, latest, clock, pids>>
      /\ op'.rest = op.rest
      /\ scan' \in {scan, scan + 1}
      /\ \/ op.at = "write" /\ op'.at = "idle"
         \/ op'.at \in {"index", "finish"}
      /\ op.at \notin {"replay", "trim"}
  BY DEF AppendEnds, IndexEnds, SkipUnit, ringVars, timeVars, Idle, RingInv, TypeOK
<1>2. WithinBound'
  BY <1>1 DEF IndexInv, WithinBound
<1>3. ClockFits'
  <2>1. Visited <= Visited'
    BY <1>1, IndexTypes DEF Visited
  <2> QED
    BY <1>1, <2>1, IndexTypes, IndexTypesNext, ClockStays DEF IndexInv
<1>4. Indexed' /\ NoneIndexed'
  BY <1>1, SameMarks
<1>5. Retains'
  BY <1>1 DEF IndexInv, Retains
<1> QED
  BY <1>2, <1>3, <1>4, <1>5 DEF IndexInv

LEMMA PictureIndexed ==
  ASSUME RingInv, IndexInv, [Next]_vars, IndexPacket
  PROVE  IndexInv'
<1>1. /\ op.at = "index" /\ mode # "webm" /\ scan < end
      /\ op'.at \in {"replay", "trim"} /\ op'.rest = op.rest
      /\ UNCHANGED <<mode, storage, end, scan>>
  BY DEF IndexPacket, RingInv, TypeOK, Placed
<1>2. WithinBound' /\ Retains'
  BY <1>1 DEF IndexInv, WithinBound, Retains
<1>3. CASE UNCHANGED <<begin, generation, clock, pids, marks, latest>>
  <2>1. Visited <= Visited'
    BY <1>1, IndexTypes DEF Visited
  <2>2. ClockFits'
    BY <1>1, <1>3, <2>1, IndexTypes, IndexTypesNext, ClockStays DEF IndexInv
  <2> QED
    BY <1>1, <1>2, <1>3, <2>2, SameMarks DEF IndexInv
<1>4. CASE Timed(AtScan) /\ MarkPicture(AtScan)
  <2> DEFINE ticks == TicksOf(AtScan.ticks)
             jump == ClockJumps(AtScan.ticks)
             kept == IF jump THEN <<>> ELSE marks
             newest == IF jump THEN 0 ELSE latest
             picture == [offset |-> scan, pts |-> Us(ticks), random |-> AtScan.random]
  <2>1. /\ clock' = [have |-> TRUE, ticks |-> ticks, raw |-> AtScan.ticks]
        /\ pids' = [pids EXCEPT !.indexed = AtScan.pid]
        /\ ~jump => begin' = begin
        /\ ticks < 0 => marks' = kept /\ latest' = newest
        /\ ~(ticks < 0) => marks' = Append(kept, picture) /\ latest' = Larger(newest, Us(ticks))
    BY <1>4 DEF MarkPicture
  <2>2. /\ AtScan \in Packet /\ AtScan.pid \in Nat /\ AtScan.pid # 0
        /\ pids.indexed # 0 => AtScan.pid = pids.indexed
        /\ pids'.indexed = AtScan.pid /\ AtScan.random \in BOOLEAN
    <3>1. AtScan \in Packet /\ AtScan.pid \in Nat /\ AtScan.random \in BOOLEAN
      BY <1>1, IndexerFacts DEF Packet
    <3>2. AtScan.pid # 0 /\ (pids.indexed # 0 => AtScan.pid = pids.indexed)
      BY <1>4 DEF Timed
    <3> QED
      BY <2>1, <3>1, <3>2, IndexTypes
  <2>3. PICK w \in Int : w <= scan + 1 /\ ticks = AtScan.ticks + w * PtsModulus
    BY <1>1, PictureTicks DEF IndexInv
  <2>4. AtScan.ticks \in 0 .. PtsModulus - 1 /\ ticks \in Int
    <3>1. AtScan.ticks \in 0 .. PtsModulus - 1
      BY <1>1, PictureTicks DEF IndexInv
    <3>2. AtScan.ticks \in Nat
      BY <3>1
    <3>3. ticks \in Int
      BY <3>2, IndexTypes, TicksType
    <3> QED
      BY <3>1, <3>3
  <2>5. ClockFits'
    BY <1>1, <2>1, <2>3, <2>4 DEF ClockFits, Visited
  <2>6. NoneIndexed'
    BY <2>2 DEF NoneIndexed
  <2>7. GoodMarks(kept, newest, begin', storage', AtScan.pid)
    <3>1. CASE jump
      BY <3>1, NoMarks
    <3>2. CASE ~jump /\ pids.indexed # 0
      BY <2>2, <3>2, MarksKept DEF IndexInv
    <3>3. CASE ~jump /\ pids.indexed = 0
      <4>1. kept = <<>>
        BY <1>1, <3>3 DEF IndexInv, NoneIndexed
      <4> QED
        BY <4>1, NoMarks
    <3> QED
      BY <3>1, <3>2, <3>3
  <2>8. kept \in Seq(Mark) /\ newest \in Nat /\ \A i \in 1 .. Len(kept) : kept[i].offset < scan
    <3>1. CASE jump
      BY <3>1, EmptySeq
    <3>2. CASE ~jump
      BY <1>1, <3>2, IndexTypes DEF RingInv, MarksBehind
    <3> QED
      BY <3>1, <3>2
  <2>9. CASE ticks < 0
    <3>1. Indexed'
      BY <1>1, <2>1, <2>2, <2>7, <2>9, IndexedNext
    <3> QED
      BY <1>2, <2>5, <2>6, <3>1 DEF IndexInv
  <2>10. CASE ~(ticks < 0)
    <3>1. Us(ticks) \in Nat
      BY <2>4, <2>10, UsType
    <3>2. picture \in Mark /\ picture.offset = scan /\ picture.pts = Us(ticks)
      BY <2>2, <3>1, IndexTypes DEF Mark
    <3>3. w \in 0 .. MaxOffset
      <4>1. scan + 1 <= MaxOffset /\ scan + 1 \in Nat
        BY <1>1, IndexTypes, RingAssumption DEF IndexInv, WithinBound
      <4>2. AtScan.ticks + w * PtsModulus >= 0
        BY <2>3, <2>4, <2>10
      <4>3. w \in 0 .. (scan + 1)
        BY <2>3, <2>4, <4>1, <4>2, WrapsInBound
      <4> QED
        BY <4>1, <4>3, IndexTypes, RingAssumption
    <3>4. Told(picture, begin', storage', AtScan.pid)
      <4>1. storage'[scan % Capacity].unit = AtScan
        BY <1>1 DEF AtScan
      <4>2. Describes(AtScan, Us(ticks))
        BY <1>1, <2>2, <2>3, <3>3 DEF Describes
      <4> HIDE DEF picture, ticks
      <4> QED
        BY <3>2, <4>1, <4>2 DEF Told
    <3> HIDE DEF picture, ticks, kept, newest
    <3>5. GoodMarks(Append(kept, picture), Larger(newest, Us(ticks)), begin', storage', AtScan.pid)
      BY <2>7, <2>8, <3>2, <3>4, OneMoreMark
    <3>6. Indexed'
      BY <1>1, <2>1, <2>2, <2>10, <3>5, IndexedNext
    <3> QED
      BY <1>2, <2>5, <2>6, <3>6 DEF IndexInv
  <2> QED
    BY <2>9, <2>10
<1> QED
  BY <1>3, <1>4 DEF IndexPacket

LEMMA SettingsIndexed ==
  ASSUME RingInv, IndexInv, [Next]_vars, ScanSettings
  PROVE  IndexInv'
<1>1. /\ op.at = "replay" /\ mode # "webm"
      /\ op'.at = "trim" /\ op'.rest = op.rest
      /\ UNCHANGED <<mode, storage, end, scan>>
  BY DEF ScanSettings, RingInv, TypeOK, Placed
<1>2. \/ marks' = <<>> /\ clock' = [clock EXCEPT !.have = FALSE]
      \/ /\ marks' = marks /\ latest' = latest /\ clock' = clock
         /\ pids'.indexed = pids.indexed \/ pids.indexed = 0
  BY DEF ScanSettings
<1>3. WithinBound' /\ Retains'
  BY <1>1 DEF IndexInv, WithinBound, Retains
<1>4. Visited' = Visited
  BY <1>1 DEF Visited
<1>5. ClockFits'
  <2>1. CASE clock' = clock
    BY <1>1, <1>4, <2>1, IndexTypes, ClockStays DEF IndexInv
  <2>2. CASE clock' = [clock EXCEPT !.have = FALSE]
    BY <2>2, IndexTypes, ClockStops
  <2> QED
    BY <1>2, <2>1, <2>2
<1>6. Indexed' /\ NoneIndexed'
  <2>1. CASE marks' = <<>>
    BY <1>1, <2>1, MarksGone
  <2>2. CASE /\ marks' = marks /\ latest' = latest
             /\ pids'.indexed = pids.indexed
    BY <1>1, <2>2, SameMarks
  <2>3. CASE marks' = marks /\ pids.indexed = 0
    <3>1. marks' = <<>>
      BY <1>1, <2>3 DEF IndexInv, NoneIndexed
    <3> QED
      BY <1>1, <3>1, MarksGone
  <2> QED
    BY <1>2, <2>1, <2>2, <2>3
<1> QED
  BY <1>3, <1>5, <1>6 DEF IndexInv

\* What is dropped from the front leaves marks from the next one on.
LEMMA FromNextOn ==
  ASSUME NEW ms \in Seq(Mark), NEW n \in 0 .. Len(ms), n < Len(ms),
         NEW newest, NEW start, NEW cells, NEW indexed,
         GoodMarks(ms, newest, start, cells, indexed)
  PROVE  \A i \in 1 .. Len(After(ms, n)) : ms[n + 1].offset <= After(ms, n)[i].offset
<1> SUFFICES ASSUME NEW i \in 1 .. Len(After(ms, n))
             PROVE  ms[n + 1].offset <= After(ms, n)[i].offset
  OBVIOUS
<1>1. /\ Len(ms) \in Nat /\ n \in Nat
      /\ Len(After(ms, n)) = Len(ms) - n /\ After(ms, n)[i] = ms[i + n]
  BY AfterMarks, LenProperties
<1>2. n + 1 \in 1 .. Len(ms) /\ i + n \in 1 .. Len(ms) /\ n + 1 <= i + n
  BY <1>1
<1>3. ms[n + 1].offset \in Nat /\ ms[i + n].offset \in Nat
  BY <1>2, MarkTypes
<1>4. CASE i + n = n + 1
  BY <1>1, <1>3, <1>4
<1>5. CASE n + 1 < i + n
  <2>1. ms[n + 1].offset < ms[i + n].offset
    BY <1>2, <1>5 DEF GoodMarks
  <2> QED
    BY <1>1, <1>3, <2>1
<1> QED
  BY <1>2, <1>4, <1>5

LEMMA TrimIndexed ==
  ASSUME RingInv, IndexInv, [Next]_vars, Trim
  PROVE  IndexInv'
<1>1. /\ mode # "webm" /\ op'.rest = op.rest
      /\ UNCHANGED <<mode, storage, end, latest, clock, pids>>
      /\ \/ op.at = "trim" /\ op'.at = "index" /\ scan' = scan + 1
         \/ op.at = "finish" /\ op'.at = "write" /\ scan' = scan
  BY DEF Trim, RingInv, TypeOK, Placed
<1>2. PICK n \in 0 .. Len(marks) :
        /\ Drops(marks, begin, FirstTime(latest), n)
        /\ marks' = After(marks, n)
        /\ begin' = IF n > 0 /\ n < Len(marks)
                    THEN Larger(begin, marks[n + 1].offset) ELSE begin
  BY DEF Trim
<1>3. WithinBound'
  BY <1>1 DEF IndexInv, WithinBound
<1>4. ClockFits'
  <2>1. Visited' = Visited
    BY <1>1 DEF Visited
  <2> QED
    BY <1>1, <2>1, IndexTypes, ClockStays DEF IndexInv
<1>5. Indexed' /\ NoneIndexed'
  BY <1>1, <1>2, MarksDropped
<1>6. Retains'
  <2> SUFFICES ASSUME NEW i \in 1 .. Len(marks')
               PROVE  begin' <= marks'[i].offset
    BY DEF Retains
  <2>1. n < Len(marks)
    <3>1. Len(marks') = Len(marks) - n
      BY <1>2, IndexTypes, AfterMarks
    <3> QED
      BY <1>2, <3>1, IndexTypes
  <2>2. marks[n + 1].offset <= marks'[i].offset
    BY <1>2, <2>1, IndexTypes, FromNextOn DEF IndexInv, Indexed
  <2>3. n + 1 \in 1 .. Len(marks)
    BY <1>2, <2>1, IndexTypes
  <2>4. marks[n + 1].offset \in Nat /\ begin <= marks[n + 1].offset
    <3>1. ~(marks[n + 1].offset < begin)
      BY <1>2, <2>1 DEF Drops, Stale
    <3> QED
      BY <2>3, <3>1, IndexTypes, MarkTypes
  <2>5. begin' <= marks[n + 1].offset
    BY <1>2, <2>4, IndexTypes DEF Larger
  <2>6. marks'[i].offset \in Nat
    <3>1. marks' \in Seq(Mark)
      BY <1>2, IndexTypes, AfterMarks
    <3> QED
      BY <3>1, MarkTypes
  <2> QED
    BY <2>2, <2>4, <2>5, <2>6, IndexTypesNext
<1> QED
  BY <1>3, <1>4, <1>5, <1>6 DEF IndexInv

LEMMA RecordIndexed ==
  ASSUME RingInv, IndexInv, [Next]_vars, NEW b \in Blocks, AppendWebm(b)
  PROVE  IndexInv'
<1> DEFINE units == <<b>> \o [k \in 1 .. b.units - 1 |-> Body]
           reset == \/ webmVideo # 0 /\ b.video # webmVideo
                    \/ clock.have /\ \/ b.pts < latest /\ latest - b.pts > WebmBackJump
                                     \/ b.pts > latest /\ b.pts - latest > WebmForwardJump
           kept   == IF reset THEN <<>> ELSE marks
           newest == IF reset THEN 0 ELSE latest
           bottom == IF reset THEN end ELSE begin
           filled == StartAfter(bottom, b.units)
           picture == [offset |-> end, pts |-> b.pts, random |-> TRUE]
           marked == IF b.key THEN Append(kept, picture) ELSE kept
           high == Larger(newest, b.pts)
<1>1. mode = "webm" /\ op.at = "idle" /\ UNCHANGED <<mode, op, pids>>
  BY DEF AppendWebm
<1>2. IF kept = <<>> /\ ~b.key
      THEN marks' = kept
      ELSE /\ storage' = Stored(units) /\ latest' = high
           /\ \E n \in 0 .. Len(marked) :
                /\ Drops(marked, filled, FirstTime(high), n)
                /\ marks' = After(marked, n)
                /\ begin' = IF n = Len(marked) THEN end + b.units
                            ELSE marked[n + 1].offset
  BY DEF AppendWebm
<1>3. /\ b \in Block /\ b.pts \in Nat /\ b.units \in Nat /\ b.units >= 1
      /\ b.units <= Capacity
  BY InputAssumption, CapacityType DEF Block
<1>4. units \in Seq(Unit) /\ Len(units) = b.units /\ units[1] = b
  <2> DEFINE rest == [k \in 1 .. b.units - 1 |-> Body]
  <2>1. b \in Unit /\ rest \in Seq(Unit)
    <3>1. Body \in Unit /\ b \in Unit
      BY <1>3 DEF Unit
    <3> QED
      BY <1>3, <3>1
  <2>2. <<b>> \in Seq(Unit) /\ Len(<<b>>) = 1 /\ <<b>>[1] = b
    BY <2>1
  <2> HIDE DEF rest
  <2>3. (<<b>> \o rest)[1] = b
    BY <2>1, <2>2, ConcatProperties
  <2> QED
    BY <1>3, <2>3, RecordUnits DEF rest
<1>5. WithinBound' /\ ClockFits' /\ NoneIndexed'
  BY <1>1 DEF WithinBound, ClockFits, NoneIndexed
<1>6. CASE kept = <<>> /\ ~b.key
  <2>1. marks' = <<>>
    BY <1>2, <1>6
  <2> QED
    BY <1>1, <1>5, <2>1, MarksGone DEF IndexInv
<1>7. CASE ~(kept = <<>> /\ ~b.key)
  <2> USE DEF IndexInv
  <2>1. storage' = Stored(units) /\ latest' = high
    BY <1>2, <1>7
  <2>2. PICK n \in 0 .. Len(marked) :
          /\ marks' = After(marked, n)
          /\ begin' = IF n = Len(marked) THEN end + b.units
                      ELSE marked[n + 1].offset
    BY <1>2, <1>7
  <2>3. /\ kept \in Seq(Mark) /\ newest \in Nat
        /\ GoodMarks(kept, newest, begin', storage', pids.indexed)
        /\ \A i \in 1 .. Len(kept) : kept[i].offset < end
    <3>1. CASE reset
      BY <3>1, NoMarks, EmptySeq
    <3>2. CASE ~reset
      <4>1. GoodMarks(marks, latest, begin', storage', pids.indexed)
        BY MarksKept
      <4>2. \A i \in 1 .. Len(marks) : marks[i].offset < end
        BY DEF RingInv, MarksBehind
      <4> HIDE DEF reset
      <4> QED
        BY <3>2, <4>1, <4>2, IndexTypes
    <3> QED
      BY <3>1, <3>2
  <2>4. /\ picture \in Mark /\ picture.pts = b.pts /\ picture.offset = end
    BY <1>3, IndexTypes DEF Mark
  <2>5. storage'[end % Capacity].unit = b
    <3> HIDE DEF units
    <3> QED
      BY <1>3, <1>4, <2>1, IndexTypes, StoredFirst
  <2>6. b.key => Told(picture, begin', storage', pids.indexed)
    BY <1>1, <1>3, <2>4, <2>5 DEF Told, Describes
  <2> HIDE DEF picture, units, reset, kept, newest, filled
  <2>7. /\ marked \in Seq(Mark)
        /\ GoodMarks(marked, high, begin', storage', pids.indexed)
    <3>1. CASE b.key
      <4>1. Append(kept, picture) \in Seq(Mark)
        BY <2>3, <2>4, AppendProperties
      <4>2. GoodMarks(Append(kept, picture), high, begin', storage', pids.indexed)
        BY <2>3, <2>4, <2>6, <3>1, OneMoreMark
      <4> QED
        BY <3>1, <4>1, <4>2
    <3>2. CASE ~b.key
      <4>1. high \in Nat /\ newest <= high
        BY <1>3, <2>3 DEF Larger
      <4>2. \A i \in 1 .. Len(kept) : kept[i].pts <= high
        <5> SUFFICES ASSUME NEW i \in 1 .. Len(kept) PROVE kept[i].pts <= high
          OBVIOUS
        <5>1. kept[i].pts \in Nat /\ kept[i].pts <= newest
          BY <2>3, MarkTypes DEF GoodMarks
        <5> QED
          BY <2>3, <4>1, <5>1
      <4> HIDE DEF high
      <4>3. GoodMarks(kept, high, begin', storage', pids.indexed)
        BY <2>3, <4>2 DEF GoodMarks
      <4> QED
        BY <2>3, <3>2, <4>3
    <3> QED
      BY <3>1, <3>2
  <2> HIDE DEF marked, high
  <2>8. Indexed'
    <3>1. GoodMarks(marks', latest', begin', storage', pids'.indexed)
      BY <1>1, <2>1, <2>2, <2>7, FewerMarks
    <3> QED
      BY <1>1, <3>1, IndexedNext
  <2>9. Retains'
    <3> SUFFICES ASSUME NEW i \in 1 .. Len(marks')
                 PROVE  begin' <= marks'[i].offset
      BY DEF Retains
    <3>1. n < Len(marked)
      <4>1. Len(marks') = Len(marked) - n /\ Len(marked) \in Nat
        BY <2>2, <2>7, AfterMarks, LenProperties
      <4> QED
        BY <2>2, <4>1
    <3>2. marked[n + 1].offset <= marks'[i].offset
      BY <2>2, <2>7, <3>1, FromNextOn
    <3>3. begin' = marked[n + 1].offset
      BY <2>2, <3>1
    <3> QED
      BY <3>2, <3>3
  <2> QED
    BY <1>5, <2>8, <2>9
<1> QED
  BY <1>6, <1>7

--------------------------------------------------------------------------------
LEMMA PidIndexed ==
  ASSUME RingInv, IndexInv, [Next]_vars, NEW pid \in Pids, SetVideoPid(pid)
  PROVE  IndexInv'
<1>1. mode' = mode /\ op.at = "idle"
  BY DEF SetVideoPid
<1>2. CASE pid = pids.indexed
  <2>1. /\ pids' = [pids EXCEPT !.video = pid]
        /\ UNCHANGED <<storage, begin, end, scan, latest, marks, clock, op>>
    BY <1>2 DEF SetVideoPid, ringVars, timeVars
  <2>2. pids'.indexed = pids.indexed
    BY <2>1, IndexTypes
  <2>3. Visited' = Visited
    BY <2>1 DEF Visited
  <2>4. WithinBound' /\ Retains'
    BY <1>1, <2>1 DEF IndexInv, WithinBound, Retains
  <2>5. ClockFits'
    BY <1>1, <2>1, <2>3, IndexTypes, ClockStays DEF IndexInv
  <2> QED
    BY <1>1, <2>1, <2>2, <2>4, <2>5, SameMarks DEF IndexInv
<1>3. CASE pid # pids.indexed
  <2>1. /\ marks' = <<>> /\ end' = end
        /\ clock' = [clock EXCEPT !.have = FALSE]
        /\ op' = [Idle EXCEPT !.at = "index"]
    BY <1>3 DEF SetVideoPid
  <2>2. WithinBound'
    <3>1. Len(<<>>) = 0 /\ op'.rest = <<>>
      BY <2>1, EmptySeq DEF Idle
    <3> QED
      <4>1. Len(op'.rest) = 0
        BY <3>1
      <4>2. mode # "webm" => end + 0 <= MaxOffset
        BY IndexTypes, RingAssumption DEF IndexInv, WithinBound
      <4> QED
        BY <1>1, <2>1, <4>1, <4>2 DEF WithinBound
  <2>3. ClockFits'
    BY <2>1, IndexTypes, ClockStops
  <2> QED
    BY <1>1, <2>1, <2>2, <2>3, MarksGone DEF IndexInv
<1> QED
  BY <1>2, <1>3

LEMMA BoundaryIndexed ==
  ASSUME RingInv, IndexInv, [Next]_vars, Discontinuity
  PROVE  IndexInv'
<1>1. /\ marks' = <<>> /\ clock' = [clock EXCEPT !.have = FALSE]
      /\ UNCHANGED <<mode, op, end>>
  BY DEF Discontinuity
<1>2. ClockFits'
  BY <1>1, IndexTypes, ClockStops
<1> QED
  BY <1>1, <1>2, MarksGone DEF IndexInv, WithinBound

LEMMA DiscardIndexed ==
  ASSUME RingInv, IndexInv, [Next]_vars, NEW pts, NEW gen, DiscardBefore(pts, gen)
  PROVE  IndexInv'
<1>1. /\ op.at = "idle"
      /\ UNCHANGED <<mode, storage, end, scan, latest, clock, pids, op>>
  BY DEF DiscardBefore
<1>2. PICK n \in 1 .. Len(marks) :
        /\ marks' = After(marks, n)
        /\ begin' = Larger(begin, IF n = Len(marks) THEN end ELSE marks[n + 1].offset)
  BY DEF DiscardBefore
<1>3. n \in 0 .. Len(marks)
  BY IndexTypes
<1>4. WithinBound'
  BY <1>1 DEF IndexInv, WithinBound
<1>5. ClockFits'
  <2>1. Visited' = Visited
    BY <1>1 DEF Visited
  <2> QED
    BY <1>1, <2>1, IndexTypes, ClockStays DEF IndexInv
<1>6. Indexed' /\ NoneIndexed'
  BY <1>1, <1>2, <1>3, MarksDropped
<1>7. Retains'
  <2> SUFFICES ASSUME NEW i \in 1 .. Len(marks')
               PROVE  begin' <= marks'[i].offset
    BY DEF Retains
  <2>1. n < Len(marks)
    <3>1. Len(marks') = Len(marks) - n
      BY <1>2, <1>3, IndexTypes, AfterMarks
    <3> QED
      BY <1>2, <3>1, IndexTypes
  <2>2. marks[n + 1].offset <= marks'[i].offset
    BY <1>2, <1>3, <2>1, IndexTypes, FromNextOn DEF IndexInv, Indexed
  <2>3. n + 1 \in 1 .. Len(marks)
    BY <1>2, <2>1, IndexTypes
  <2>4. marks[n + 1].offset \in Nat /\ begin <= marks[n + 1].offset
    BY <1>1, <2>3, IndexTypes, MarkTypes DEF IndexInv, Retains
  <2>5. begin' = marks[n + 1].offset
    BY <1>2, <2>1, <2>4, IndexTypes DEF Larger
  <2> QED
    BY <2>2, <2>5
<1> QED
  BY <1>4, <1>5, <1>6, <1>7 DEF IndexInv

LEMMA SeekIndexed ==
  ASSUME RingInv, IndexInv, [Next]_vars,
         \/ \E target \in Targets : Seek(target)
         \/ UNCHANGED vars
  PROVE  IndexInv'
<1>1. UNCHANGED <<mode, storage, begin, end, scan, latest, marks, clock, pids, op>>
  BY DEF Seek, vars, ringVars, timeVars
<1>2. WithinBound' /\ Retains'
  BY <1>1 DEF IndexInv, WithinBound, Retains
<1>3. Visited' = Visited
  BY <1>1 DEF Visited
<1>4. ClockFits'
  BY <1>1, <1>3, IndexTypes, ClockStays DEF IndexInv
<1> QED
  BY <1>1, <1>2, <1>4, SameMarks DEF IndexInv

LEMMA IndexStep == RingInv /\ IndexInv /\ [Next]_vars => IndexInv'
<1> SUFFICES ASSUME RingInv, IndexInv, [Next]_vars
             PROVE  IndexInv'
  OBVIOUS
<1>1. CASE \E input \in Inputs : AppendInput(input)
  BY <1>1, InputIndexed
<1>2. CASE WriteChunk
  BY <1>2, ChunkIndexed
<1>3. CASE AppendEnds \/ IndexEnds \/ SkipUnit
  BY <1>3, EndsIndexed
<1>4. CASE IndexPacket
  BY <1>4, PictureIndexed
<1>5. CASE ScanSettings
  BY <1>5, SettingsIndexed
<1>6. CASE Trim
  BY <1>6, TrimIndexed
<1>7. CASE \E b \in Blocks : AppendWebm(b)
  BY <1>7, RecordIndexed
<1>8. CASE \E pid \in Pids : SetVideoPid(pid)
  BY <1>8, PidIndexed
<1>9. CASE Discontinuity
  BY <1>9, BoundaryIndexed
<1>10. CASE \E pts \in Targets, gen \in 0 .. generation : DiscardBefore(pts, gen)
  BY <1>10, DiscardIndexed
<1>11. CASE (\E target \in Targets : Seek(target)) \/ UNCHANGED vars
  BY <1>11, SeekIndexed
<1> QED
  BY <1>1, <1>2, <1>3, <1>4, <1>5, <1>6, <1>7, <1>8, <1>9, <1>10, <1>11 DEF Next

LEMMA InitIndexed == Init => IndexInv
<1> SUFFICES ASSUME Init PROVE IndexInv
  OBVIOUS
<1>1. marks = <<>> /\ Len(<<>>) = 0 /\ op = Idle /\ ~clock.have /\ end = 0
  BY EmptySeq DEF Init
<1>2. WithinBound
  BY <1>1, RingAssumption DEF WithinBound, Idle
<1>3. Indexed
  BY <1>1, NoMarks DEF Indexed
<1> QED
  BY <1>1, <1>2, <1>3 DEF IndexInv, ClockFits, NoneIndexed, Retains

(* The inductive invariant of the index: order, times, clock and what each *)
(* retained mark says of the ring. *)
THEOREM IndexInvariant == Spec => []IndexInv
BY InitIndexed, IndexStep, RingInvariant, PTL DEF Spec

(* Outside the mutex every mark is retained, in the order of the download, *)
(* and leads to a picture of the indexed stream with the time it says.     *)
THEOREM MarksAreTrue == Spec => []MarksDescribeRetained
<1>1. RingInv /\ IndexInv => MarksDescribeRetained
  <2> SUFFICES ASSUME RingInv, IndexInv, op.at = "idle", NEW i \in DOMAIN marks
               PROVE  /\ begin <= marks[i].offset /\ marks[i].offset < end
                      /\ i > 1 => marks[i - 1].offset < marks[i].offset
                      /\ marks[i].pts <= latest
                      /\ Describes(storage[marks[i].offset % Capacity].unit, marks[i].pts)
                      /\ mode # "webm"
                           => storage[marks[i].offset % Capacity].unit.pid = pids.indexed
    BY DEF MarksDescribeRetained
  <2>1. i \in 1 .. Len(marks)
    BY IndexTypes, LenProperties
  <2>2. begin <= marks[i].offset /\ marks[i].offset < end
    BY <2>1 DEF IndexInv, Retains, RingInv, MarksBehind
  <2>3. i > 1 => marks[i - 1].offset < marks[i].offset
    <3>1. i > 1 => i - 1 \in 1 .. Len(marks) /\ i - 1 < i
      BY <2>1, IndexTypes
    <3> QED
      BY <2>1, <3>1 DEF IndexInv, Indexed, GoodMarks
  <2>4. marks[i].pts <= latest /\ Told(marks[i], begin, storage, pids.indexed)
    BY <2>1 DEF IndexInv, Indexed, GoodMarks
  <2> QED
    BY <2>2, <2>3, <2>4 DEF Told
<1> QED
  BY <1>1, IndexInvariant, RingInvariant, PTL

--------------------------------------------------------------------------------
(* A kept position that is still accepted leads to what was sought. *)
HeldTells == Retained(held) => Describes(storage[held.offset % Capacity].unit, held.pts)

LEMMA HeldTellsStep ==
  ASSUME RingInv, IndexInv, HeldInv, HeldTells, [Next]_vars
  PROVE  HeldTells'
<1> SUFFICES ASSUME Retained(held)'
             PROVE  Describes(storage[held.offset % Capacity].unit, held.pts)'
  BY DEF HeldTells
<1>1. mode' = mode
  BY ModeStays
<1>2. CASE \E target \in Targets : Seek(target)
  <2>1. /\ op.at = "idle" /\ UNCHANGED <<storage, begin, end, generation>>
        /\ \E target \in Targets : held' \in SeekTo(target)
    BY <1>2 DEF Seek, ringVars, timeVars
  <2>2. held' # NoPosition
    BY DEF Retained, NoPosition
  <2>3. PICK i \in 1 .. Len(marks) : held' = PositionOf(i)
    BY <2>1, <2>2, SeekToMarks
  <2>4. begin <= marks[i].offset /\ Told(marks[i], begin, storage, pids.indexed)
    BY <2>1 DEF IndexInv, Retains, Indexed, GoodMarks
  <2>5. held'.offset = marks[i].offset /\ held'.pts = marks[i].pts
    BY <2>3 DEF PositionOf
  <2>6. Describes(storage[held'.offset % Capacity].unit, held'.pts)
    BY <2>4, <2>5 DEF Told
  <2> QED
    BY <1>1, <2>1, <2>6 DEF Describes
<1>3. CASE held' = held
  <2>1. /\ held # NoPosition /\ held.generation = generation' /\ begin' <= held.offset
        /\ held.offset < end' /\ held.offset \in Nat /\ held.generation \in Nat
        /\ begin \in Nat /\ begin' \in Nat /\ end \in Nat /\ generation \in Nat
        /\ generation' \in Nat /\ begin <= begin' /\ generation <= generation'
    BY <1>3, ForwardStep DEF Retained, NoPosition, RingInv, TypeOK
  <2>2. held.offset < end /\ held.generation <= generation
    BY <2>1 DEF HeldInv
  <2>3. Retained(held) /\ held.offset \in begin' .. end - 1
    <3>1. begin <= held.offset /\ held.generation = generation
      BY <2>1, <2>2
    <3>2. held.offset \in begin' .. end - 1
      BY <2>1, <2>2
    <3> QED
      BY <2>1, <2>2, <3>1, <3>2 DEF Retained
  <2>4. storage'[held.offset % Capacity] = storage[held.offset % Capacity]
    BY <2>3, CellsKept
  <2>5. Describes(storage[held.offset % Capacity].unit, held.pts)
    BY <2>3 DEF HeldTells
  <2> QED
    BY <1>1, <1>3, <2>4, <2>5 DEF Describes
<1>4. held' = held \/ \E target \in Targets : Seek(target)
  BY DEF Next, vars, AppendInput, WriteChunk, AppendEnds, IndexEnds, SkipUnit, IndexPacket,
         ScanSettings, Trim, AppendWebm, SetVideoPid, Discontinuity, DiscardBefore
<1> QED
  BY <1>2, <1>3, <1>4

(* A position the controls kept while the download went on is refused, or  *)
(* still leads to the picture that was sought.                             *)
THEOREM HeldIsTrue == Spec => []HeldIsExactOrRefused
<1>1. Init => HeldInv /\ HeldTells
  BY DEF Init, HeldInv, HeldTells, Retained
<1>2. RingInv /\ IndexInv /\ HeldInv /\ HeldTells /\ [Next]_vars => HeldTells'
  BY HeldTellsStep
<1>3. RingInv /\ HeldInv /\ [Next]_vars => HeldInv'
  BY HeldStep
<1>4. HeldTells => HeldIsExactOrRefused
  BY DEF HeldTells, HeldIsExactOrRefused
<1> QED
  BY <1>1, <1>2, <1>3, <1>4, RingInvariant, IndexInvariant, PTL DEF Spec

--------------------------------------------------------------------------------
(* A WebM history is empty or a chain of whole records.  With the index it  *)
(* is inductive as it stands: what a write cuts off ends at a mark.         *)
WholeAt(o, cells, last) ==
  LET unit == cells[o % Capacity].unit
  IN  unit \in Block =>
        /\ o + unit.units <= last
        /\ \A k \in 1 .. unit.units - 1 : cells[(o + k) % Capacity].unit = Body
        /\ o + unit.units < last => cells[(o + unit.units) % Capacity].unit \in Block

LEMMA BodyIsNoBlock == Body \notin Block
<1> SUFFICES ASSUME Body \in Block PROVE FALSE
  OBVIOUS
<1>1. DOMAIN Body = {"video", "pts", "units", "key"}
  BY DEF Block
<1>2. DOMAIN Body = {"body"}
  BY DEF Body
<1> QED
  BY <1>1, <1>2

LEMMA WholeParts ==
  WholeRecords <=> (mode = "webm" /\ begin < end =>
                      /\ marks # <<>> /\ marks[1].offset = begin
                      /\ \A o \in begin .. end - 1 : WholeAt(o, storage, end))
BY DEF WholeRecords, WholeAt

LEMMA WholeNext ==
  ASSUME mode' = mode,
         mode = "webm" /\ begin' < end' =>
           /\ marks' # <<>> /\ marks'[1].offset = begin'
           /\ \A o \in begin' .. end' - 1 : WholeAt(o, storage', end')
  PROVE  WholeRecords'
BY DEF WholeRecords, WholeAt

(* The first of what is left of the marks. *)
LEMMA FirstLeft ==
  ASSUME NEW ms \in Seq(Mark), NEW n \in 0 .. Len(ms), n < Len(ms)
  PROVE  After(ms, n) # <<>> /\ After(ms, n)[1] = ms[n + 1]
<1>1. Len(ms) \in Nat /\ Len(After(ms, n)) = Len(ms) - n
  BY AfterMarks, LenProperties
<1>2. 1 \in 1 .. Len(After(ms, n)) /\ Len(<<>>) = 0
  BY <1>1, EmptySeq
<1>3. After(ms, n)[1] = ms[1 + n]
  BY <1>2, AfterMarks
<1> QED
  BY <1>1, <1>2, <1>3

(* A later start in the same ring. *)
LEMMA WholeLater ==
  ASSUME RingInv, WholeRecords, mode' = mode, UNCHANGED <<storage, end>>,
         begin' \in Nat, begin <= begin',
         begin' < end => marks' # <<>> /\ marks'[1].offset = begin'
  PROVE  WholeRecords'
<1>1. begin \in Nat /\ end \in Nat
  BY IndexTypes
<1>2. mode = "webm" /\ begin' < end' =>
        \A o \in begin' .. end' - 1 : o \in begin .. end - 1 /\ begin < end
  BY <1>1
<1>3. mode = "webm" /\ begin' < end' =>
        \A o \in begin' .. end' - 1 : WholeAt(o, storage', end')
  BY <1>2, WholeParts
<1> QED
  BY <1>3, WholeNext

LEMMA WholeAppend ==
  ASSUME RingInv, IndexInv, WholeRecords, [Next]_vars, NEW b \in Blocks, AppendWebm(b)
  PROVE  WholeRecords'
<1> DEFINE units == <<b>> \o [k \in 1 .. b.units - 1 |-> Body]
           last == end + b.units
<1>1. mode = "webm" /\ mode' = mode
  BY DEF AppendWebm
<1>2. /\ b \in Block /\ b.units \in Nat /\ b.units >= 1 /\ b.units <= Capacity
      /\ begin \in Nat /\ end \in Nat /\ begin' \in Nat /\ begin <= begin' /\ begin <= end
  BY InputAssumption, CapacityType, IndexTypes, ForwardStep DEF Block, RingInv, Placed
<1>3. CASE UNCHANGED <<storage, end>>
  <2>1. end' # last
    BY <1>2, <1>3
  <2>2. \/ begin' = end
        \/ begin' = begin /\ marks = <<>>
    BY <2>1 DEF AppendWebm
  <2>3. ~(begin' < end)
    <3>1. marks = <<>> => ~(begin < end)
      BY <1>1, WholeParts
    <3> QED
      BY <1>2, <2>2, <3>1
  <2> QED
    BY <1>1, <1>2, <1>3, <2>3, WholeLater
<1>4. CASE ~UNCHANGED <<storage, end>>
  <2>1. storage' = Stored(units) /\ end' = last
    BY <1>4 DEF AppendWebm
  <2>2. begin' < last => marks' # <<>> /\ marks'[1].offset = begin'
    <3> DEFINE picture == [offset |-> end, pts |-> b.pts, random |-> TRUE]
    <3>1. PICK kept \in {<<>>, marks} :
            LET marked == IF b.key THEN Append(kept, picture) ELSE kept
            IN  \E n \in 0 .. Len(marked) :
                  /\ marks' = After(marked, n)
                  /\ begin' = IF n = Len(marked) THEN last ELSE marked[n + 1].offset
      BY <1>4 DEF AppendWebm
    <3> DEFINE marked == IF b.key THEN Append(kept, picture) ELSE kept
    <3>2. marked \in Seq(Mark)
      <4>1. kept \in Seq(Mark)
        BY IndexTypes, EmptySeq
      <4>2. picture \in Mark
        BY <1>2 DEF Mark, Block
      <4> HIDE DEF picture
      <4> QED
        BY <4>1, <4>2, AppendProperties
    <3>3. PICK n \in 0 .. Len(marked) :
            /\ marks' = After(marked, n)
            /\ begin' = IF n = Len(marked) THEN last ELSE marked[n + 1].offset
      BY <3>1
    <3> HIDE DEF marked
    <3>4. CASE n = Len(marked)
      BY <1>2, <3>3, <3>4
    <3>5. CASE n # Len(marked)
      <4>1. n < Len(marked)
        BY <3>2, <3>3, <3>5, LenProperties
      <4> QED
        BY <3>2, <3>3, <3>5, <4>1, FirstLeft
    <3> QED
      BY <3>4, <3>5
  <2>3. /\ units \in Seq(Unit) /\ Len(units) = b.units /\ units[1] = b
        /\ \A k \in 2 .. b.units : units[k] = Body
    <3> DEFINE rest == [k \in 1 .. b.units - 1 |-> Body]
    <3>1. b \in Unit /\ rest \in Seq(Unit) /\ Len(rest) = b.units - 1
      <4>1. Body \in Unit /\ b \in Unit
        BY <1>2 DEF Unit
      <4> QED
        BY <1>2, <4>1
    <3>2. <<b>> \in Seq(Unit) /\ Len(<<b>>) = 1 /\ <<b>>[1] = b
      BY <3>1
    <3>3. \A k \in 2 .. b.units : k - 1 \in 1 .. b.units - 1 /\ rest[k - 1] = Body
      BY <1>2
    <3> HIDE DEF rest
    <3>4. /\ (<<b>> \o rest)[1] = b
          /\ \A k \in 2 .. b.units : (<<b>> \o rest)[k] = rest[k - 1]
      BY <1>2, <3>1, <3>2, ConcatProperties
    <3> QED
      BY <1>2, <3>3, <3>4, RecordUnits DEF rest
  <2> HIDE DEF units
  <2>4. ASSUME NEW m \in 1 .. b.units
        PROVE  storage'[(end + m - 1) % Capacity].unit = units[m]
    BY <1>2, <2>1, <2>3, StoredAt
  <2>5. storage'[end % Capacity].unit = b
    BY <1>2, <2>1, <2>3, StoredFirst
  <2>6. \A m \in 1 .. b.units - 1 : storage'[(end + m) % Capacity].unit = Body
    <3> SUFFICES ASSUME NEW m \in 1 .. b.units - 1
                 PROVE  storage'[(end + m) % Capacity].unit = Body
      OBVIOUS
    <3>1. m + 1 \in 1 .. b.units /\ m + 1 \in 2 .. b.units /\ end + (m + 1) - 1 = end + m
      BY <1>2
    <3> QED
      BY <2>3, <2>4, <3>1
  <2>7. \A o \in begin' .. end - 1 : storage'[o % Capacity] = storage[o % Capacity]
    BY CellsKept
  <2>8. ASSUME NEW o \in begin' .. last - 1
        PROVE  WholeAt(o, storage', last)
    <3>1. o \in Nat
      BY <1>2
    <3>2. CASE o < end
      <4>1. o \in begin' .. end - 1 /\ o \in begin .. end - 1 /\ begin < end
        BY <1>2, <3>1, <3>2
      <4> DEFINE unit == storage[o % Capacity].unit
      <4>2. storage'[o % Capacity].unit = unit /\ WholeAt(o, storage, end)
        BY <1>1, <2>7, <4>1, WholeParts
      <4> SUFFICES ASSUME unit \in Block
                   PROVE  /\ o + unit.units <= last
                          /\ \A k \in 1 .. unit.units - 1 :
                               storage'[(o + k) % Capacity].unit = Body
                          /\ o + unit.units < last =>
                               storage'[(o + unit.units) % Capacity].unit \in Block
        BY <4>2 DEF WholeAt
      <4>3. /\ unit.units \in Nat /\ unit.units >= 1 /\ o + unit.units <= end
            /\ \A k \in 1 .. unit.units - 1 : storage[(o + k) % Capacity].unit = Body
            /\ o + unit.units < end => storage[(o + unit.units) % Capacity].unit \in Block
        BY <4>2, CapacityType DEF WholeAt, Block
      <4> HIDE DEF unit
      <4>4. \A k \in 1 .. unit.units - 1 : storage'[(o + k) % Capacity].unit = Body
        <5> SUFFICES ASSUME NEW k \in 1 .. unit.units - 1
                     PROVE  storage'[(o + k) % Capacity].unit = Body
          OBVIOUS
        <5>1. o + k \in begin' .. end - 1
          BY <1>2, <4>1, <4>3
        <5> QED
          BY <2>7, <4>3, <5>1
      <4>5. CASE o + unit.units = end
        BY <1>2, <2>5, <4>3, <4>4, <4>5
      <4>6. CASE o + unit.units < end
        <5>1. o + unit.units \in begin' .. end - 1
          BY <1>2, <4>1, <4>3, <4>6
        <5>2. storage'[(o + unit.units) % Capacity].unit \in Block
          BY <2>7, <4>3, <4>6, <5>1
        <5> QED
          BY <1>2, <3>1, <4>3, <4>4, <5>2
      <4> QED
        BY <1>2, <3>1, <4>3, <4>5, <4>6
    <3>3. CASE o = end
      BY <1>2, <2>5, <2>6, <3>3 DEF WholeAt
    <3>4. CASE o > end
      <4>1. o - end \in 1 .. b.units - 1 /\ end + (o - end) = o
        BY <1>2, <3>1, <3>4
      <4>2. storage'[o % Capacity].unit = Body
        BY <2>6, <4>1
      <4> QED
        BY <4>2, BodyIsNoBlock DEF WholeAt
    <3> QED
      BY <1>2, <3>1, <3>2, <3>3, <3>4
  <2> HIDE DEF last
  <2> QED
    BY <1>1, <2>1, <2>2, <2>8, WholeNext
<1> QED
  BY <1>3, <1>4

LEMMA WholeStep ==
  ASSUME RingInv, IndexInv, WholeRecords, [Next]_vars
  PROVE  WholeRecords'
<1>1. mode' = mode
  BY ModeStays
<1>2. /\ begin \in Nat /\ begin' \in Nat /\ end \in Nat /\ begin <= begin'
      /\ marks \in Seq(Mark) /\ Len(marks) \in Nat
  BY ForwardStep, IndexTypes
<1>3. CASE mode # "webm"
  BY <1>1, <1>3, WholeNext
<1>4. CASE mode = "webm"
  <2>0. op.at = "idle"
    BY <1>4 DEF RingInv, Placed
  <2>1. CASE \E b \in Blocks : AppendWebm(b)
    BY <2>1, WholeAppend
  <2>2. CASE Discontinuity
    <3>1. begin' = end /\ UNCHANGED <<storage, end>>
      BY <2>2 DEF Discontinuity
    <3> QED
      BY <1>1, <1>2, <3>1, WholeLater
  <2>3. ASSUME NEW pts, NEW gen, DiscardBefore(pts, gen)
        PROVE  WholeRecords'
    <3>1. UNCHANGED <<storage, end>>
      BY <2>3 DEF DiscardBefore
    <3>2. PICK n \in 1 .. Len(marks) :
            /\ marks' = After(marks, n)
            /\ begin' = Larger(begin, IF n = Len(marks) THEN end ELSE marks[n + 1].offset)
      BY <2>3 DEF DiscardBefore
    <3>3. CASE n = Len(marks)
      <4>1. ~(begin' < end)
        BY <1>2, <3>2, <3>3 DEF Larger
      <4> QED
        BY <1>1, <1>2, <3>1, <4>1, WholeLater
    <3>4. CASE n # Len(marks)
      <4>1. n < Len(marks) /\ n \in 0 .. Len(marks) /\ n + 1 \in 1 .. Len(marks)
        BY <1>2, <3>4
      <4>2. marks' # <<>> /\ marks'[1] = marks[n + 1]
        BY <1>2, <3>2, <4>1, FirstLeft
      <4>3. marks[n + 1].offset \in Nat /\ begin <= marks[n + 1].offset
        BY <1>2, <2>0, <4>1, MarkTypes DEF IndexInv, Retains
      <4>4. begin' = marks[n + 1].offset
        BY <1>2, <3>2, <3>4, <4>3 DEF Larger
      <4> QED
        BY <1>1, <1>2, <3>1, <4>2, <4>4, WholeLater
    <3> QED
      BY <3>3, <3>4
  <2>4. CASE UNCHANGED <<storage, begin, end, marks>>
    BY <1>1, <2>4, WholeParts, WholeNext
  <2>5. \/ \E b \in Blocks : AppendWebm(b)
        \/ Discontinuity
        \/ \E pts \in Targets, gen \in 0 .. generation : DiscardBefore(pts, gen)
        \/ UNCHANGED <<storage, begin, end, marks>>
    BY <1>4, <2>0 DEF Next, vars, AppendInput, WriteChunk, AppendEnds, IndexEnds, SkipUnit,
           IndexPacket, ScanSettings, Trim, SetVideoPid, Seek, ringVars, timeVars
  <2> QED
    BY <2>1, <2>2, <2>3, <2>4, <2>5
<1> QED
  BY <1>3, <1>4

(* "The first remaining record must be a whole keyframe": whatever the     *)
(* sizes of the records and the ring, a WebM history never starts or ends  *)
(* inside a record. *)
THEOREM RecordsAreWhole == Spec => []WholeRecords
<1>1. Init => WholeRecords
  BY DEF Init, WholeRecords
<1> QED
  BY <1>1, WholeStep, RingInvariant, IndexInvariant, PTL DEF Spec

--------------------------------------------------------------------------------
(* What the controls are offered: the range stays within the duration, since *)
(* a first mark that would be too old is trimmed before the mutex is free.   *)
InWindow ==
  op.at \in {"idle", "write"} /\ marks # <<>> => latest - marks[1].pts <= Duration

LEMMA FirstMark ==
  ASSUME NEW ms \in Seq(Mark), ms # <<>>
  PROVE  1 \in 1 .. Len(ms) /\ ms[1].pts \in Nat
<1>1. 1 \in 1 .. Len(ms)
  BY LenProperties, EmptySeq
<1> QED
  BY <1>1, MarkTypes

(* A mark that trim() keeps first is not too old. *)
LEMMA TrimmedInWindow ==
  ASSUME RingInv, NEW ms \in Seq(Mark), NEW n \in 0 .. Len(ms), NEW newest \in Nat,
         NEW start, Drops(ms, start, FirstTime(newest), n), After(ms, n) # <<>>
  PROVE  newest - After(ms, n)[1].pts <= Duration
<1>1. Len(ms) \in Nat /\ Len(After(ms, n)) = Len(ms) - n /\ After(ms, n) \in Seq(Mark)
  BY AfterMarks, LenProperties
<1>2. n < Len(ms)
  <2>1. Len(After(ms, n)) # 0
    BY <1>1, EmptySeq
  <2> QED
    BY <1>1, <2>1
<1>3. After(ms, n)[1] = ms[n + 1]
  BY <1>2, FirstLeft
<1>4. ms[n + 1].pts \in Nat
  <2>1. n + 1 \in 1 .. Len(ms)
    BY <1>1, <1>2
  <2> QED
    BY <2>1, MarkTypes
<1>5. ~(ms[n + 1].pts < FirstTime(newest))
  BY <1>2 DEF Drops, Stale
<1>6. Duration \in Nat
  BY RingAssumption
<1>7. FirstTime(newest) \in Int /\ FirstTime(newest) >= newest - Duration
  <2>1. parser.history \in History
    BY DEF RingInv, TypeOK, Parser
  <2>2. ReplayStart(parser.history) \in Nat
    BY <2>1, HistoryTypes DEF ReplayStart
  <2> QED
    BY <1>6, <2>2 DEF FirstTime, Larger
<1> QED
  BY <1>3, <1>4, <1>5, <1>6, <1>7

LEMMA WindowStep ==
  ASSUME RingInv, InWindow, [Next]_vars
  PROVE  InWindow'
<1>1. CASE marks' = <<>>
  BY <1>1 DEF InWindow
<1>2. CASE op'.at \notin {"idle", "write"}
  BY <1>2 DEF InWindow
<1>3. CASE UNCHANGED <<latest, marks>> /\ op.at \in {"idle", "write"}
  BY <1>3 DEF InWindow
<1>4. CASE Trim
  <2>1. latest' = latest
    BY <1>4 DEF Trim
  <2>2. PICK n \in 0 .. Len(marks) :
          Drops(marks, begin, FirstTime(latest), n) /\ marks' = After(marks, n)
    BY <1>4 DEF Trim
  <2> QED
    BY <2>1, <2>2, IndexTypes, TrimmedInWindow DEF InWindow
<1>5. ASSUME NEW b \in Blocks, AppendWebm(b), marks' # <<>>
      PROVE  InWindow'
  <2> DEFINE picture == [offset |-> end, pts |-> b.pts, random |-> TRUE]
  <2>1. PICK kept \in {<<>>, marks}, newest \in {0, latest} :
          LET marked == IF b.key THEN Append(kept, picture) ELSE kept
          IN  /\ latest' = Larger(newest, b.pts)
              /\ \E start : \E n \in 0 .. Len(marked) :
                   /\ Drops(marked, start, FirstTime(Larger(newest, b.pts)), n)
                   /\ marks' = After(marked, n)
    BY <1>5 DEF AppendWebm
  <2> DEFINE marked == IF b.key THEN Append(kept, picture) ELSE kept
             high == Larger(newest, b.pts)
  <2>2. b.pts \in Nat /\ high \in Nat
    BY InputAssumption, IndexTypes DEF Block, Larger
  <2>3. marked \in Seq(Mark)
    <3>1. kept \in Seq(Mark) /\ picture \in Mark
      BY <2>2, IndexTypes, EmptySeq DEF Mark
    <3> HIDE DEF picture
    <3> QED
      BY <3>1, AppendProperties
  <2>4. PICK start : \E n \in 0 .. Len(marked) :
          Drops(marked, start, FirstTime(high), n) /\ marks' = After(marked, n)
    BY <2>1
  <2>5. PICK n \in 0 .. Len(marked) :
          Drops(marked, start, FirstTime(high), n) /\ marks' = After(marked, n)
    BY <2>4
  <2>6. latest' = high
    BY <2>1
  <2> HIDE DEF marked, high
  <2> QED
    BY <1>5, <2>2, <2>3, <2>5, <2>6, TrimmedInWindow DEF InWindow
<1>6. ASSUME NEW pts \in Targets, NEW gen, DiscardBefore(pts, gen), marks' # <<>>
      PROVE  InWindow'
  <2>1. op.at = "idle" /\ latest' = latest
    BY <1>6 DEF DiscardBefore
  <2>2. PICK n \in 1 .. Len(marks) :
          /\ \A i \in 1 .. n : marks[i].pts < pts
          /\ n < Len(marks) => marks[n + 1].pts >= pts
          /\ marks' = After(marks, n)
    BY <1>6 DEF DiscardBefore
  <2>3. n \in 0 .. Len(marks) /\ n < Len(marks) /\ 1 \in 1 .. n
    <3>1. n \in 0 .. Len(marks) /\ Len(marks) \in Nat /\ 1 \in 1 .. n
      BY IndexTypes
    <3>2. Len(After(marks, n)) = Len(marks) - n /\ After(marks, n) \in Seq(Mark)
      BY <3>1, IndexTypes, AfterMarks
    <3>3. Len(After(marks, n)) # 0
      BY <1>6, <2>2, <3>2, EmptySeq
    <3> QED
      BY <3>1, <3>2, <3>3
  <2>4. marks'[1] = marks[n + 1]
    BY <2>2, <2>3, IndexTypes, FirstLeft
  <2>5. /\ 1 \in 1 .. Len(marks) /\ n + 1 \in 1 .. Len(marks)
    BY <2>3, IndexTypes
  <2> DEFINE first == marks[1].pts
             next == marks[n + 1].pts
  <2>6. first \in Nat /\ next \in Nat /\ pts \in Nat /\ first < pts /\ next >= pts
    BY <2>2, <2>3, <2>5, IndexTypes, MarkTypes, RingAssumption
  <2>7. marks # <<>>
    BY <2>5, EmptySeq
  <2>8. latest - first <= Duration
    BY <2>1, <2>7 DEF InWindow
  <2>9. latest - next <= Duration
    <3> HIDE DEF first, next
    <3>1. latest \in Nat /\ Duration \in Nat
      BY IndexTypes, RingAssumption
    <3> QED
      BY <2>6, <2>8, <3>1
  <2> QED
    BY <2>1, <2>4, <2>9 DEF InWindow
<1>7. \/ marks' = <<>> \/ op'.at \notin {"idle", "write"} \/ Trim
      \/ UNCHANGED <<latest, marks>> /\ op.at \in {"idle", "write"}
      \/ \E b \in Blocks : AppendWebm(b)
      \/ \E pts \in Targets, gen \in 0 .. generation : DiscardBefore(pts, gen)
      \/ UNCHANGED vars
  <2>1. CASE IndexEnds \/ SkipUnit \/ IndexPacket \/ ScanSettings \/ WriteChunk
    <3>1. CASE IndexEnds \/ SkipUnit
      BY <3>1 DEF IndexEnds, SkipUnit, RingInv, TypeOK
    <3>2. CASE IndexPacket
      BY <3>2 DEF IndexPacket, RingInv, TypeOK
    <3>3. CASE ScanSettings
      BY <3>3 DEF ScanSettings, RingInv, TypeOK
    <3>4. CASE WriteChunk
      BY <3>4 DEF WriteChunk, RingInv, TypeOK
    <3> QED
      BY <2>1, <3>1, <3>2, <3>3, <3>4
  <2>2. CASE \/ \E input \in Inputs : AppendInput(input)
             \/ AppendEnds \/ \E target \in Targets : Seek(target)
    BY <2>2 DEF AppendInput, AppendEnds, Seek, timeVars
  <2>3. CASE \E pid \in Pids : SetVideoPid(pid)
    BY <2>3 DEF SetVideoPid, timeVars
  <2>4. CASE Discontinuity
    BY <2>4 DEF Discontinuity
  <2> QED
    BY <2>1, <2>2, <2>3, <2>4 DEF Next
<1>8. CASE UNCHANGED vars
  BY <1>8 DEF vars, InWindow
<1> QED
  BY <1>1, <1>2, <1>3, <1>4, <1>5, <1>6, <1>7, <1>8

LEMMA ReplayFirstType ==
  ASSUME NEW h \in History, h.configs # <<>>
  PROVE  /\ h.configs[1] \in Nat /\ ReplayFirst(h) \in Nat
         /\ ReplayFirst(h) >= h.floor /\ ReplayFirst(h) >= h.configs[1]
<1>1. 1 \in 1 .. Len(h.configs) /\ h.configs \in Seq(Nat)
  BY HistoryTypes, LenProperties, EmptySeq
<1>2. h.configs[1] \in Nat
  BY <1>1, ElementOfSeq
<1> QED
  BY <1>2, HistoryTypes DEF ReplayFirst, Larger

LEMMA RangeInWindow ==
  ASSUME RingInv, InWindow, op.at = "idle"
  PROVE  WindowBounded
<1> SUFFICES ASSUME RangeTimed PROVE LastPts - FirstPts <= Duration
  BY DEF WindowBounded
<1>1. marks # <<>> /\ (mode = "replay" => ReplayReady(parser.history))
  BY DEF RangeTimed, Replayable
<1>2. marks[1].pts \in Nat /\ latest \in Nat /\ latest - marks[1].pts <= Duration
  BY <1>1, IndexTypes, FirstMark DEF InWindow
<1>3. parser.history \in History
  BY DEF RingInv, TypeOK, Parser
<1>4. parser.history.high \in Nat
  BY <1>3, HistoryTypes
<1>5. mode = "replay" => ReplayFirst(parser.history) \in Nat
  BY <1>1, <1>3, ReplayFirstType DEF ReplayReady
<1>6. LastPts \in Int /\ LastPts <= latest /\ FirstPts \in Int /\ FirstPts >= marks[1].pts
  BY <1>1, <1>2, <1>4, <1>5 DEF LastPts, FirstPts, Smaller, Larger
<1> QED
  BY <1>2, <1>6, RingAssumption

--------------------------------------------------------------------------------
(* What seek() finds can be used at once.  That there is a latest and an   *)
(* oldest of the marks it chooses from is well-foundedness of the naturals. *)
NatLess == {pair \in Nat \X Nat : pair[1] < pair[2]}

LEMMA Least ==
  ASSUME NEW S \in SUBSET Nat, S # {}
  PROVE  \E x \in S : \A y \in S : x <= y
<1>1. IsWellFoundedOn(NatLess, Nat)
  <2>1. OpToRel(<, Nat) = NatLess
    BY DEF OpToRel, NatLess
  <2> QED
    BY <2>1, NatLessThanWellFounded, Zenon
<1>2. PICK x \in S : \A y \in S : ~(<<y, x>> \in NatLess)
  BY <1>1, WFMin
<1>3. \A y \in S : x <= y
  <2> SUFFICES ASSUME NEW y \in S PROVE x <= y
    OBVIOUS
  <2>1. ~(y < x)
    BY <1>2 DEF NatLess
  <2> QED
    BY <2>1
<1> QED
  BY <1>3

LEMMA OldestExists ==
  ASSUME NEW S \in SUBSET Nat, S # {}
  PROVE  Oldest(S) # {}
BY Least DEF Oldest

LEMMA NewestExists ==
  ASSUME RingInv, Indexed, NEW S \in SUBSET (1 .. Len(marks)), S # {}
  PROVE  Newest(S) # {}
<1>1. /\ latest \in Nat /\ Len(marks) \in Nat
      /\ \A i \in S : i \in Nat /\ i <= Len(marks) /\ marks[i].pts \in Nat
                      /\ marks[i].pts <= latest
  BY IndexTypes, MarkTypes DEF Indexed, GoodMarks
<1> DEFINE behind == {latest - marks[i].pts : i \in S}
<1>2. PICK d \in behind : \A e \in behind : d <= e
  <2>1. behind \in SUBSET Nat /\ behind # {}
    BY <1>1
  <2> HIDE DEF behind
  <2> QED
    BY <2>1, Least
<1>3. PICK i \in S : d = latest - marks[i].pts
  BY <1>2
<1>4. \A j \in S : marks[j].pts <= marks[i].pts
  <2> SUFFICES ASSUME NEW j \in S PROVE marks[j].pts <= marks[i].pts
    OBVIOUS
  <2>1. d <= latest - marks[j].pts
    BY <1>2
  <2> QED
    BY <1>1, <1>3, <2>1
<1> HIDE DEF behind
<1> DEFINE tied == {j \in S : marks[j].pts = marks[i].pts}
           after == {Len(marks) - j : j \in tied}
<1>5. PICK f \in after : \A e \in after : f <= e
  <2>1. after \in SUBSET Nat /\ after # {}
    BY <1>1, <1>3
  <2> HIDE DEF after
  <2> QED
    BY <2>1, Least
<1>6. PICK k \in tied : f = Len(marks) - k
  BY <1>5
<1>7. \A j \in tied : j <= k
  <2> SUFFICES ASSUME NEW j \in tied PROVE j <= k
    OBVIOUS
  <2>1. f <= Len(marks) - j
    BY <1>5
  <2> QED
    BY <1>1, <1>6, <2>1
<1>8. \A j \in S : \/ marks[j].pts < marks[k].pts
                   \/ marks[j].pts = marks[k].pts /\ j <= k
  BY <1>1, <1>4, <1>6, <1>7
<1>9. k \in Newest(S)
  BY <1>6, <1>8 DEF Newest
<1> QED
  BY <1>9

LEMMA SeekAnswers ==
  ASSUME RingInv, Indexed, NEW wanted
  PROVE  SeekTo(wanted) # {}
<1> DEFINE target   == Larger(FirstPts, Smaller(wanted, LastPts))
           led      == IF target > Lead THEN target - Lead ELSE 0
           early    == {i \in Eligible : /\ \A o \in Oldest(Eligible) : marks[o].pts <= marks[i].pts
                                         /\ marks[i].pts <= led}
           fallback == IF early = {} THEN Oldest(Eligible) ELSE Newest(early)
           random   == {i \in Newest({i \in Eligible : marks[i].random /\ marks[i].pts <= target}) :
                          mode = "webm" \/ target - marks[i].pts <= RandomReach}
           chosen   == IF random # {} THEN random ELSE fallback
<1>1. SeekTo(wanted) = IF ~RangeTimed \/ Eligible = {} THEN {NoPosition}
                       ELSE {PositionOf(i) : i \in chosen}
  BY DEF SeekTo
<1>2. Eligible \in SUBSET (1 .. Len(marks)) /\ Eligible \in SUBSET Nat
  <2>1. DOMAIN marks = 1 .. Len(marks)
    BY IndexTypes, LenProperties
  <2> QED
    BY <2>1, IndexTypes DEF Eligible
<1>3. early \in SUBSET (1 .. Len(marks))
  BY <1>2
<1> HIDE DEF early, random
<1>4. Eligible # {} => chosen # {}
  BY <1>2, <1>3, OldestExists, NewestExists
<1> HIDE DEF chosen
<1> QED
  BY <1>1, <1>4

LEMMA EligibleIsAccepted ==
  ASSUME RingInv, IndexInv, op.at = "idle", mode = "replay", RangeTimed, NEW i \in Eligible
  PROVE  CanReposition(PositionOf(i))
<1>1. i \in 1 .. Len(marks)
  <2>1. DOMAIN marks = 1 .. Len(marks)
    BY IndexTypes, LenProperties
  <2> QED
    BY <2>1 DEF Eligible
<1>2. /\ marks[i].offset \in Nat /\ marks[i].pts \in Nat
      /\ begin <= marks[i].offset /\ marks[i].offset < end
  BY <1>1, IndexTypes, MarkTypes DEF IndexInv, Retains, RingInv, MarksBehind
<1>3. /\ PositionOf(i).offset = marks[i].offset /\ PositionOf(i).pts = marks[i].pts
      /\ PositionOf(i).generation = generation
  BY DEF PositionOf
<1>4. Retained(PositionOf(i))
  <2>1. PositionOf(i) # NoPosition
    BY <1>2, <1>3 DEF NoPosition, NoPts
  <2> QED
    BY <1>2, <1>3, <2>1 DEF Retained
<1>5. FirstPts <= marks[i].pts /\ marks[i].pts <= LastPts
  BY DEF Eligible
<1>6. parser.ok /\ ReplayReady(parser.history) /\ marks # <<>>
  BY DEF RangeTimed, Replayable
<1>7. parser.history \in History /\ latest \in Nat /\ marks[1].pts \in Nat
  BY <1>6, IndexTypes, FirstMark DEF RingInv, TypeOK, Parser
<1>8. /\ parser.history.floor \in Nat /\ parser.history.high \in Nat
      /\ parser.history.configs # <<>> /\ parser.history.configs[1] \in Nat
      /\ ReplayFirst(parser.history) \in Nat
      /\ ReplayFirst(parser.history) >= parser.history.floor
      /\ ReplayFirst(parser.history) >= parser.history.configs[1]
  BY <1>6, <1>7, HistoryTypes, ReplayFirstType DEF ReplayReady
<1>9. /\ FirstPts \in Nat /\ FirstPts >= ReplayFirst(parser.history)
      /\ LastPts \in Nat /\ LastPts <= parser.history.high
  BY <1>6, <1>7, <1>8 DEF FirstPts, LastPts, Larger, Smaller
<1>10. Accepts(parser.history, marks[i].pts)
  BY <1>2, <1>5, <1>8, <1>9 DEF Accepts
<1> QED
  BY <1>3, <1>4, <1>5, <1>6, <1>10 DEF CanReposition

LEMMA SeekIsAccepted ==
  ASSUME RingInv, IndexInv, op.at = "idle"
  PROVE  SeekLands
<1> SUFFICES ASSUME mode = "replay", NEW t \in Targets
             PROVE  /\ SeekTo(t) # {}
                    /\ \A found \in SeekTo(t) \ {NoPosition} : CanReposition(found)
                    /\ \A found \in SeekNext(t) : CanReposition(found)
  BY DEF SeekLands
<1>1. SeekTo(t) # {}
  BY SeekAnswers DEF IndexInv
<1>2. \A found \in SeekTo(t) \ {NoPosition} : CanReposition(found)
  BY SeekToEligible, EligibleIsAccepted
<1>3. \A found \in SeekNext(t) : CanReposition(found)
  <2> SUFFICES ASSUME RangeTimed,
                      NEW i \in Oldest({i \in Eligible : marks[i].pts >= t})
               PROVE  CanReposition(PositionOf(i))
    BY DEF SeekNext
  <2>1. i \in Eligible
    BY DEF Oldest
  <2> QED
    BY <2>1, EligibleIsAccepted
<1> QED
  BY <1>1, <1>2, <1>3

(* The range the controls show never spans more than the duration, a seek  *)
(* always has an answer, and what it answers is accepted at once by        *)
(* reposition() and by the decoder's settings history.                     *)
THEOREM SeekCanBeUsed == Spec => []SeekIsUsable
<1>1. Init => InWindow
  BY DEF Init, InWindow
<1>2. RingInv /\ InWindow /\ [Next]_vars => InWindow'
  BY WindowStep
<1>3. RingInv /\ IndexInv /\ InWindow => SeekIsUsable
  BY RangeInWindow, SeekIsAccepted DEF SeekIsUsable
<1> QED
  BY <1>1, <1>2, <1>3, RingInvariant, IndexInvariant, PTL DEF Spec

--------------------------------------------------------------------------------
(***************************************************************************)
(* The ring and its index are the history LiveHistory promises.  What the  *)
(* window covers keeps its contents (CellsKept) and moves forward only     *)
(* (ForwardStep); the marks rise along the index, so that what a step      *)
(* leaves out at the front or hides behind the start is older than what it *)
(* keeps, and what it adds is newer.                                       *)
(***************************************************************************)
Ascending(ms) == \A i, j \in 1 .. Len(ms) : i < j => ms[i].offset < ms[j].offset

LEMMA MarksAscend ==
  ASSUME RingInv, IndexInv
  PROVE  /\ marks \in Seq(Mark) /\ Len(marks) \in Nat /\ Ascending(marks)
         /\ \A i \in 1 .. Len(marks) : marks[i].offset \in Nat /\ marks[i].offset < end
<1>1. marks \in Seq(Mark) /\ Len(marks) \in Nat
  BY IndexTypes
<1> QED
  BY <1>1, MarkTypes DEF IndexInv, Indexed, GoodMarks, Ascending, RingInv, MarksBehind

LEMMA OfferedOffsets ==
  ASSUME marks \in Seq(Mark), NEW o
  PROVE  o \in Offered <=>
           \E i \in 1 .. Len(marks) : o = marks[i].offset /\ begin <= marks[i].offset
<1>1. DOMAIN marks = 1 .. Len(marks)
  BY LenProperties
<1> QED
  BY <1>1 DEF Offered

LEMMA AscendingOneMore ==
  ASSUME NEW ms \in Seq(Mark), Ascending(ms), NEW m \in Mark,
         \A i \in 1 .. Len(ms) : ms[i].offset < m.offset
  PROVE  /\ Append(ms, m) \in Seq(Mark) /\ Ascending(Append(ms, m))
         /\ Len(Append(ms, m)) = Len(ms) + 1
         /\ \A i \in 1 .. Len(ms) : Append(ms, m)[i] = ms[i]
<1>1. /\ Append(ms, m) \in Seq(Mark) /\ Len(Append(ms, m)) = Len(ms) + 1
      /\ \A i \in 1 .. Len(ms) : Append(ms, m)[i] = ms[i]
      /\ Append(ms, m)[Len(ms) + 1] = m /\ Len(ms) \in Nat
  BY AppendProperties, LenProperties
<1>2. ASSUME NEW i \in 1 .. Len(ms) + 1, NEW j \in 1 .. Len(ms) + 1, i < j
      PROVE  Append(ms, m)[i].offset < Append(ms, m)[j].offset
  <2>1. i \in 1 .. Len(ms)
    BY <1>1, <1>2
  <2>2. CASE j \in 1 .. Len(ms)
    BY <1>1, <1>2, <2>1, <2>2 DEF Ascending
  <2>3. CASE j = Len(ms) + 1
    BY <1>1, <2>1, <2>3
  <2> QED
    BY <1>1, <2>2, <2>3
<1> QED
  BY <1>1, <1>2 DEF Ascending

(* A step that drops from the front and adds at the back, and may move the  *)
(* start. *)
LEMMA OrderKept ==
  ASSUME RingInv, IndexInv, marks' \in Seq(Mark), begin \in Nat, begin' \in Nat,
         begin <= begin',
         NEW all \in Seq(Mark), Ascending(all), Len(marks) <= Len(all),
         \A i \in 1 .. Len(marks) : all[i] = marks[i],
         NEW n \in 0 .. Len(all), Len(marks') = Len(all) - n,
         \A i \in 1 .. Len(marks') : marks'[i] = all[i + n]
  PROVE  /\ \A m \in Offered \ Offered', k \in Offered \cap Offered' : m < k
         /\ \A m \in Offered, k \in Offered' \ Offered : m < k
<1>1. /\ marks \in Seq(Mark) /\ Len(marks) \in Nat /\ Len(all) \in Nat /\ Len(marks') \in Nat
      /\ \A i \in 1 .. Len(all) : all[i].offset \in Nat
  BY MarksAscend, LenProperties, MarkTypes
(* An old picture stands at its place, and a new one behind the dropped. *)
<1>2. ASSUME NEW m \in Offered
      PROVE  \E i \in 1 .. Len(marks) :
               /\ i \in 1 .. Len(all) /\ m = all[i].offset /\ begin <= m
               /\ i > n /\ begin' <= m => m \in Offered'
  <2>1. PICK i \in 1 .. Len(marks) : m = marks[i].offset /\ begin <= marks[i].offset
    BY <1>1, <1>2, OfferedOffsets
  <2>2. i \in 1 .. Len(all) /\ m = all[i].offset
    BY <1>1, <2>1
  <2>3. ASSUME i > n, begin' <= m
        PROVE  m \in Offered'
    <3>1. i - n \in 1 .. Len(marks') /\ (i - n) + n = i
      BY <1>1, <2>2, <2>3
    <3>2. marks'[i - n] = all[i]
      BY <3>1
    <3>3. DOMAIN marks' = 1 .. Len(marks')
      BY LenProperties
    <3> QED
      BY <2>2, <2>3, <3>1, <3>2, <3>3 DEF Offered
  <2> QED
    BY <2>1, <2>2, <2>3
<1>3. ASSUME NEW k \in Offered'
      PROVE  \E j \in 1 .. Len(all) :
               /\ j > n /\ k = all[j].offset /\ begin' <= k
               /\ j <= Len(marks) => k \in Offered
  <2>1. DOMAIN marks' = 1 .. Len(marks')
    BY LenProperties
  <2>2. PICK i \in 1 .. Len(marks') : k = marks'[i].offset /\ begin' <= marks'[i].offset
    BY <1>3, <2>1 DEF Offered
  <2>3. i + n \in 1 .. Len(all) /\ i + n > n /\ k = all[i + n].offset
    BY <1>1, <2>2
  <2>4. ASSUME i + n <= Len(marks)
        PROVE  k \in Offered
    <3>1. i + n \in 1 .. Len(marks) /\ k = marks[i + n].offset
      BY <1>1, <2>3, <2>4
    <3>2. begin <= k
      BY <1>1, <2>2, <2>3
    <3> QED
      BY <1>1, <3>1, <3>2, OfferedOffsets
  <2> QED
    BY <2>2, <2>3, <2>4
<1>4. ASSUME NEW m \in Offered \ Offered', NEW k \in Offered \cap Offered'
      PROVE  m < k
  <2>1. PICK i \in 1 .. Len(marks) :
          /\ i \in 1 .. Len(all) /\ m = all[i].offset
          /\ i > n /\ begin' <= m => m \in Offered'
    BY <1>2
  <2>2. PICK j \in 1 .. Len(all) : j > n /\ k = all[j].offset /\ begin' <= k
    BY <1>3
  <2>3. CASE i > n
    BY <1>1, <2>1, <2>2, <2>3
  <2>4. CASE ~(i > n)
    BY <2>1, <2>2, <2>4 DEF Ascending
  <2> QED
    BY <2>3, <2>4
<1>5. ASSUME NEW m \in Offered, NEW k \in Offered' \ Offered
      PROVE  m < k
  <2>1. PICK i \in 1 .. Len(marks) : i \in 1 .. Len(all) /\ m = all[i].offset
    BY <1>2
  <2>2. PICK j \in 1 .. Len(all) :
          k = all[j].offset /\ (j <= Len(marks) => k \in Offered)
    BY <1>3
  <2>3. i < j
    BY <1>1, <1>5, <2>1, <2>2
  <2> QED
    BY <2>1, <2>2, <2>3 DEF Ascending
<1> QED
  BY <1>4, <1>5

LEMMA SlideStep ==
  ASSUME RingInv, [Next]_vars
  PROVE  Promised!Slide
<1>1. RingInv' /\ begin \in Nat /\ end \in Nat
  BY NextInv DEF RingInv, TypeOK
<1>2. /\ begin' \in Nat /\ end' \in Nat /\ begin <= begin' /\ end <= end'
      /\ begin' <= end' /\ end' - begin' <= Capacity
  BY <1>1, ForwardStep DEF RingInv, Placed
<1>3. /\ DOMAIN Contents = begin .. end - 1 /\ DOMAIN Contents' = begin' .. end' - 1
      /\ \A o \in begin .. end - 1 : Contents[o] = storage[o % Capacity].unit
      /\ \A o \in begin' .. end' - 1 : Contents'[o] = storage'[o % Capacity].unit
  BY DEF Contents
<1>4. ASSUME NEW o \in DOMAIN Contents \cap DOMAIN Contents'
      PROVE  Contents'[o] = Contents[o]
  <2>1. o \in begin .. end - 1 /\ o \in begin' .. end' - 1 /\ o \in begin' .. end - 1
    BY <1>1, <1>2, <1>3
  <2> QED
    BY <1>3, <2>1, CellsKept
<1>5. Offered' \subseteq begin' .. end' - 1
  <2> SUFFICES ASSUME NEW i \in DOMAIN marks', begin' <= marks'[i].offset
               PROVE  marks'[i].offset \in begin' .. end' - 1
    BY DEF Offered
  <2>1. marks' \in Seq(Mark)
    BY <1>1 DEF RingInv, TypeOK
  <2>2. i \in 1 .. Len(marks')
    BY <2>1, LenProperties
  <2>3. marks'[i].offset \in Nat /\ marks'[i].offset < end'
    BY <1>1, <2>1, <2>2, MarkTypes DEF RingInv, MarksBehind
  <2> QED
    BY <1>2, <2>3
<1> QED
  BY <1>2, <1>3, <1>4, <1>5 DEF Promised!Slide

(* The three ways the index changes within a timeline, and a new one.      *)
LEMMA SameMarksGoOn ==
  ASSUME RingInv, IndexInv, [Next]_vars, generation' = generation, marks' = marks
  PROVE  Promised!GoOn
<1>1. marks \in Seq(Mark) /\ Len(marks) \in Nat /\ Ascending(marks) /\ begin \in Nat
  BY MarksAscend DEF RingInv, TypeOK
<1>2. 0 \in 0 .. Len(marks) /\ \A i \in 1 .. Len(marks) : marks[i] = marks[i + 0]
  BY <1>1
<1>3. /\ \A m \in Offered \ Offered', k \in Offered \cap Offered' : m < k
      /\ \A m \in Offered, k \in Offered' \ Offered : m < k
  BY <1>1, <1>2, ForwardStep, OrderKept
<1> QED
  BY <1>3, SlideStep DEF Promised!GoOn

LEMMA AddedMarkGoesOn ==
  ASSUME RingInv, IndexInv, [Next]_vars, generation' = generation,
         NEW m \in Mark, marks' = Append(marks, m),
         \A i \in 1 .. Len(marks) : marks[i].offset < m.offset
  PROVE  Promised!GoOn
<1> DEFINE all == Append(marks, m)
<1>1. marks \in Seq(Mark) /\ Len(marks) \in Nat /\ Ascending(marks) /\ begin \in Nat
  BY MarksAscend DEF RingInv, TypeOK
<1>2. /\ all \in Seq(Mark) /\ Ascending(all) /\ Len(all) = Len(marks) + 1
      /\ \A i \in 1 .. Len(marks) : all[i] = marks[i]
  BY <1>1, AscendingOneMore
<1>3. marks' = all
  OBVIOUS
<1> HIDE DEF all
<1>4. /\ 0 \in 0 .. Len(all) /\ Len(marks') = Len(all) - 0 /\ Len(marks) <= Len(all)
      /\ \A i \in 1 .. Len(marks') : marks'[i] = all[i + 0]
  BY <1>1, <1>2, <1>3
<1>5. /\ \A o \in Offered \ Offered', k \in Offered \cap Offered' : o < k
      /\ \A o \in Offered, k \in Offered' \ Offered : o < k
  BY <1>1, <1>2, <1>3, <1>4, ForwardStep, OrderKept
<1> QED
  BY <1>5, SlideStep DEF Promised!GoOn

LEMMA DroppedMarksGoOn ==
  ASSUME RingInv, IndexInv, [Next]_vars, generation' = generation,
         NEW all \in Seq(Mark), Ascending(all), Len(marks) <= Len(all),
         \A i \in 1 .. Len(marks) : all[i] = marks[i],
         NEW n \in 0 .. Len(all), marks' = After(all, n)
  PROVE  Promised!GoOn
<1>1. begin \in Nat
  BY DEF RingInv, TypeOK
<1>2. /\ marks' \in Seq(Mark) /\ Len(marks') = Len(all) - n
      /\ \A i \in 1 .. Len(marks') : marks'[i] = all[i + n]
  BY AfterMarks
<1>3. /\ \A o \in Offered \ Offered', k \in Offered \cap Offered' : o < k
      /\ \A o \in Offered, k \in Offered' \ Offered : o < k
  BY <1>1, <1>2, ForwardStep, OrderKept
<1> QED
  BY <1>3, SlideStep DEF Promised!GoOn

LEMMA NoMarksOffered ==
  ASSUME marks' = <<>>
  PROVE  Offered' = {}
<1>1. DOMAIN marks' = {}
  OBVIOUS
<1> QED
  BY <1>1 DEF Offered

LEMMA NoMarksGoOn ==
  ASSUME RingInv, IndexInv, [Next]_vars, marks' = <<>>
  PROVE  /\ generation' = generation => Promised!GoOn
         /\ generation' = generation + 1 => Promised!NewTimeline
BY NoMarksOffered, SlideStep DEF Promised!GoOn, Promised!NewTimeline

LEMMA LaterMarksAnew ==
  ASSUME RingInv, IndexInv, [Next]_vars, generation' = generation + 1, marks' \in Seq(Mark),
         NEW from, \A i \in 1 .. Len(marks) : marks[i].offset < from,
         \A i \in 1 .. Len(marks') : marks'[i].offset = from,
         from \in Nat
  PROVE  Promised!NewTimeline
<1>1. \A o \in Offered : o < from
  BY MarksAscend, OfferedOffsets
<1>2. \A o \in Offered' : o = from
  <2>1. DOMAIN marks' = 1 .. Len(marks')
    BY LenProperties
  <2> QED
    BY <2>1 DEF Offered
<1>3. Offered \cap Offered' = {}
  BY <1>1, <1>2
<1> QED
  BY <1>3, SlideStep DEF Promised!NewTimeline

(* Which of them each operation is.                                        *)
AsPromised == Promised!GoOn \/ Promised!NewTimeline

LEMMA PictureGoesOn ==
  ASSUME RingInv, IndexInv, [Next]_vars, IndexPacket
  PROVE  AsPromised
<1>1. op.at = "index" /\ mode # "webm" /\ scan < end
  BY DEF IndexPacket, RingInv, TypeOK, Placed
<1>2. CASE UNCHANGED <<generation, marks>>
  BY <1>2, SameMarksGoOn DEF AsPromised
<1>3. CASE Timed(AtScan) /\ MarkPicture(AtScan)
  <2> DEFINE ticks == TicksOf(AtScan.ticks)
             jump == ClockJumps(AtScan.ticks)
             kept == IF jump THEN <<>> ELSE marks
             picture == [offset |-> scan, pts |-> Us(ticks), random |-> AtScan.random]
  <2>1. /\ generation' = IF jump THEN generation + 1 ELSE generation
        /\ ticks < 0 => marks' = kept
        /\ ~(ticks < 0) => marks' = Append(kept, picture)
    BY <1>3 DEF MarkPicture
  <2>2. ticks \in Int /\ AtScan.random \in BOOLEAN
    <3>1. AtScan \in Packet
      BY <1>1, IndexerFacts
    <3>2. AtScan.ticks \in Nat /\ AtScan.random \in BOOLEAN
      BY <3>1, PictureTicks, <1>1 DEF IndexInv, Packet
    <3> QED
      BY <3>2, IndexTypes, TicksType
  <2>3. ~(ticks < 0) => picture \in Mark /\ picture.offset = scan
    <3>1. ~(ticks < 0) => Us(ticks) \in Nat
      BY <2>2, UsType
    <3> QED
      BY <2>2, <3>1, IndexTypes DEF Mark
  <2>4. \A i \in 1 .. Len(marks) : marks[i].offset < scan
    BY <1>1 DEF RingInv, MarksBehind
  <2> HIDE DEF ticks, jump, picture
  <2>5. CASE ~jump
    <3>1. CASE ticks < 0
      BY <2>1, <2>5, <3>1, SameMarksGoOn DEF AsPromised
    <3>2. CASE ~(ticks < 0)
      BY <2>1, <2>3, <2>4, <2>5, <3>2, AddedMarkGoesOn DEF AsPromised
    <3> QED
      BY <3>1, <3>2
  <2>6. CASE jump
    <3>1. CASE ticks < 0
      BY <2>1, <2>6, <3>1, NoMarksGoOn DEF AsPromised
    <3>2. CASE ~(ticks < 0)
      <4>1. marks' = Append(<<>>, picture) /\ generation' = generation + 1
        BY <2>1, <2>6, <3>2
      <4>2. /\ Append(<<>>, picture) \in Seq(Mark) /\ Len(Append(<<>>, picture)) = 1
            /\ Append(<<>>, picture)[1] = picture
        BY <2>3, <3>2
      <4>3. marks' \in Seq(Mark) /\ \A i \in 1 .. Len(marks') : marks'[i].offset = scan
        BY <2>3, <3>2, <4>1, <4>2
      <4> QED
        BY <2>4, <4>1, <4>3, IndexTypes, LaterMarksAnew DEF AsPromised
    <3> QED
      BY <3>1, <3>2
  <2> QED
    BY <2>5, <2>6
<1> QED
  BY <1>2, <1>3 DEF IndexPacket

LEMMA SettingsGoOn ==
  ASSUME RingInv, IndexInv, [Next]_vars, ScanSettings
  PROVE  AsPromised
<1>1. \/ marks' = marks /\ generation' = generation
      \/ marks' = <<>> /\ generation' = generation + 1
  BY DEF ScanSettings
<1> QED
  BY <1>1, SameMarksGoOn, NoMarksGoOn DEF AsPromised

LEMMA DropsGoOn ==
  ASSUME RingInv, IndexInv, [Next]_vars,
         Trim \/ \E pts \in Targets, gen \in 0 .. generation : DiscardBefore(pts, gen)
  PROVE  AsPromised
<1>1. marks \in Seq(Mark) /\ Len(marks) \in Nat /\ Ascending(marks)
  BY MarksAscend
<1>2. PICK n \in 0 .. Len(marks) : marks' = After(marks, n) /\ generation' = generation
  <2>1. CASE Trim
    BY <2>1 DEF Trim
  <2>2. ASSUME NEW pts \in Targets, NEW gen \in 0 .. generation, DiscardBefore(pts, gen)
        PROVE  \E n \in 0 .. Len(marks) : marks' = After(marks, n) /\ generation' = generation
    BY <1>1, <2>2 DEF DiscardBefore
  <2> QED
    BY <2>1, <2>2
<1> QED
  BY <1>1, <1>2, DroppedMarksGoOn DEF AsPromised

LEMMA RecordGoesOn ==
  ASSUME RingInv, IndexInv, [Next]_vars, NEW b \in Blocks, AppendWebm(b)
  PROVE  AsPromised
<1> DEFINE reset == \/ webmVideo # 0 /\ b.video # webmVideo
                    \/ clock.have /\ \/ b.pts < latest /\ latest - b.pts > WebmBackJump
                                     \/ b.pts > latest /\ b.pts - latest > WebmForwardJump
           kept   == IF reset THEN <<>> ELSE marks
           picture == [offset |-> end, pts |-> b.pts, random |-> TRUE]
           marked == IF b.key THEN Append(kept, picture) ELSE kept
<1>1. /\ generation' = IF reset THEN generation + 1 ELSE generation
      /\ IF kept = <<>> /\ ~b.key THEN marks' = kept
         ELSE \E n \in 0 .. Len(marked) : marks' = After(marked, n)
  BY DEF AppendWebm
<1>2. /\ marks \in Seq(Mark) /\ Len(marks) \in Nat /\ Ascending(marks) /\ end \in Nat
      /\ \A i \in 1 .. Len(marks) : marks[i].offset < end
  BY MarksAscend, IndexTypes
<1>3. picture \in Mark /\ picture.offset = end
  <2>1. b.pts \in Nat
    BY InputAssumption DEF Block
  <2> QED
    BY <1>2, <2>1 DEF Mark
<1> HIDE DEF reset, picture
<1>4. CASE kept = <<>> /\ ~b.key
  BY <1>1, <1>4, NoMarksGoOn DEF AsPromised
<1>5. CASE ~(kept = <<>> /\ ~b.key) /\ ~reset
  <2>1. PICK n \in 0 .. Len(marked) : marks' = After(marked, n)
    BY <1>1, <1>5
  <2>2. /\ marked \in Seq(Mark) /\ Ascending(marked) /\ Len(marks) <= Len(marked)
        /\ \A i \in 1 .. Len(marks) : marked[i] = marks[i]
    <3>1. CASE ~b.key
      BY <1>2, <1>5, <3>1
    <3>2. CASE b.key
      BY <1>2, <1>3, <1>5, <3>2, AscendingOneMore
    <3> QED
      BY <3>1, <3>2
  <2>3. generation' = generation
    BY <1>1, <1>5
  <2> HIDE DEF marked
  <2> QED
    BY <2>1, <2>2, <2>3, DroppedMarksGoOn DEF AsPromised
<1>6. CASE ~(kept = <<>> /\ ~b.key) /\ reset
  <2>1. marked = Append(<<>>, picture) /\ generation' = generation + 1
    BY <1>1, <1>6
  <2>2. /\ Append(<<>>, picture) \in Seq(Mark) /\ Len(Append(<<>>, picture)) = 1
        /\ Append(<<>>, picture)[1] = picture
    BY <1>3
  <2>3. PICK n \in 0 .. Len(marked) : marks' = After(marked, n)
    BY <1>1, <1>6
  <2> HIDE DEF marked
  <2>4. marked \in Seq(Mark) /\ \A i \in 1 .. Len(marked) : marked[i] = picture
    BY <2>1, <2>2
  <2>5. /\ marks' \in Seq(Mark) /\ Len(marks') = Len(marked) - n /\ Len(marked) \in Nat
        /\ \A i \in 1 .. Len(marks') : marks'[i] = marked[i + n]
    BY <2>3, <2>4, AfterMarks, LenProperties
  <2>6. \A i \in 1 .. Len(marks') : marks'[i].offset = end
    <3>1. \A i \in 1 .. Len(marks') : i + n \in 1 .. Len(marked)
      BY <2>5
    <3> QED
      BY <1>3, <2>4, <2>5, <3>1
  <2> QED
    BY <1>2, <2>1, <2>5, <2>6, LaterMarksAnew DEF AsPromised
<1> QED
  BY <1>4, <1>5, <1>6

LEMMA PidGoesOn ==
  ASSUME RingInv, IndexInv, [Next]_vars, NEW pid \in Pids, SetVideoPid(pid)
  PROVE  AsPromised
<1>1. \/ marks' = marks /\ generation' = generation
      \/ marks' = <<>> /\ generation' \in {generation, generation + 1}
  BY DEF SetVideoPid, timeVars
<1> QED
  BY <1>1, SameMarksGoOn, NoMarksGoOn DEF AsPromised

LEMMA HistoryStep ==
  RingInv /\ IndexInv /\ [Next]_vars => AsPromised
<1> SUFFICES ASSUME RingInv, IndexInv, [Next]_vars
             PROVE  AsPromised
  OBVIOUS
<1>1. CASE marks' = marks /\ generation' = generation
  BY <1>1, SameMarksGoOn DEF AsPromised
<1>2. CASE WriteChunk \/ AppendEnds \/ IndexEnds \/ SkipUnit
  BY <1>1, <1>2 DEF WriteChunk, AppendEnds, IndexEnds, SkipUnit, timeVars
<1>3. CASE \/ \E input \in Inputs : AppendInput(input)
           \/ \E target \in Targets : Seek(target)
           \/ UNCHANGED vars
  BY <1>1, <1>3 DEF AppendInput, Seek, vars, timeVars
<1>4. CASE IndexPacket
  BY <1>4, PictureGoesOn
<1>5. CASE ScanSettings
  BY <1>5, SettingsGoOn
<1>6. CASE Trim \/ \E pts \in Targets, gen \in 0 .. generation : DiscardBefore(pts, gen)
  BY <1>6, DropsGoOn
<1>7. CASE \E b \in Blocks : AppendWebm(b)
  BY <1>7, RecordGoesOn
<1>8. CASE \E pid \in Pids : SetVideoPid(pid)
  BY <1>8, PidGoesOn
<1>9. CASE Discontinuity
  BY <1>9, NoMarksGoOn DEF Discontinuity, AsPromised
<1> QED
  BY <1>2, <1>3, <1>4, <1>5, <1>6, <1>7, <1>8, <1>9 DEF Next

LEMMA HistoryStarts == Init => Promised!Init
<1> SUFFICES ASSUME Init PROVE Promised!Init
  OBVIOUS
<1>1. DOMAIN marks = {} /\ begin = 0 /\ end = 0 /\ generation = 0
  BY DEF Init
<1> QED
  BY <1>1 DEF Promised!Init, Offered, Contents

(* The ring keeps what its readers were promised: whoever holds an offset  *)
(* finds what was there or is refused, however many downloads, trims,      *)
(* discards and breaks have passed, and the pictures on offer leave oldest *)
(* first. *)
THEOREM HistoryImplemented == Spec => ImplementsHistory
<1>1. RingInv /\ IndexInv /\ [Next]_vars => [Promised!Next]_(Promised!vars)
  BY HistoryStep DEF AsPromised, Promised!Next
<1> QED
  BY <1>1, HistoryStarts, RingInvariant, IndexInvariant, PTL
     DEF Spec, ImplementsHistory, Promised!Spec
================================================================================
