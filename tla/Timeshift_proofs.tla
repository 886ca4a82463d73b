---------------------------- MODULE Timeshift_proofs ----------------------------
(***************************************************************************)
(* The ring never offers an overwritten offset, and retention only moves   *)
(* forward: proofs for every capacity, input and interleaving.             *)
(***************************************************************************)
EXTENDS Timeshift, SequenceTheorems, FiniteSetTheorems, TLAPS

(***************************************************************************)
(* The inductive invariant.  RingIntact alone is not inductive: a clock    *)
(* that jumps moves the start of the ring to the packet being indexed, and *)
(* trim() moves it to a mark, so the invariant has to place the scan and   *)
(* the marks.  Between calls the scan may lag behind the start (after      *)
(* discard_before); while the indexer runs it may not.                     *)
(***************************************************************************)
Placed ==
  /\ begin <= end /\ end - begin <= Capacity
  /\ scan <= end
  /\ op.at \in {"index", "replay", "trim"} => begin <= scan
  /\ op.at \in {"replay", "trim"} => scan < end
  /\ mode = "webm" => op.at = "idle"

Intact == \A o \in begin .. end - 1 : storage[o % Capacity].at = o

\* Only a WebM history stores anything but transport packets.
PacketsOnly ==
  mode # "webm" => \A s \in Slots : storage[s].unit \in Packet

MarksBehind ==
  \A i \in 1 .. Len(marks) :
    /\ marks[i].offset < end
    /\ mode # "webm" => IF op.at \in {"replay", "trim"} THEN marks[i].offset <= scan
                        ELSE marks[i].offset < scan

RingInv == TypeOK /\ Placed /\ Intact /\ PacketsOnly /\ MarksBehind

--------------------------------------------------------------------------------
(* Two offsets that share a slot are at least a lap apart. *)
LEMMA LapApart ==
  ASSUME NEW C \in Nat \ {0}, NEW a \in Nat, NEW b \in Nat, a < b, a % C = b % C
  PROVE  b - a >= C
<1> DEFINE laps == (b \div C) - (a \div C)
<1>1. a = (C * (a \div C)) + (a % C) /\ b = (C * (b \div C)) + (b % C)
  OBVIOUS
<1>2. laps \in Int
  OBVIOUS
<1>3. b - a = C * laps
  BY <1>1
<1> HIDE DEF laps
<1>4. laps >= 1
  <2>1. CASE laps <= 0
    <3>1. C * laps <= 0
      BY <1>2, <2>1
    <3> QED
      BY <3>1, <1>3
  <2> QED
    BY <2>1, <1>2
<1>5. C * laps >= C
  BY <1>2, <1>4
<1> QED
  BY <1>3, <1>5

LEMMA CapacityType == Capacity \in Nat /\ Capacity # 0
BY RingAssumption

LEMMA SlotOfOffset ==
  ASSUME NEW o \in Nat
  PROVE  o % Capacity \in Slots
BY CapacityType DEF Slots

(* write(): the cells behind the old end hold the new units, and every cell *)
(* the start has not passed keeps what it held.                             *)
LEMMA StoredCells ==
  ASSUME storage \in [Slots -> Cell], begin \in Nat, end \in Nat,
         NEW units \in Seq(Unit), Len(units) <= Capacity
  PROVE  Stored(units) \in [Slots -> Cell]
<1> SUFFICES ASSUME NEW s \in Slots
             PROVE  Stored(units)[s] \in Cell
  BY DEF Stored
<1>1. CASE \E k \in 1 .. Len(units) : (end + k - 1) % Capacity = s
  <2> DEFINE k == CHOOSE k \in 1 .. Len(units) : (end + k - 1) % Capacity = s
  <2>1. k \in 1 .. Len(units)
    BY <1>1
  <2>2. units[k] \in Unit /\ end + k - 1 \in Int
    BY <2>1, ElementOfSeq, LenProperties
  <2>3. Stored(units)[s] = [at |-> end + k - 1, unit |-> units[k]]
    BY <1>1 DEF Stored
  <2> QED
    BY <2>2, <2>3 DEF Cell
<1>2. CASE ~ \E k \in 1 .. Len(units) : (end + k - 1) % Capacity = s
  BY <1>2 DEF Stored
<1> QED
  BY <1>1, <1>2

LEMMA StoredIntact ==
  ASSUME begin \in Nat, end \in Nat, begin <= end, Intact,
         NEW units \in Seq(Unit), Len(units) <= Capacity,
         NEW start \in Nat, begin <= start,
         end + Len(units) - start <= Capacity,
         NEW o \in start .. end + Len(units) - 1
  PROVE  Stored(units)[o % Capacity].at = o
<1> DEFINE s == o % Capacity
           Here(k) == (end + k - 1) % Capacity = s
<1>1. /\ s \in Slots /\ o \in Nat /\ Len(units) \in Nat
      /\ Capacity \in Nat /\ Capacity # 0
  <2>1. Len(units) \in Nat
    BY LenProperties
  <2>2. o \in Nat
    BY <2>1
  <2> QED
    BY <2>1, <2>2, SlotOfOffset, CapacityType
<1>2. ASSUME NEW k \in 1 .. Len(units), Here(k)
      PROVE  o = end + k - 1
  <2> DEFINE p == end + k - 1
  <2>1. p \in Nat /\ p % Capacity = o % Capacity /\ p < end + Len(units) /\ p >= end
    BY <1>1, <1>2
  <2> HIDE DEF p
  <2>2. ASSUME o < p PROVE FALSE
    <3>1. p - o >= Capacity
      BY <1>1, <2>1, <2>2, LapApart
    <3> QED
      BY <3>1, <1>1, <2>1
  <2>3. ASSUME p < o PROVE FALSE
    <3>1. o - p >= Capacity
      BY <1>1, <2>1, <2>3, LapApart
    <3> QED
      BY <3>1, <1>1, <2>1
  <2>4. o = p
    BY <1>1, <2>1, <2>2, <2>3
  <2> QED
    BY <2>4 DEF p
<1>3. CASE \E k \in 1 .. Len(units) : Here(k)
  <2> DEFINE k == CHOOSE k \in 1 .. Len(units) : Here(k)
  <2>1. k \in 1 .. Len(units) /\ Here(k)
    BY <1>3
  <2>2. Stored(units)[s] = [at |-> end + k - 1, unit |-> units[k]]
    BY <1>1, <1>3 DEF Stored
  <2> HIDE DEF k
  <2>3. o = end + k - 1
    BY <2>1, <1>2
  <2> QED
    BY <2>2, <2>3
<1>4. CASE ~ \E k \in 1 .. Len(units) : Here(k)
  <2>1. o < end
    <3>1. CASE o >= end
      <4>1. o - end + 1 \in 1 .. Len(units)
        BY <3>1, <1>1
      <4>2. Here(o - end + 1)
        BY <1>1
      <4> QED
        BY <4>1, <4>2, <1>4
    <3> QED
      BY <3>1, <1>1
  <2>2. Stored(units)[s] = storage[s]
    BY <1>1, <1>4 DEF Stored
  <2> QED
    BY <2>1, <2>2, <1>1 DEF Intact
<1> QED
  BY <1>3, <1>4

LEMMA StoredUpTo ==
  ASSUME begin \in Nat, end \in Nat, begin <= end, Intact,
         NEW units \in Seq(Unit), Len(units) <= Capacity,
         NEW last, last = end + Len(units),
         NEW start \in Nat, begin <= start, last - start <= Capacity,
         NEW o \in start .. last - 1
  PROVE  Stored(units)[o % Capacity].at = o
<1>1. /\ end + Len(units) - start <= Capacity
      /\ o \in start .. end + Len(units) - 1
  OBVIOUS
<1> QED
  BY <1>1, StoredIntact

--------------------------------------------------------------------------------
(* The settings history keeps its type. *)
LEMMA UsType ==
  ASSUME NEW t \in Nat
  PROVE  Us(t) \in Nat
BY DEF Us

LEMMA TrimmedType ==
  ASSUME NEW h \in History
  PROVE  Trimmed(h) \in History
<1> DEFINE n == Len(h.configs)
           gone == Cardinality(Expired(h))
<1>1. h.configs \in Seq(Nat) /\ h.floor \in Nat /\ h.high \in Nat /\ n \in Nat
  BY LenProperties DEF History
<1>2. gone \in Nat /\ gone <= Cardinality(1 .. n - 1)
  <2>1. Expired(h) \in SUBSET (1 .. n - 1)
    BY DEF Expired
  <2>2. IsFiniteSet(1 .. n - 1)
    BY <1>1, FS_Interval
  <2>3. IsFiniteSet(Expired(h)) /\ gone <= Cardinality(1 .. n - 1)
    BY <2>1, <2>2, FS_Subset
  <2> QED
    BY <2>3, FS_CardinalityType
<1>3. CASE gone = 0
  BY <1>3 DEF Trimmed
<1>4. CASE gone # 0
  <2>1. gone + 1 \in 1 .. n
    <3>1. ASSUME NEW g \in Nat, NEW c, g # 0, g <= c,
                 c = IF 1 > n - 1 THEN 0 ELSE n - 1 - 1 + 1
          PROVE  g + 1 \in 1 .. n
      BY <1>1, <3>1
    <3>2. ASSUME NEW b \in Int
          PROVE  Cardinality(1 .. b) = IF 1 > b THEN 0 ELSE b - 1 + 1
      <4>1. 1 \in Int
        OBVIOUS
      <4> QED
        BY <4>1, FS_Interval, Zenon
    <3>3. gone \in Nat /\ gone # 0
      BY <1>2, <1>4
    <3>4. n - 1 \in Int
      BY <1>1
    <3>5. Cardinality(1 .. n - 1) = IF 1 > n - 1 THEN 0 ELSE n - 1 - 1 + 1
      BY <3>2, <3>4
    <3> HIDE DEF gone
    <3> QED
      BY <1>2, <3>1, <3>3, <3>5
  <2>2. h.configs[gone + 1] \in Nat
    BY <1>1, <2>1, ElementOfSeq
  <2>3. \A i \in gone + 1 .. n : h.configs[i] \in Nat
    BY <1>1, <1>2, ElementOfSeq
  <2>4. SubSeq(h.configs, gone + 1, n) \in Seq(Nat)
    BY <1>1, <1>2, <2>3, SubSeqProperties
  <2>5. Trimmed(h) = [h EXCEPT !.configs = SubSeq(h.configs, gone + 1, n),
                               !.floor = h.configs[gone + 1]]
    BY <1>4 DEF Trimmed
  <2> HIDE DEF n, gone
  <2> QED
    BY <2>2, <2>4, <2>5 DEF History
<1> QED
  BY <1>3, <1>4

(* Any two fields may be replaced. *)
LEMMA HistoryFields ==
  ASSUME NEW h \in History, NEW c \in Seq(Nat), NEW n \in Nat
  PROVE  /\ [h EXCEPT !.configs = c, !.floor = n] \in History
         /\ [h EXCEPT !.configs = c] \in History
         /\ [h EXCEPT !.high = n] \in History
BY DEF History

LEMMA HistoryTypes ==
  ASSUME NEW h \in History
  PROVE  h.configs \in Seq(Nat) /\ h.floor \in Nat /\ h.high \in Nat
BY DEF History

LEMMA LargerType ==
  ASSUME NEW a \in Nat, NEW b \in Int
  PROVE  Larger(a, b) \in Nat /\ Larger(a, b) >= a /\ Larger(a, b) >= b
BY DEF Larger

LEMMA RememberType ==
  ASSUME NEW h \in History, NEW known \in BOOLEAN, NEW changed \in BOOLEAN,
         NEW saved \in BOOLEAN, NEW pts \in Int, pts >= 0 \/ pts = NoPts
  PROVE  Remember(h, known, changed, saved, pts) \in History
<1> DEFINE seen == [h EXCEPT !.high = Larger(h.high, pts)]
           store == known /\ (changed \/ h.configs = <<>>)
<1>1. CASE pts = NoPts
  <2>1. h.high + 1 \in Nat
    BY HistoryTypes
  <2>2. [h EXCEPT !.configs = <<>>, !.floor = h.high + 1] \in History
    BY <2>1, HistoryFields, EmptySeq
  <2>3. Remember(h, known, changed, saved, pts)
          \in {h, [h EXCEPT !.configs = <<>>, !.floor = h.high + 1]}
    BY <1>1 DEF Remember
  <2> QED
    BY <2>2, <2>3
<1>2. CASE pts # NoPts
  <2>1. seen \in History /\ seen.configs \in Seq(Nat) /\ seen.high \in Nat
    <3>1. Larger(h.high, pts) \in Nat
      BY HistoryTypes, LargerType
    <3>2. seen \in History
      BY <3>1, HistoryFields, EmptySeq
    <3> HIDE DEF seen
    <3> QED
      BY <3>2, HistoryTypes
  <2>0. <<>> \in Seq(Nat) /\ Append(seen.configs, seen.high) \in Seq(Nat)
    BY <2>1, EmptySeq, AppendProperties
  <2>2. CASE store /\ ~saved
    <3>1. [seen EXCEPT !.configs = <<>>, !.floor = seen.high] \in History
      <4> HIDE DEF seen
      <4> QED
        BY <2>1, <2>0, HistoryFields
    <3>2. Remember(h, known, changed, saved, pts)
            = [seen EXCEPT !.configs = <<>>, !.floor = seen.high]
      BY <1>2, <2>2 DEF Remember
    <3> QED
      BY <3>1, <3>2
  <2>3. CASE store /\ saved
    <3>1. [seen EXCEPT !.configs = Append(@, seen.high)] \in History
      <4> HIDE DEF seen
      <4> QED
        BY <2>1, <2>0, HistoryFields
    <3>2. Remember(h, known, changed, saved, pts)
            = Trimmed([seen EXCEPT !.configs = Append(@, seen.high)])
      BY <1>2, <2>3 DEF Remember
    <3> QED
      BY <3>1, <3>2, TrimmedType
  <2>4. CASE ~store
    <3>1. Remember(h, known, changed, saved, pts) = Trimmed(seen)
      BY <1>2, <2>4 DEF Remember
    <3> QED
      BY <2>1, <3>1, TrimmedType
  <2> QED
    BY <2>2, <2>3, <2>4
<1> QED
  BY <1>1, <1>2

LEMMA RestartedType ==
  ASSUME NEW q \in Parser
  PROVE  Restarted(q) \in Parser
<1>1. EmptyHistory \in History /\ UnseenTime \in Time
  BY EmptySeq DEF EmptyHistory, History, UnseenTime, Time
<1> QED
  BY <1>1 DEF Restarted, Parser

LEMMA ProgrammeSeenType ==
  ASSUME NEW q \in Parser, NEW programme \in Programme
  PROVE  ProgrammeSeen(q, programme) \in Parser
<1>1. EmptyHistory \in History
  BY EmptySeq DEF EmptyHistory, History
<1> QED
  BY <1>1 DEF ProgrammeSeen, Parser

LEMMA PictureSeenType ==
  ASSUME NEW q \in Parser, NEW raw \in Nat,
         NEW change \in {"same", "changed", "unsaved", "undated"}
  PROVE  PictureSeen(q, raw, change) \in Parser
<1> DEFINE time == Extended(q.time, raw)
           known == q.known \/ change # "same"
           pts == IF change = "undated" THEN NoPts ELSE q.unit
           saw == Remember(q.history, known, change # "same", change # "unsaved", pts)
<1>1. /\ q.history \in History /\ q.time \in Time /\ q.known \in BOOLEAN
      /\ q.unit \in Nat \cup {NoPts}
  BY DEF Parser
<1>2. time \in Time /\ ExtendedUs(time) \in Nat
  <2>1. time \in Time /\ time.epoch + time.raw \in Nat
    BY <1>1, PtsModulusAssumption DEF Extended, Time
  <2> HIDE DEF time
  <2> QED
    BY <2>1, UsType DEF ExtendedUs
<1>3. saw \in History
  <2>1. pts \in Int /\ (pts >= 0 \/ pts = NoPts)
    BY <1>1 DEF NoPts
  <2>2. known \in BOOLEAN
    BY <1>1
  <2> HIDE DEF pts, known
  <2> QED
    BY <1>1, <2>1, <2>2, RememberType
<1>4. PictureSeen(q, raw, change)
        = [q EXCEPT !.time = time, !.unit = ExtendedUs(time), !.known = known,
                    !.history = IF q.unit = NoPts THEN q.history ELSE saw]
  BY DEF PictureSeen
<1>5. known \in BOOLEAN
  OBVIOUS
<1> HIDE DEF time, known, saw
<1> QED
  BY <1>1, <1>2, <1>3, <1>4, <1>5 DEF Parser

LEMMA ScannedType ==
  ASSUME NEW q \in Parser, NEW p \in Packet, NEW r \in Scanned(q, p)
  PROVE  r \in Parser
<1>1. p.programme \in Programme /\ p.ticks \in Nat
  BY DEF Packet
<1>2. CASE r = ProgrammeSeen(q, p.programme)
  BY <1>1, <1>2, ProgrammeSeenType
<1>3. CASE \E c \in {"same", "changed", "unsaved", "undated"} : r = PictureSeen(q, p.ticks, c)
  BY <1>1, <1>3, PictureSeenType
<1>4. CASE r = [q EXCEPT !.ok = FALSE]
  BY <1>4 DEF Parser
<1>5. CASE r = q
  BY <1>5
<1> QED
  BY <1>2, <1>3, <1>4, <1>5 DEF Scanned

--------------------------------------------------------------------------------
(* Marks: dropping a prefix, adding one. *)
LEMMA AfterMarks ==
  ASSUME NEW ms \in Seq(Mark), NEW n \in 0 .. Len(ms)
  PROVE  /\ After(ms, n) \in Seq(Mark)
         /\ Len(After(ms, n)) = Len(ms) - n
         /\ \A i \in 1 .. Len(After(ms, n)) : After(ms, n)[i] = ms[i + n]
<1>1. Len(ms) \in Nat /\ n \in Nat
  BY LenProperties
<1>2. \A i \in n + 1 .. Len(ms) : ms[i] \in Mark
  BY <1>1, ElementOfSeq
<1>3. /\ SubSeq(ms, n + 1, Len(ms)) \in Seq(Mark)
      /\ Len(SubSeq(ms, n + 1, Len(ms)))
           = IF n + 1 <= Len(ms) THEN Len(ms) - (n + 1) + 1 ELSE 0
      /\ \A i \in 1 .. Len(ms) - (n + 1) + 1 :
           SubSeq(ms, n + 1, Len(ms))[i] = ms[n + 1 + i - 1]
  BY <1>1, <1>2, SubSeqProperties
<1> QED
  BY <1>1, <1>3 DEF After

LEMMA MarkTypes ==
  ASSUME NEW ms \in Seq(Mark), NEW i \in 1 .. Len(ms)
  PROVE  /\ ms[i] \in Mark
         /\ ms[i].offset \in Nat /\ ms[i].pts \in Nat /\ ms[i].random \in BOOLEAN
<1>1. ms[i] \in Mark
  BY ElementOfSeq
<1> QED
  BY <1>1 DEF Mark

LEMMA SubSeqOfPackets ==
  ASSUME NEW ps \in Seq(Packet), NEW m \in Nat, NEW n \in 0 .. Len(ps), m >= 1
  PROVE  /\ SubSeq(ps, m, n) \in Seq(Packet)
         /\ m = 1 => Len(SubSeq(ps, m, n)) = n
<1>1. Len(ps) \in Nat /\ n \in Nat
  BY LenProperties
<1>2. \A i \in m .. n : ps[i] \in Packet
  BY <1>1, ElementOfSeq
<1> QED
  BY <1>1, <1>2, SubSeqProperties

LEMMA StoredPackets ==
  ASSUME begin \in Nat, end \in Nat,
         \A s \in Slots : storage[s].unit \in Packet,
         NEW units \in Seq(Packet)
  PROVE  \A s \in Slots : Stored(units)[s].unit \in Packet
<1> SUFFICES ASSUME NEW s \in Slots
             PROVE  Stored(units)[s].unit \in Packet
  OBVIOUS
<1>1. CASE \E k \in 1 .. Len(units) : (end + k - 1) % Capacity = s
  <2> DEFINE k == CHOOSE k \in 1 .. Len(units) : (end + k - 1) % Capacity = s
  <2>1. k \in 1 .. Len(units)
    BY <1>1
  <2>2. units[k] \in Packet
    BY <2>1, ElementOfSeq
  <2>3. Stored(units)[s] = [at |-> end + k - 1, unit |-> units[k]]
    BY <1>1 DEF Stored
  <2> QED
    BY <2>2, <2>3
<1>2. CASE ~ \E k \in 1 .. Len(units) : (end + k - 1) % Capacity = s
  BY <1>2 DEF Stored
<1> QED
  BY <1>1, <1>2

\* The start never falls and leaves at most a ring behind the new end.
LEMMA StartAfterBounds ==
  ASSUME begin \in Nat, end \in Nat, begin <= end,
         NEW start \in begin .. end, NEW n \in 0 .. Capacity
  PROVE  /\ StartAfter(start, n) \in Nat
         /\ start <= StartAfter(start, n) /\ StartAfter(start, n) <= end + n
         /\ end + n - StartAfter(start, n) <= Capacity
BY CapacityType DEF StartAfter

--------------------------------------------------------------------------------
LEMMA InitInv == Init => RingInv
<1> SUFFICES ASSUME Init PROVE RingInv
  OBVIOUS
<1>1. Junk \in Packet
  BY PtsModulusAssumption DEF Junk, Packet, NoProgramme, Programme
<1>2. storage \in [Slots -> Cell] /\ \A s \in Slots : storage[s].unit \in Packet
  BY <1>1 DEF Init, Cell, Unit
<1>3. <<>> \in Seq(Mark) /\ <<>> \in Seq(Packet) /\ Len(<<>>) = 0
  BY EmptySeq
<1>4. NewParser \in Parser
  <2>1. EmptyHistory \in History /\ UnseenTime \in Time /\ NoProgramme \in Programme
    BY EmptySeq DEF EmptyHistory, History, UnseenTime, Time, NoProgramme, Programme
  <2> QED
    BY <2>1 DEF NewParser, Parser
<1>5. TypeOK
  <2>1. op \in [at : {"idle", "write", "index", "replay", "trim", "finish"},
                rest : Seq(Packet), reset : BOOLEAN]
    BY <1>3 DEF Init, Idle
  <2>2. held \in [offset : Nat, pts : Nat \cup {NoPts}, generation : Nat]
    BY DEF Init, NoPosition
  <2>3. /\ clock \in [have : BOOLEAN, ticks : Int, raw : Nat]
        /\ pids \in [video : Nat, indexed : Nat]
    BY DEF Init
  <2> QED
    BY <1>2, <1>3, <1>4, <2>1, <2>2, <2>3 DEF Init, TypeOK
<1> QED
  BY <1>2, <1>3, <1>5, CapacityType
  DEF Init, RingInv, Placed, Intact, PacketsOnly, MarksBehind, Idle

LEMMA AppendInputInv ==
  ASSUME RingInv, NEW input \in Inputs, AppendInput(input)
  PROVE  RingInv'
<1>1. input \in Seq(Packet)
  BY InputAssumption
<1>2. TypeOK'
  BY <1>1 DEF AppendInput, RingInv, TypeOK, ringVars, timeVars
<1> QED
  BY <1>2 DEF AppendInput, RingInv, Placed, Intact, PacketsOnly, MarksBehind, Idle, ringVars, timeVars

LEMMA WriteChunkInv ==
  ASSUME RingInv, WriteChunk
  PROVE  RingInv'
<1> DEFINE n == ChunkSize
           chunk == SubSeq(op.rest, 1, n)
           start == StartAfter(begin, n)
<1>1. /\ op.rest \in Seq(Packet) /\ begin \in Nat /\ end \in Nat /\ scan \in Nat
      /\ begin <= end /\ end - begin <= Capacity /\ scan <= end
      /\ synchronized \in BOOLEAN /\ storage \in [Slots -> Cell]
      /\ Intact /\ mode # "webm" /\ \A s \in Slots : storage[s].unit \in Packet
  BY DEF RingInv, TypeOK, Placed, PacketsOnly, WriteChunk
<1>2. n \in 0 .. Len(op.rest) /\ n \in 0 .. Capacity
  <2>1. Len(op.rest) \in Nat
    BY <1>1, LenProperties
  <2> QED
    BY <2>1, CapacityType DEF ChunkSize, Smaller
<1>3. chunk \in Seq(Packet) /\ Len(chunk) = n
  BY <1>1, <1>2, SubSeqOfPackets
<1>4. chunk \in Seq(Unit)
  <2>1. Packet \subseteq Unit
    BY DEF Unit
  <2>2. Len(chunk) \in Nat /\ chunk \in [1 .. Len(chunk) -> Packet]
    BY <1>3, LenProperties
  <2> QED
    BY <1>3, <2>1, SMT
<1>5. /\ start \in Nat /\ begin <= start /\ start <= end + n
      /\ end + n - start <= Capacity
  BY <1>1, <1>2, StartAfterBounds
<1>6. SubSeq(op.rest, n + 1, Len(op.rest)) \in Seq(Packet)
  <2>1. Len(op.rest) \in Nat
    BY <1>1, LenProperties
  <2>2. n + 1 \in Nat /\ n + 1 >= 1 /\ Len(op.rest) \in 0 .. Len(op.rest)
    BY <1>2, <2>1
  <2> QED
    BY <1>1, <2>2, SubSeqOfPackets
<1>7. /\ storage' = Stored(chunk) /\ end' = end + n /\ begin' = start
      /\ scan' = Larger(scan, start) /\ synchronized' = (synchronized /\ scan >= start)
      /\ op' = [op EXCEPT !.at = "index", !.rest = SubSeq(op.rest, n + 1, Len(op.rest))]
      /\ op.at = "write"
      /\ UNCHANGED <<mode, timeVars, pids, parser, webmVideo, held>>
  BY DEF WriteChunk
<1>8. Larger(scan, start) \in Nat /\ Larger(scan, start) >= scan /\ Larger(scan, start) >= start
      /\ Larger(scan, start) <= end + n
  BY <1>1, <1>2, <1>5 DEF Larger
<1>9. Stored(chunk) \in [Slots -> Cell]
  <2>1. Len(chunk) <= Capacity
    BY <1>2, <1>3
  <2> QED
    BY <1>1, <1>4, <2>1, StoredCells
<1>10. \A o \in start .. end + n - 1 : Stored(chunk)[o % Capacity].at = o
  <2>1. Len(chunk) <= Capacity /\ end + Len(chunk) - start <= Capacity
        /\ start .. end + n - 1 = start .. end + Len(chunk) - 1
    BY <1>2, <1>3, <1>5
  <2> HIDE DEF chunk, start, n
  <2> QED
    BY <1>1, <1>4, <1>5, <2>1, StoredIntact
<1>11. \A s \in Slots : Stored(chunk)[s].unit \in Packet
  BY <1>1, <1>3, StoredPackets
<1> HIDE DEF n, chunk, start
<1>12. TypeOK'
  <2>1. end + n \in Nat
    BY <1>1, <1>2
  <2>2. op' \in [at : {"idle", "write", "index", "replay", "trim", "finish"},
                 rest : Seq(Packet), reset : BOOLEAN]
    BY <1>6, <1>7 DEF RingInv, TypeOK
  <2>3. storage' \in [Slots -> Cell]
    BY <1>7, <1>9
  <2>4. begin' \in Nat /\ end' \in Nat /\ scan' \in Nat /\ synchronized' \in BOOLEAN
    BY <1>1, <1>5, <1>7, <1>8, <2>1
  <2> QED
    BY <1>7, <2>2, <2>3, <2>4 DEF RingInv, TypeOK, timeVars
<1>13. Placed'
  <2>1. op'.at = "index" /\ mode' = mode /\ end' = end + n /\ begin' = start
        /\ scan' = Larger(scan, start)
    BY <1>7 DEF RingInv, TypeOK
  <2>2. n \in Nat
    BY <1>2
  <2> QED
    BY <1>1, <1>5, <1>8, <2>1, <2>2 DEF Placed
<1>14. Intact'
  <2> SUFFICES ASSUME NEW o \in begin' .. end' - 1
               PROVE  storage'[o % Capacity].at = o
    BY DEF Intact
  <2>1. end' - 1 = end + n - 1
    BY <1>1, <1>2, <1>7
  <2> QED
    BY <1>7, <1>10, <2>1
<1>15. PacketsOnly'
  BY <1>7, <1>11 DEF PacketsOnly
<1>16. MarksBehind'
  <2> SUFFICES ASSUME NEW i \in 1 .. Len(marks)
               PROVE  marks[i].offset < end' /\ marks[i].offset < scan'
    BY <1>7 DEF MarksBehind, timeVars, RingInv, TypeOK
  <2>0. marks \in Seq(Mark)
    BY DEF RingInv, TypeOK
  <2>1. marks[i].offset \in Nat
    BY <2>0, MarkTypes
  <2>2. marks[i].offset < end /\ marks[i].offset < scan
    BY <1>1, <1>7 DEF RingInv, MarksBehind
  <2> QED
    BY <1>1, <1>2, <1>7, <1>8, <2>1, <2>2
<1> QED
  BY <1>12, <1>13, <1>14, <1>15, <1>16 DEF RingInv

\* What the actions of the indexer have in common.
LEMMA IndexerFacts ==
  ASSUME RingInv, mode # "webm"
  PROVE  /\ begin \in Nat /\ end \in Nat /\ scan \in Nat
         /\ begin <= end /\ end - begin <= Capacity /\ scan <= end
         /\ op.at \in {"index", "replay", "trim"} => begin <= scan
         /\ op.at \in {"replay", "trim"} => scan < end
         /\ marks \in Seq(Mark) /\ Len(marks) \in Nat
         /\ latest \in Nat /\ generation \in Nat /\ pids \in [video : Nat, indexed : Nat]
         /\ clock \in [have : BOOLEAN, ticks : Int, raw : Nat]
         /\ AtScan \in Packet /\ parser \in Parser
<1>1. scan \in Nat
  BY DEF RingInv, TypeOK
<1>2. AtScan \in Packet
  BY <1>1, SlotOfOffset DEF RingInv, PacketsOnly, AtScan
<1>3. Len(marks) \in Nat
  BY LenProperties DEF RingInv, TypeOK
<1> QED
  BY <1>1, <1>2, <1>3 DEF RingInv, TypeOK, Placed

LEMMA AppendEndsInv ==
  ASSUME RingInv, AppendEnds
  PROVE  RingInv'
<1>1. Idle \in [at : {"idle", "write", "index", "replay", "trim", "finish"},
               rest : Seq(Packet), reset : BOOLEAN]
  BY EmptySeq DEF Idle
<1>2. TypeOK'
  BY <1>1 DEF AppendEnds, RingInv, TypeOK, ringVars, timeVars
<1> QED
  BY <1>2 DEF AppendEnds, RingInv, Placed, Intact, PacketsOnly, MarksBehind, Idle, ringVars, timeVars

LEMMA IndexEndsInv ==
  ASSUME RingInv, IndexEnds
  PROVE  RingInv'
<1>1. /\ op' \in [at : {"idle", "write", "index", "replay", "trim", "finish"},
                 rest : Seq(Packet), reset : BOOLEAN]
      /\ op'.at = "finish"
  BY DEF IndexEnds, RingInv, TypeOK
<1>2. TypeOK'
  BY <1>1 DEF IndexEnds, RingInv, TypeOK, ringVars, timeVars
<1>3. mode # "webm"
  BY DEF IndexEnds, RingInv, Placed
<1> QED
  BY <1>1, <1>2, <1>3
  DEF IndexEnds, RingInv, Placed, Intact, PacketsOnly, MarksBehind, ringVars, timeVars

LEMMA SkipUnitInv ==
  ASSUME RingInv, SkipUnit
  PROVE  RingInv'
<1>1. mode # "webm"
  BY DEF SkipUnit, RingInv, Placed
<1>2. scan' = scan + 1 /\ scan < end /\ op.at = "index"
      /\ UNCHANGED <<mode, storage, begin, end, generation, marks, latest, clock, pids,
                     parser, webmVideo, op, held>>
  BY DEF SkipUnit, timeVars
<1>3. synchronized' \in BOOLEAN
  BY DEF SkipUnit, RingInv, TypeOK
<1>4. TypeOK'
  BY <1>2, <1>3 DEF RingInv, TypeOK
<1>5. Placed'
  BY <1>1, <1>2, IndexerFacts DEF Placed
<1>6. Intact' /\ PacketsOnly'
  BY <1>2 DEF RingInv, Intact, PacketsOnly
<1>7. MarksBehind'
  <2> SUFFICES ASSUME NEW i \in 1 .. Len(marks)
               PROVE  marks[i].offset < end /\ marks[i].offset < scan + 1
    BY <1>2 DEF MarksBehind
  <2>1. marks[i].offset \in Nat
    BY <1>1, IndexerFacts, MarkTypes
  <2> QED
    BY <1>1, <1>2, <2>1, IndexerFacts DEF RingInv, MarksBehind
<1> QED
  BY <1>4, <1>5, <1>6, <1>7 DEF RingInv

LEMMA LaterFits ==
  ASSUME NEW b \in Nat, NEW later \in Nat, NEW e \in Nat, e - b <= Capacity, b <= later
  PROVE  e - later <= Capacity
BY CapacityType

\* A later start keeps what it still covers intact.
LEMMA LaterStart ==
  ASSUME begin \in Nat, end \in Nat, Intact, UNCHANGED <<storage, end>>,
         begin' \in Nat, begin <= begin'
  PROVE  Intact'
BY DEF Intact

LEMMA TicksType ==
  ASSUME clock \in [have : BOOLEAN, ticks : Int, raw : Nat], NEW raw \in Nat
  PROVE  TicksOf(raw) \in Int
<1>1. (raw - clock.raw) % PtsModulus \in Int /\ PtsModulus \in Int
  BY PtsModulusAssumption
<1>2. ClockDelta(raw) \in Int
  BY <1>1 DEF ClockDelta
<1> QED
  BY <1>2 DEF TicksOf

LEMMA IndexPacketInv ==
  ASSUME RingInv, IndexPacket
  PROVE  RingInv'
<1>1. mode # "webm"
  BY DEF IndexPacket, RingInv, Placed
<1>2. /\ op.at = "index" /\ scan < end /\ synchronized' = TRUE
      /\ op'.at \in {"replay", "trim"}
      /\ op' \in [at : {"idle", "write", "index", "replay", "trim", "finish"},
                  rest : Seq(Packet), reset : BOOLEAN]
      /\ UNCHANGED <<mode, storage, end, scan, parser, webmVideo, held>>
  <2>1. (Timed(AtScan) /\ ClockJumps(AtScan.ticks)) \in BOOLEAN
    BY DEF Timed, ClockJumps
  <2> QED
    BY <2>1 DEF IndexPacket, RingInv, TypeOK
<1>3. \/ UNCHANGED <<begin, generation, clock, pids, marks, latest>>
      \/ MarkPicture(AtScan)
  BY DEF IndexPacket
<1>4. ASSUME UNCHANGED <<begin, generation, clock, pids, marks, latest>>
      PROVE  RingInv'
  <2>1. TypeOK'
    BY <1>2, <1>4 DEF RingInv, TypeOK
  <2>2. Placed'
    BY <1>1, <1>2, <1>4, IndexerFacts DEF Placed
  <2>3. Intact' /\ PacketsOnly'
    BY <1>2, <1>4 DEF RingInv, Intact, PacketsOnly
  <2>4. MarksBehind'
    <3> SUFFICES ASSUME NEW i \in 1 .. Len(marks)
                 PROVE  marks[i].offset < end /\ marks[i].offset <= scan
      BY <1>2, <1>4 DEF MarksBehind
    <3>1. marks[i].offset \in Nat
      BY <1>1, IndexerFacts, MarkTypes
    <3> QED
      BY <1>1, <1>2, <3>1, IndexerFacts DEF RingInv, MarksBehind
  <2> QED
    BY <2>1, <2>2, <2>3, <2>4 DEF RingInv
<1>5. ASSUME MarkPicture(AtScan)
      PROVE  RingInv'
  <2> DEFINE ticks == TicksOf(AtScan.ticks)
             jump == ClockJumps(AtScan.ticks)
             kept == IF jump THEN <<>> ELSE marks
             newest == IF jump THEN 0 ELSE latest
             picture == [offset |-> scan, pts |-> Us(ticks), random |-> AtScan.random]
  <2>1. /\ AtScan.ticks \in Nat /\ AtScan.pid \in Nat /\ AtScan.random \in BOOLEAN
        /\ ticks \in Int
    <3>1. AtScan.ticks \in Nat /\ AtScan.pid \in Nat /\ AtScan.random \in BOOLEAN
      BY <1>1, IndexerFacts DEF Packet
    <3> QED
      BY <1>1, <3>1, IndexerFacts, TicksType
  <2>2. kept \in Seq(Mark) /\ newest \in Nat /\ kept \in {<<>>, marks}
    BY <1>1, IndexerFacts, EmptySeq
  <2>3. /\ begin' \in {begin, scan}
        /\ generation' \in {generation, generation + 1}
        /\ clock' = [have |-> TRUE, ticks |-> ticks, raw |-> AtScan.ticks]
        /\ pids' = [pids EXCEPT !.indexed = AtScan.pid]
        /\ ticks < 0 => marks' = kept /\ latest' = newest
        /\ ~(ticks < 0) => marks' = Append(kept, picture) /\ latest' = Larger(newest, Us(ticks))
    BY <1>5 DEF MarkPicture
  <2>4. begin' \in Nat /\ begin <= begin' /\ begin' <= scan
    BY <1>1, <1>2, <2>3, IndexerFacts
  <2> HIDE DEF ticks, jump, kept, newest
  <2>5. ~(ticks < 0) => Us(ticks) \in Nat /\ picture \in Mark
    <3>1. ~(ticks < 0) => Us(ticks) \in Nat
      BY <2>1, UsType
    <3> QED
      BY <1>1, <2>1, <3>1, IndexerFacts DEF Mark
  <2> HIDE DEF picture
  <2>6. marks' \in Seq(Mark) /\ latest' \in Nat
    BY <2>1, <2>2, <2>3, <2>5, AppendProperties, LargerType
  <2>7. TypeOK'
    <3>1. clock' \in [have : BOOLEAN, ticks : Int, raw : Nat]
      BY <2>1, <2>3
    <3>2. pids' \in [video : Nat, indexed : Nat]
      BY <1>1, <2>1, <2>3, IndexerFacts
    <3>3. generation' \in Nat
      BY <1>1, <2>3, IndexerFacts
    <3> QED
      BY <1>2, <2>4, <2>6, <3>1, <3>2, <3>3 DEF RingInv, TypeOK
  <2>8. Placed'
    BY <1>1, <1>2, <2>4, IndexerFacts, CapacityType DEF Placed
  <2>9. Intact' /\ PacketsOnly'
    <3>1. Intact'
      BY <1>1, <1>2, <2>4, IndexerFacts, LaterStart DEF RingInv
    <3> QED
      BY <1>2, <3>1 DEF RingInv, PacketsOnly
  <2>10. \A i \in 1 .. Len(kept) : kept[i].offset < end /\ kept[i].offset <= scan
    <3> SUFFICES ASSUME NEW i \in 1 .. Len(marks)
                 PROVE  marks[i].offset < end /\ marks[i].offset <= scan
      BY <2>2, EmptySeq
    <3>1. marks[i].offset \in Nat
      BY <1>1, IndexerFacts, MarkTypes
    <3> QED
      BY <1>1, <1>2, <3>1, IndexerFacts DEF RingInv, MarksBehind
  <2>11. MarksBehind'
    <3> SUFFICES ASSUME NEW i \in 1 .. Len(marks')
                 PROVE  marks'[i].offset < end /\ marks'[i].offset <= scan
      BY <1>2 DEF MarksBehind
    <3>1. CASE ticks < 0
      BY <2>3, <2>10, <3>1
    <3>2. CASE ~(ticks < 0)
      <4>1. /\ Len(kept) \in Nat /\ Len(marks') = Len(kept) + 1
            /\ \A j \in 1 .. Len(kept) : marks'[j] = kept[j]
            /\ marks'[Len(kept) + 1] = picture
        BY <2>2, <2>3, <2>5, <3>2, AppendProperties, LenProperties
      <4>2. CASE i = Len(kept) + 1
        BY <1>1, <1>2, <4>1, <4>2, IndexerFacts DEF picture
      <4>3. CASE i # Len(kept) + 1
        <5>1. i \in 1 .. Len(kept)
          BY <4>1, <4>3
        <5> QED
          BY <2>10, <4>1, <5>1
      <4> QED
        BY <4>2, <4>3
    <3> QED
      BY <3>1, <3>2
  <2> QED
    BY <2>7, <2>8, <2>9, <2>11 DEF RingInv
<1> QED
  BY <1>3, <1>4, <1>5

LEMMA ScanSettingsInv ==
  ASSUME RingInv, ScanSettings
  PROVE  RingInv'
<1>1. mode # "webm"
  BY DEF ScanSettings, RingInv, Placed
<1>2. /\ op.at = "replay" /\ op'.at = "trim"
      /\ op' \in [at : {"idle", "write", "index", "replay", "trim", "finish"},
                  rest : Seq(Packet), reset : BOOLEAN]
      /\ UNCHANGED <<mode, storage, end, scan, synchronized, webmVideo, held>>
  BY DEF ScanSettings, RingInv, TypeOK
<1> DEFINE q0 == IF op.reset THEN Restarted(parser) ELSE parser
<1>3. q0 \in Parser
  BY <1>1, IndexerFacts, RestartedType
<1>4. PICK q \in Scanned(q0, AtScan) :
        /\ \E n \in {pids.indexed, q.programme.pid} :
             pids' = [video |-> q.programme.pid, indexed |-> n]
        /\ marks' \in {<<>>, marks} /\ begin' \in {scan, begin} /\ latest' \in {0, latest}
        /\ clock' \in {[clock EXCEPT !.have = FALSE], clock}
        /\ generation' \in {generation + 1, generation}
        /\ parser' \in {Restarted(q), q}
  BY DEF ScanSettings
<1> HIDE DEF q0
<1>5. q \in Parser /\ parser' \in Parser
  <2>1. q \in Parser
    BY <1>1, <1>3, IndexerFacts, ScannedType
  <2> QED
    BY <1>4, <2>1, RestartedType
<1>6. q.programme.pid \in Nat
  BY <1>5 DEF Parser, Programme
<1>7. begin' \in Nat /\ begin <= begin' /\ begin' <= scan
  BY <1>1, <1>2, <1>4, IndexerFacts
<1>8. marks' \in Seq(Mark)
  BY <1>1, <1>4, IndexerFacts, EmptySeq
<1>9. TypeOK'
  <2>1. pids' \in [video : Nat, indexed : Nat]
    BY <1>1, <1>4, <1>6, IndexerFacts
  <2>2. clock' \in [have : BOOLEAN, ticks : Int, raw : Nat]
    BY <1>1, <1>4, IndexerFacts
  <2>3. generation' \in Nat /\ latest' \in Nat
    BY <1>1, <1>4, IndexerFacts
  <2> QED
    BY <1>2, <1>5, <1>7, <1>8, <2>1, <2>2, <2>3 DEF RingInv, TypeOK
<1>10. Placed'
  BY <1>1, <1>2, <1>7, IndexerFacts, CapacityType DEF Placed
<1>11. Intact' /\ PacketsOnly'
  <2>1. Intact'
    BY <1>1, <1>2, <1>7, IndexerFacts, LaterStart DEF RingInv
  <2> QED
    BY <1>2, <2>1 DEF RingInv, PacketsOnly
<1>12. MarksBehind'
  BY <1>1, <1>2, <1>4, EmptySeq DEF RingInv, MarksBehind
<1> QED
  BY <1>9, <1>10, <1>11, <1>12 DEF RingInv

\* What trim() keeps: marks that are not stale, moved down by n.
LEMMA KeptMarks ==
  ASSUME NEW ms \in Seq(Mark), NEW n \in 0 .. Len(ms), NEW limit,
         \A i \in 1 .. Len(ms) : ms[i].offset < limit
  PROVE  \A i \in 1 .. Len(After(ms, n)) : After(ms, n)[i].offset < limit
<1>1. Len(ms) \in Nat
  BY LenProperties
<1> SUFFICES ASSUME NEW i \in 1 .. Len(After(ms, n))
             PROVE  After(ms, n)[i].offset < limit
  OBVIOUS
<1>2. i + n \in 1 .. Len(ms) /\ After(ms, n)[i] = ms[i + n]
  BY <1>1, AfterMarks
<1> QED
  BY <1>2

LEMMA TrimInv ==
  ASSUME RingInv, Trim
  PROVE  RingInv'
<1>1. mode # "webm" /\ op.at \in {"trim", "finish"}
  BY DEF Trim, RingInv, Placed
<1>2. UNCHANGED <<mode, storage, end, synchronized, generation, latest, clock,
                 pids, parser, webmVideo, held>>
  BY DEF Trim
<1>3. PICK n \in 0 .. Len(marks) :
        /\ marks' = After(marks, n)
        /\ begin' = IF n > 0 /\ n < Len(marks)
                    THEN Larger(begin, marks[n + 1].offset) ELSE begin
  BY DEF Trim
<1>4. /\ op' \in [at : {"idle", "write", "index", "replay", "trim", "finish"},
                 rest : Seq(Packet), reset : BOOLEAN]
      /\ \/ op.at = "trim" /\ op'.at = "index" /\ scan' = scan + 1
         \/ op.at = "finish" /\ op'.at = "write" /\ scan' = scan
  BY <1>1 DEF Trim, RingInv, TypeOK
<1>0. /\ scan \in Nat /\ scan' \in Nat /\ scan <= scan' /\ scan' <= end
      /\ begin \in Nat /\ end \in Nat /\ begin <= end /\ end - begin <= Capacity
      /\ op.at = "trim" => begin <= scan /\ scan < scan'
  <2>1. CASE op.at = "trim"
    BY <1>1, <1>4, <2>1, IndexerFacts
  <2>2. CASE op.at = "finish"
    BY <1>1, <1>4, <2>2, IndexerFacts
  <2> QED
    BY <1>1, <2>1, <2>2
<1>5. \A i \in 1 .. Len(marks) :
        marks[i].offset \in Nat /\ marks[i].offset < end /\ marks[i].offset < scan'
  <2> SUFFICES ASSUME NEW i \in 1 .. Len(marks)
               PROVE  marks[i].offset \in Nat /\ marks[i].offset < end /\ marks[i].offset < scan'
    OBVIOUS
  <2>1. marks[i].offset \in Nat
    BY <1>1, IndexerFacts, MarkTypes
  <2>2. marks[i].offset < end
    BY DEF RingInv, MarksBehind
  <2>3. CASE op.at = "trim"
    <3>1. marks[i].offset <= scan
      BY <1>1, <2>3 DEF RingInv, MarksBehind
    <3> QED
      BY <1>0, <2>1, <2>2, <2>3, <3>1
  <2>4. CASE op.at = "finish"
    <3>1. marks[i].offset < scan
      BY <1>1, <2>4 DEF RingInv, MarksBehind
    <3> QED
      BY <1>0, <2>1, <2>2, <2>4, <3>1
  <2> QED
    BY <1>1, <2>3, <2>4
<1>6. begin' \in Nat /\ begin <= begin' /\ begin' <= end /\ (op.at = "trim" => begin' <= scan')
  <2>1. CASE n > 0 /\ n < Len(marks)
    <3>1. n + 1 \in 1 .. Len(marks)
      BY <1>1, <2>1, IndexerFacts
    <3>2. /\ marks[n + 1].offset \in Nat
          /\ marks[n + 1].offset < end /\ marks[n + 1].offset < scan'
      BY <1>5, <3>1
    <3>3. begin' = Larger(begin, marks[n + 1].offset)
      BY <1>3, <2>1
    <3> QED
      BY <1>0, <3>2, <3>3 DEF Larger
  <2>2. CASE ~(n > 0 /\ n < Len(marks))
    BY <1>0, <1>3, <2>2
  <2> QED
    BY <2>1, <2>2
<1>7. marks' \in Seq(Mark)
  BY <1>1, <1>3, IndexerFacts, AfterMarks
<1>8. TypeOK'
  <2>1. scan' \in Nat
    BY <1>1, <1>4, IndexerFacts
  <2> QED
    BY <1>2, <1>4, <1>6, <1>7, <2>1 DEF RingInv, TypeOK
<1>9. Placed'
  <2>1. begin' <= end /\ end - begin' <= Capacity
    <3>1. /\ begin' \in Nat /\ begin <= begin' /\ begin' <= end
          /\ begin \in Nat /\ end \in Nat /\ end - begin <= Capacity
      BY <1>0, <1>6
    <3> QED
      BY <3>1, LaterFits
  <2>2. op'.at \in {"index", "write"} /\ (op'.at = "index" => begin' <= scan')
    <3>1. op.at = "trim" => op'.at = "index" /\ begin' <= scan'
      BY <1>4, <1>6
    <3>2. op.at = "finish" => op'.at = "write"
      BY <1>4
    <3> QED
      BY <1>1, <3>1, <3>2
  <2> QED
    BY <1>0, <1>1, <1>2, <2>1, <2>2 DEF Placed
<1>10. Intact' /\ PacketsOnly'
  <2>1. Intact'
    BY <1>1, <1>2, <1>6, IndexerFacts, LaterStart DEF RingInv
  <2> QED
    BY <1>2, <2>1 DEF RingInv, PacketsOnly
<1>11. MarksBehind'
  <2>1. /\ \A i \in 1 .. Len(marks') : marks'[i].offset < end
        /\ \A i \in 1 .. Len(marks') : marks'[i].offset < scan'
    BY <1>1, <1>3, <1>5, IndexerFacts, KeptMarks
  <2> QED
    BY <1>1, <1>2, <1>4, <2>1 DEF MarksBehind
<1> QED
  BY <1>8, <1>9, <1>10, <1>11 DEF RingInv

\* A WebM record as the units append_webm() writes.
LEMMA RecordUnits ==
  ASSUME NEW b \in Block
  PROVE  /\ <<b>> \o [k \in 1 .. b.units - 1 |-> Body] \in Seq(Unit)
         /\ Len(<<b>> \o [k \in 1 .. b.units - 1 |-> Body]) = b.units
<1>1. b.units \in 1 .. Capacity /\ b.units \in Nat /\ b.units - 1 \in Nat
  BY CapacityType DEF Block
<1>2. b \in Unit /\ Body \in Unit
  BY DEF Unit
<1> DEFINE rest == [k \in 1 .. b.units - 1 |-> Body]
<1>3. rest \in Seq(Unit) /\ Len(rest) = b.units - 1
  BY <1>1, <1>2
<1>4. <<b>> \in Seq(Unit) /\ Len(<<b>>) = 1
  BY <1>2
<1> HIDE DEF rest
<1>5. <<b>> \o rest \in Seq(Unit) /\ Len(<<b>> \o rest) = Len(<<b>>) + Len(rest)
  BY <1>3, <1>4, ConcatProperties
<1> QED
  BY <1>1, <1>3, <1>4, <1>5 DEF rest

LEMMA AppendWebmInv ==
  ASSUME RingInv, NEW b \in Blocks, AppendWebm(b)
  PROVE  RingInv' /\ begin <= begin' /\ end <= end' /\ generation <= generation'
<1> DEFINE units == <<b>> \o [k \in 1 .. b.units - 1 |-> Body]
<1>1. /\ b \in Block /\ b.units \in Nat /\ b.units >= 1 /\ b.units <= Capacity
      /\ b.pts \in Nat /\ b.video \in Nat
  BY InputAssumption, CapacityType DEF Block
<1>2. units \in Seq(Unit) /\ Len(units) = b.units
  BY <1>1, RecordUnits
<1>3. /\ begin \in Nat /\ end \in Nat /\ begin <= end /\ end - begin <= Capacity
      /\ scan \in Nat /\ scan <= end /\ latest \in Nat /\ generation \in Nat
      /\ marks \in Seq(Mark) /\ storage \in [Slots -> Cell] /\ mode = "webm" /\ op.at = "idle"
      /\ clock \in [have : BOOLEAN, ticks : Int, raw : Nat]
  BY DEF RingInv, TypeOK, Placed, AppendWebm
<1>4. \A i \in 1 .. Len(marks) : marks[i].offset < end
  BY DEF RingInv, MarksBehind
<1> DEFINE last == end + b.units
<1>l. last = end + b.units /\ last \in Nat /\ end < last
  BY <1>1, <1>3
<1> DEFINE Wrote(kept, newest, bottom, filled, marked) ==
             /\ storage' = Stored(units) /\ end' = last
             /\ latest' = Larger(newest, b.pts)
             /\ \E n \in 0 .. Len(marked) :
                  /\ Drops(marked, filled, FirstTime(Larger(newest, b.pts)), n)
                  /\ marks' = After(marked, n)
                  /\ begin' = IF n = Len(marked) THEN last
                              ELSE marked[n + 1].offset
<1>5. PICK kept \in {<<>>, marks}, newest \in {0, latest}, bottom \in {begin, end} :
        LET filled == StartAfter(bottom, b.units)
            marked == IF b.key
                      THEN Append(kept, [offset |-> end, pts |-> b.pts, random |-> TRUE])
                      ELSE kept
        IN  \/ /\ marks' = kept /\ latest' = newest /\ begin' = bottom
               /\ UNCHANGED <<storage, end>>
            \/ Wrote(kept, newest, bottom, filled, marked)
  <2> DEFINE reset == \/ webmVideo # 0 /\ b.video # webmVideo
                      \/ clock.have /\ \/ b.pts < latest /\ latest - b.pts > WebmBackJump
                                       \/ b.pts > latest /\ b.pts - latest > WebmForwardJump
             kept   == IF reset THEN <<>> ELSE marks
             newest == IF reset THEN 0 ELSE latest
             bottom == IF reset THEN end ELSE begin
             filled == StartAfter(bottom, b.units)
             marked == IF b.key
                       THEN Append(kept, [offset |-> end, pts |-> b.pts, random |-> TRUE])
                       ELSE kept
  <2>1. IF kept = <<>> /\ ~b.key
        THEN /\ marks' = kept /\ latest' = newest /\ begin' = bottom
             /\ UNCHANGED <<storage, end>>
        ELSE Wrote(kept, newest, bottom, filled, marked)
    BY DEF AppendWebm
  <2>2. kept \in {<<>>, marks} /\ newest \in {0, latest} /\ bottom \in {begin, end}
    OBVIOUS
  <2> HIDE DEF reset, Wrote
  <2>3. \/ /\ marks' = kept /\ latest' = newest /\ begin' = bottom
           /\ UNCHANGED <<storage, end>>
        \/ Wrote(kept, newest, bottom, filled, marked)
    BY <2>1
  <2> QED
    BY <2>2, <2>3
<1>6. /\ UNCHANGED <<mode, scan, synchronized, pids, parser, op, held>>
      /\ webmVideo' \in Nat /\ generation' \in Nat /\ generation <= generation'
      /\ clock' \in [have : BOOLEAN, ticks : Int, raw : Nat]
  <2>1. UNCHANGED <<mode, scan, synchronized, pids, parser, op, held>>
    BY DEF AppendWebm
  <2>2. /\ webmVideo' = b.video /\ generation' \in {generation, generation + 1}
        /\ clock' = [clock EXCEPT !.have = TRUE]
    BY DEF AppendWebm
  <2>3. webmVideo' \in Nat /\ generation' \in Nat /\ generation <= generation'
    BY <1>1, <1>3, <2>2
  <2>4. clock' \in [have : BOOLEAN, ticks : Int, raw : Nat]
    BY <1>3, <2>2
  <2> QED
    BY <2>1, <2>3, <2>4
<1>7. kept \in Seq(Mark) /\ Len(kept) \in Nat /\ newest \in Nat /\ bottom \in begin .. end
  <2>1. kept \in Seq(Mark)
    BY <1>3, EmptySeq
  <2>2. Len(kept) \in Nat
    BY <2>1, LenProperties
  <2>3. newest \in Nat /\ bottom \in begin .. end
    BY <1>3
  <2> QED
    BY <2>1, <2>2, <2>3
<1>8. \A i \in 1 .. Len(kept) : kept[i].offset < end
  BY <1>4, EmptySeq
<1> HIDE DEF units, last
<1>9. CASE /\ marks' = kept /\ latest' = newest /\ begin' = bottom
           /\ UNCHANGED <<storage, end>>
  <2>1. begin' \in Nat /\ begin <= begin' /\ begin' <= end
    BY <1>3, <1>7, <1>9
  <2>2. TypeOK'
    BY <1>6, <1>7, <1>9, <2>1 DEF RingInv, TypeOK
  <2>3. Placed'
    BY <1>3, <1>6, <1>9, <2>1, LaterFits DEF Placed
  <2>4. Intact' /\ PacketsOnly'
    BY <1>3, <1>6, <1>9, <2>1, LaterStart DEF RingInv, PacketsOnly
  <2>5. MarksBehind'
    BY <1>3, <1>6, <1>8, <1>9 DEF MarksBehind
  <2>6. end <= end'
    BY <1>3, <1>9
  <2> QED
    BY <1>6, <2>1, <2>2, <2>3, <2>4, <2>5, <2>6 DEF RingInv
<1>10. ASSUME NEW marked, NEW filled, filled = StartAfter(bottom, b.units),
              marked = IF b.key
                       THEN Append(kept, [offset |-> end, pts |-> b.pts, random |-> TRUE])
                       ELSE kept,
              Wrote(kept, newest, bottom, filled, marked)
       PROVE  RingInv' /\ begin <= begin' /\ end <= end' /\ generation <= generation'
  <2>1. /\ filled \in Nat /\ begin <= filled /\ filled <= last
        /\ last - filled <= Capacity
    <3>1. b.units \in 0 .. Capacity
      BY <1>1, CapacityType
    <3>2. /\ filled \in Nat /\ bottom <= filled /\ filled <= last
          /\ last - filled <= Capacity
      <4>1. filled = StartAfter(bottom, b.units)
        BY <1>10
      <4>2. /\ filled \in Nat /\ bottom <= filled /\ filled <= end + b.units
            /\ end + b.units - filled <= Capacity
        <5>1. begin \in Nat /\ end \in Nat /\ begin <= end
          BY <1>3
        <5> HIDE DEF Wrote
        <5> QED
          BY <1>7, <3>1, <4>1, <5>1, StartAfterBounds
      <4>3. end \in Nat /\ b.units \in Nat /\ Capacity \in Nat
        BY <1>1, <1>3, CapacityType
      <4> QED
        BY <1>l, <4>2, <4>3
    <3> QED
      BY <1>3, <1>7, <3>2
  <2>2. /\ marked \in Seq(Mark) /\ Len(marked) \in Nat
        /\ \A i \in 1 .. Len(marked) : marked[i].offset < last
    <3> DEFINE picture == [offset |-> end, pts |-> b.pts, random |-> TRUE]
    <3>1. picture \in Mark
      BY <1>1, <1>3 DEF Mark
    <3>2. \A i \in 1 .. Len(kept) : kept[i].offset < last
      <4> SUFFICES ASSUME NEW i \in 1 .. Len(kept)
                   PROVE  kept[i].offset < last
        OBVIOUS
      <4>1. kept[i].offset \in Nat /\ kept[i].offset < end
        BY <1>7, <1>8, MarkTypes
      <4> QED
        BY <1>l, <1>3, <4>1
    <3>3. CASE ~b.key
      BY <1>7, <1>10, <3>2, <3>3
    <3>4. CASE b.key
      <4>1. marked = Append(kept, picture)
        BY <1>10, <3>4
      <4>2. picture.offset < last
        BY <1>l, <1>3
      <4> HIDE DEF picture
      <4>3. /\ marked \in Seq(Mark) /\ Len(marked) = Len(kept) + 1
            /\ \A j \in 1 .. Len(kept) : marked[j] = kept[j]
            /\ marked[Len(kept) + 1] = picture
        BY <1>7, <3>1, <4>1, AppendProperties
      <4>4. \A i \in 1 .. Len(marked) : i = Len(kept) + 1 \/ i \in 1 .. Len(kept)
        BY <1>7, <4>3
      <4> QED
        BY <1>7, <3>2, <4>2, <4>3, <4>4
    <3> QED
      BY <3>3, <3>4
  <2>3. PICK n \in 0 .. Len(marked) :
          /\ Drops(marked, filled, FirstTime(Larger(newest, b.pts)), n)
          /\ marks' = After(marked, n)
          /\ begin' = IF n = Len(marked) THEN last ELSE marked[n + 1].offset
    BY <1>10
  <2>4. storage' = Stored(units) /\ end' = last /\ latest' = Larger(newest, b.pts)
    BY <1>10
  <2>5. begin' \in Nat /\ filled <= begin' /\ begin' <= last
    <3>1. CASE n = Len(marked)
      <4>1. begin' = last
        BY <2>3, <3>1
      <4> QED
        BY <1>l, <2>1, <4>1
    <3>2. CASE n # Len(marked)
      <4>1. n + 1 \in 1 .. Len(marked) /\ n < Len(marked)
        BY <2>2, <3>2
      <4>2. ~(marked[n + 1].offset < filled)
        BY <2>3, <4>1 DEF Drops, Stale
      <4>3. begin' = marked[n + 1].offset
        BY <2>3, <3>2
      <4>4. marked[n + 1].offset \in Nat /\ marked[n + 1].offset < last
        BY <2>2, <4>1, MarkTypes
      <4> QED
        BY <1>l, <2>1, <4>2, <4>3, <4>4
    <3> QED
      BY <3>1, <3>2
  <2>6. begin <= begin' /\ last - begin' <= Capacity
    <3>2. last - begin' <= Capacity
      BY <1>l, <2>1, <2>5, LaterFits
    <3> QED
      BY <1>3, <2>1, <2>5, <3>2
  <2>7. marks' \in Seq(Mark) /\ latest' \in Nat
    <3>1. marks' \in Seq(Mark)
      BY <2>2, <2>3, AfterMarks
    <3>2. b.pts \in Int
      BY <1>1
    <3> QED
      BY <1>7, <2>4, <3>1, <3>2, LargerType
  <2>8. Stored(units) \in [Slots -> Cell]
    BY <1>1, <1>2, <1>3, StoredCells
  <2>9. TypeOK'
    <3>1. end' \in Nat
      BY <1>l, <2>4
    <3>2. storage' \in [Slots -> Cell]
      BY <2>4, <2>8
    <3> QED
      BY <1>6, <2>5, <2>7, <3>1, <3>2 DEF RingInv, TypeOK
  <2>10. Placed'
    <3>1. scan <= end' /\ begin' <= end' /\ end' - begin' <= Capacity
      BY <1>l, <1>3, <2>4, <2>5, <2>6
    <3>2. op'.at = "idle" /\ scan' = scan
      BY <1>3, <1>6
    <3> QED
      BY <3>1, <3>2 DEF Placed
  <2>11. Intact'
    <3> SUFFICES ASSUME NEW o \in begin' .. last - 1
                 PROVE  Stored(units)[o % Capacity].at = o
      BY <2>4 DEF Intact
    <3>1. last = end + Len(units)
      BY <1>l, <1>2
    <3>2. Intact /\ Len(units) <= Capacity
      BY <1>1, <1>2 DEF RingInv
    <3> QED
      BY <1>2, <1>3, <2>5, <2>6, <3>1, <3>2, StoredUpTo
  <2>12. PacketsOnly'
    BY <1>3, <1>6 DEF PacketsOnly
  <2>13. MarksBehind'
    BY <1>3, <1>6, <2>2, <2>3, <2>4, KeptMarks DEF MarksBehind
  <2>14. end <= end'
    BY <1>l, <1>3, <2>4
  <2> QED
    BY <1>6, <2>6, <2>9, <2>10, <2>11, <2>12, <2>13, <2>14 DEF RingInv
<1> HIDE DEF Wrote
<1> QED
  BY <1>5, <1>9, <1>10

--------------------------------------------------------------------------------
LEMMA SetVideoPidInv ==
  ASSUME RingInv, NEW pid \in Pids, SetVideoPid(pid)
  PROVE  RingInv'
<1>1. /\ mode = "plain" /\ op.at = "idle" /\ pid \in Nat
      /\ UNCHANGED <<mode, parser, webmVideo, held>>
  BY RingAssumption DEF SetVideoPid
<1>2. CASE pid = pids.indexed
  <2>1. pids' = [pids EXCEPT !.video = pid] /\ UNCHANGED <<ringVars, timeVars, op>>
    BY <1>2 DEF SetVideoPid
  <2>2. pids' \in [video : Nat, indexed : Nat]
    BY <1>1, <2>1 DEF RingInv, TypeOK
  <2>3. TypeOK'
    BY <1>1, <2>1, <2>2 DEF RingInv, TypeOK, ringVars, timeVars
  <2> QED
    BY <1>1, <2>1, <2>3
    DEF RingInv, Placed, Intact, PacketsOnly, MarksBehind, ringVars, timeVars
<1>3. CASE pid # pids.indexed
  <2>1. /\ pids' = [video |-> pid, indexed |-> pid]
        /\ generation' \in {generation, generation + 1}
        /\ marks' = <<>> /\ latest' = 0 /\ scan' = begin /\ synchronized' = FALSE
        /\ clock' = [clock EXCEPT !.have = FALSE]
        /\ op' = [Idle EXCEPT !.at = "index"]
        /\ UNCHANGED <<storage, begin, end>>
    BY <1>3 DEF SetVideoPid
  <2>2. /\ op'.at = "index"
        /\ op' \in [at : {"idle", "write", "index", "replay", "trim", "finish"},
                    rest : Seq(Packet), reset : BOOLEAN]
    BY <2>1, EmptySeq DEF Idle
  <2>3. pids' \in [video : Nat, indexed : Nat] /\ generation' \in Nat
    BY <1>1, <2>1 DEF RingInv, TypeOK
  <2>4. clock' \in [have : BOOLEAN, ticks : Int, raw : Nat]
    BY <2>1 DEF RingInv, TypeOK
  <2>5. TypeOK'
    BY <1>1, <2>1, <2>2, <2>3, <2>4, EmptySeq DEF RingInv, TypeOK
  <2>6. Placed'
    BY <1>1, <2>1, <2>2 DEF RingInv, TypeOK, Placed
  <2>7. Intact' /\ PacketsOnly'
    BY <1>1, <2>1 DEF RingInv, Intact, PacketsOnly
  <2>8. MarksBehind'
    BY <2>1, EmptySeq DEF MarksBehind
  <2> QED
    BY <2>5, <2>6, <2>7, <2>8 DEF RingInv
<1> QED
  BY <1>2, <1>3

LEMMA DiscontinuityInv ==
  ASSUME RingInv, Discontinuity
  PROVE  RingInv'
<1>1. /\ op.at = "idle" /\ begin' = end /\ scan' = end /\ synchronized' = FALSE
      /\ marks' = <<>> /\ latest' = 0 /\ clock' = [clock EXCEPT !.have = FALSE]
      /\ generation' = generation + 1 /\ parser' \in {Restarted(parser), parser}
      /\ UNCHANGED <<mode, storage, end, pids, webmVideo, op, held>>
  BY DEF Discontinuity
<1>2. parser' \in Parser
  BY <1>1, RestartedType DEF RingInv, TypeOK
<1>3. generation' \in Nat /\ clock' \in [have : BOOLEAN, ticks : Int, raw : Nat]
  <2>1. generation' \in Nat
    BY <1>1 DEF RingInv, TypeOK
  <2>2. clock' \in [have : BOOLEAN, ticks : Int, raw : Nat]
    BY <1>1 DEF RingInv, TypeOK
  <2> QED
    BY <2>1, <2>2
<1>4. TypeOK'
  <2>1. marks' \in Seq(Mark)
    BY <1>1, EmptySeq
  <2>2. begin' \in Nat /\ scan' \in Nat /\ latest' \in Nat
    BY <1>1 DEF RingInv, TypeOK
  <2> QED
    BY <1>1, <1>2, <1>3, <2>1, <2>2 DEF RingInv, TypeOK
<1>5. Placed'
  <2>1. end - end <= Capacity /\ end <= end
    BY CapacityType DEF RingInv, TypeOK
  <2> QED
    BY <1>1, <2>1 DEF RingInv, Placed
<1>6. Intact' /\ PacketsOnly' /\ MarksBehind'
  <2>1. Intact'
    BY <1>1 DEF RingInv, TypeOK, Intact
  <2>2. PacketsOnly'
    BY <1>1 DEF RingInv, PacketsOnly
  <2> QED
    BY <1>1, <2>1, <2>2, EmptySeq DEF MarksBehind
<1> QED
  BY <1>4, <1>5, <1>6 DEF RingInv

LEMMA DiscardBeforeInv ==
  ASSUME RingInv, NEW pts, NEW gen, DiscardBefore(pts, gen)
  PROVE  RingInv' /\ begin <= begin'
<1>1. /\ op.at = "idle"
      /\ UNCHANGED <<mode, storage, end, scan, synchronized, generation, latest,
                     clock, pids, parser, webmVideo, op, held>>
  BY DEF DiscardBefore
<1>2. PICK n \in 1 .. Len(marks) :
        /\ marks' = After(marks, n)
        /\ begin' = Larger(begin, IF n = Len(marks) THEN end ELSE marks[n + 1].offset)
  BY DEF DiscardBefore
<1>3. /\ begin \in Nat /\ end \in Nat /\ begin <= end /\ end - begin <= Capacity
      /\ marks \in Seq(Mark) /\ Len(marks) \in Nat
  BY LenProperties DEF RingInv, TypeOK, Placed
<1>4. begin' \in Nat /\ begin <= begin' /\ begin' <= end
  <2>1. CASE n = Len(marks)
    BY <1>2, <1>3, <2>1 DEF Larger
  <2>2. CASE n # Len(marks)
    <3>1. n + 1 \in 1 .. Len(marks)
      BY <1>3, <2>2
    <3>2. marks[n + 1].offset \in Nat /\ marks[n + 1].offset < end
      BY <1>3, <3>1, MarkTypes DEF RingInv, MarksBehind
    <3>3. begin' = Larger(begin, marks[n + 1].offset)
      BY <1>2, <2>2
    <3> QED
      BY <1>3, <3>2, <3>3 DEF Larger
  <2> QED
    BY <2>1, <2>2
<1>5. n \in 0 .. Len(marks)
  BY <1>3
<1>6. TypeOK'
  <2>1. marks' \in Seq(Mark)
    BY <1>2, <1>3, <1>5, AfterMarks
  <2> QED
    BY <1>1, <1>4, <2>1 DEF RingInv, TypeOK
<1>7. Placed'
  <2>1. end - begin' <= Capacity
    BY <1>3, <1>4, LaterFits
  <2> QED
    BY <1>1, <1>4, <2>1 DEF RingInv, Placed
<1>8. Intact' /\ PacketsOnly'
  <2>1. Intact'
    BY <1>1, <1>3, <1>4, LaterStart DEF RingInv
  <2> QED
    BY <1>1, <2>1 DEF RingInv, PacketsOnly
<1>9. MarksBehind'
  <2>1. CASE mode = "webm"
    <3>1. \A i \in 1 .. Len(marks) : marks[i].offset < end
      BY DEF RingInv, MarksBehind
    <3>2. \A i \in 1 .. Len(marks') : marks'[i].offset < end
      BY <1>2, <1>3, <1>5, <3>1, KeptMarks
    <3> QED
      BY <1>1, <2>1, <3>2 DEF MarksBehind
  <2>2. CASE mode # "webm"
    <3>1. /\ \A i \in 1 .. Len(marks) : marks[i].offset < end
          /\ \A i \in 1 .. Len(marks) : marks[i].offset < scan
      BY <1>1, <2>2 DEF RingInv, MarksBehind
    <3>2. /\ \A i \in 1 .. Len(marks') : marks'[i].offset < end
          /\ \A i \in 1 .. Len(marks') : marks'[i].offset < scan
      BY <1>2, <1>3, <1>5, <3>1, KeptMarks
    <3> QED
      BY <1>1, <2>2, <3>2 DEF MarksBehind
  <2> QED
    BY <2>1, <2>2
<1> QED
  BY <1>4, <1>6, <1>7, <1>8, <1>9 DEF RingInv

\* seek() answers nothing, or an eligible picture of the index.
LEMMA SeekToEligible ==
  ASSUME RingInv, NEW wanted, NEW found \in SeekTo(wanted)
  PROVE  found # NoPosition => RangeTimed /\ \E i \in Eligible : found = PositionOf(i)
<1>1. \A S : Oldest(S) \subseteq S /\ Newest(S) \subseteq S
  BY DEF Oldest, Newest
<1> SUFFICES ASSUME found # NoPosition
             PROVE  RangeTimed /\ \E i \in Eligible : found = PositionOf(i)
  OBVIOUS
<1>2. RangeTimed
  BY DEF SeekTo
<1> DEFINE target   == Larger(FirstPts, Smaller(wanted, LastPts))
           led      == IF target > Lead THEN target - Lead ELSE 0
           early    == {i \in Eligible : /\ \A o \in Oldest(Eligible) : marks[o].pts <= marks[i].pts
                                         /\ marks[i].pts <= led}
           fallback == IF early = {} THEN Oldest(Eligible) ELSE Newest(early)
           flagged  == {i \in Eligible : marks[i].random /\ marks[i].pts <= target}
           random   == {i \in Newest(flagged) : mode = "webm" \/ target - marks[i].pts <= RandomReach}
<1>3. PICK i \in (IF random # {} THEN random ELSE fallback) : found = PositionOf(i)
  BY DEF SeekTo
<1>4. early \subseteq Eligible /\ flagged \subseteq Eligible
  OBVIOUS
<1>5. random \subseteq Newest(flagged)
  OBVIOUS
<1> HIDE DEF early, flagged, random
<1>6. fallback \subseteq Eligible
  BY <1>1, <1>4
<1> HIDE DEF fallback
<1>7. i \in Eligible
  BY <1>1, <1>3, <1>4, <1>5, <1>6
<1> QED
  BY <1>2, <1>3, <1>7

LEMMA SeekToMarks ==
  ASSUME RingInv, NEW wanted, NEW found \in SeekTo(wanted)
  PROVE  found = NoPosition \/ \E i \in 1 .. Len(marks) : found = PositionOf(i)
<1>1. DOMAIN marks = 1 .. Len(marks)
  BY LenProperties DEF RingInv, TypeOK
<1>2. Eligible \subseteq DOMAIN marks
  BY DEF Eligible
<1> QED
  BY <1>1, <1>2, SeekToEligible

LEMMA PositionType ==
  ASSUME RingInv, NEW i \in 1 .. Len(marks)
  PROVE  /\ PositionOf(i) \in [offset : Nat, pts : Nat \cup {NoPts}, generation : Nat]
         /\ PositionOf(i).offset < end
         /\ PositionOf(i).generation = generation
<1>1. marks[i].offset \in Nat /\ marks[i].pts \in Nat /\ generation \in Nat
  BY MarkTypes DEF RingInv, TypeOK
<1>2. marks[i].offset < end
  BY DEF RingInv, MarksBehind
<1> QED
  BY <1>1, <1>2 DEF PositionOf

LEMMA SeekInv ==
  ASSUME RingInv, NEW target, Seek(target)
  PROVE  RingInv'
<1>1. held' \in SeekTo(target)
      /\ UNCHANGED <<mode, ringVars, timeVars, pids, parser, webmVideo, op>>
  BY DEF Seek
<1>2. held' \in [offset : Nat, pts : Nat \cup {NoPts}, generation : Nat]
  <2>1. NoPosition \in [offset : Nat, pts : Nat \cup {NoPts}, generation : Nat]
    BY DEF NoPosition
  <2> QED
    BY <1>1, <2>1, SeekToMarks, PositionType
<1>3. TypeOK'
  BY <1>1, <1>2 DEF RingInv, TypeOK, ringVars, timeVars
<1> QED
  BY <1>1, <1>3 DEF RingInv, Placed, Intact, PacketsOnly, MarksBehind, ringVars, timeVars

--------------------------------------------------------------------------------
LEMMA NextInv == RingInv /\ [Next]_vars => RingInv'
<1> SUFFICES ASSUME RingInv, [Next]_vars
             PROVE  RingInv'
  OBVIOUS
<1>1. CASE \E input \in Inputs : AppendInput(input)
  BY <1>1, AppendInputInv
<1>2. CASE WriteChunk
  BY <1>2, WriteChunkInv
<1>3. CASE AppendEnds
  BY <1>3, AppendEndsInv
<1>4. CASE IndexEnds
  BY <1>4, IndexEndsInv
<1>5. CASE SkipUnit
  BY <1>5, SkipUnitInv
<1>6. CASE IndexPacket
  BY <1>6, IndexPacketInv
<1>7. CASE ScanSettings
  BY <1>7, ScanSettingsInv
<1>8. CASE Trim
  BY <1>8, TrimInv
<1>9. CASE \E b \in Blocks : AppendWebm(b)
  BY <1>9, AppendWebmInv
<1>10. CASE \E pid \in Pids : SetVideoPid(pid)
  BY <1>10, SetVideoPidInv
<1>11. CASE Discontinuity
  BY <1>11, DiscontinuityInv
<1>12. CASE \E pts \in Targets, gen \in 0 .. generation : DiscardBefore(pts, gen)
  BY <1>12, DiscardBeforeInv
<1>13. CASE \E target \in Targets : Seek(target)
  BY <1>13, SeekInv
<1>14. CASE UNCHANGED vars
  BY <1>14 DEF vars, RingInv, TypeOK, Placed, Intact, PacketsOnly, MarksBehind
<1> QED
  BY <1>1, <1>2, <1>3, <1>4, <1>5, <1>6, <1>7, <1>8, <1>9, <1>10, <1>11, <1>12,
     <1>13, <1>14 DEF Next

THEOREM RingInvariant == Spec => []RingInv
BY InitInv, NextInv, PTL DEF Spec

(* Every variable keeps its type, for every capacity, limit and input. *)
THEOREM TypeCorrect == Spec => []TypeOK
<1>1. RingInv => TypeOK
  BY DEF RingInv
<1> QED
  BY <1>1, RingInvariant, PTL

(* Whatever a reader copies under the mutex is one lap of the ring: every      *)
(* retained offset holds what the download wrote at that offset.               *)
THEOREM RingIsIntact == Spec => []RingIntact
<1>1. RingInv => RingIntact
  BY DEF RingInv, Placed, Intact, RingIntact
<1> QED
  BY <1>1, RingInvariant, PTL

--------------------------------------------------------------------------------
(***************************************************************************)
(* Retention moves forward.  A position may be kept for any time outside   *)
(* the mutex; it was inside the ring and of a past or present timeline     *)
(* when it was taken, so once it is refused it stays refused.              *)
(***************************************************************************)
HeldInv == held # NoPosition => held.offset < end /\ held.generation <= generation

LEMMA ForwardStep ==
  ASSUME RingInv, [Next]_vars
  PROVE  /\ begin' \in Nat /\ end' \in Nat /\ generation' \in Nat
         /\ begin <= begin' /\ end <= end' /\ generation <= generation'
<1>1. /\ begin' \in Nat /\ end' \in Nat /\ generation' \in Nat
      /\ begin \in Nat /\ end \in Nat /\ generation \in Nat /\ scan \in Nat
  BY NextInv DEF RingInv, TypeOK
<1> SUFFICES begin <= begin' /\ end <= end' /\ generation <= generation'
  BY <1>1
<1>2. CASE \/ \E input \in Inputs : AppendInput(input)
           \/ AppendEnds \/ IndexEnds \/ SkipUnit \/ UNCHANGED vars
           \/ \E target \in Targets : Seek(target)
  BY <1>1, <1>2 DEF AppendInput, AppendEnds, IndexEnds, SkipUnit, Seek, vars, ringVars, timeVars
<1>3. CASE WriteChunk
  <2>1. ChunkSize \in 0 .. Capacity
    <3>1. op.rest \in Seq(Packet)
      BY DEF RingInv, TypeOK
    <3>2. Len(op.rest) \in Nat
      BY <3>1, LenProperties
    <3> QED
      BY <3>2, CapacityType DEF ChunkSize, Smaller
  <2>2. begin <= StartAfter(begin, ChunkSize)
    BY <1>1, <2>1, StartAfterBounds DEF RingInv, Placed
  <2>3. begin' = StartAfter(begin, ChunkSize) /\ end' = end + ChunkSize
        /\ generation' = generation
    BY <1>3 DEF WriteChunk, timeVars
  <2> QED
    BY <1>1, <2>1, <2>2, <2>3
<1>4. CASE IndexPacket
  <2>1. begin' \in {begin, scan} /\ generation' \in {generation, generation + 1} /\ end' = end
    BY <1>4 DEF IndexPacket, MarkPicture
  <2>2. begin <= scan
    BY <1>4 DEF IndexPacket, RingInv, Placed
  <2> QED
    BY <1>1, <2>1, <2>2
<1>5. CASE ScanSettings
  <2>1. begin' \in {begin, scan} /\ generation' \in {generation, generation + 1} /\ end' = end
    BY <1>5 DEF ScanSettings
  <2>2. begin <= scan
    BY <1>5 DEF ScanSettings, RingInv, Placed
  <2> QED
    BY <1>1, <2>1, <2>2
<1>6. CASE Trim
  <2>1. PICK n \in 0 .. Len(marks) :
          begin' = IF n > 0 /\ n < Len(marks)
                   THEN Larger(begin, marks[n + 1].offset) ELSE begin
    BY <1>6 DEF Trim
  <2>2. generation' = generation /\ end' = end
    BY <1>6 DEF Trim
  <2>3. CASE n > 0 /\ n < Len(marks)
    <3>1. n + 1 \in 1 .. Len(marks)
      BY <2>3, LenProperties DEF RingInv, TypeOK
    <3>2. marks[n + 1].offset \in Nat
      BY <3>1, MarkTypes DEF RingInv, TypeOK
    <3> QED
      BY <1>1, <2>1, <2>2, <2>3, <3>2 DEF Larger
  <2>4. CASE ~(n > 0 /\ n < Len(marks))
    BY <1>1, <2>1, <2>2, <2>4
  <2> QED
    BY <2>3, <2>4
<1>7. CASE \E b \in Blocks : AppendWebm(b)
  BY <1>7, AppendWebmInv
<1>8. CASE \E pid \in Pids : SetVideoPid(pid)
  <2>1. begin' = begin /\ end' = end /\ generation' \in {generation, generation + 1}
    BY <1>8 DEF SetVideoPid, ringVars, timeVars
  <2> QED
    BY <1>1, <2>1
<1>9. CASE Discontinuity
  <2>1. begin <= end
    BY DEF RingInv, Placed
  <2> QED
    BY <1>1, <1>9, <2>1 DEF Discontinuity
<1>10. CASE \E pts \in Targets, gen \in 0 .. generation : DiscardBefore(pts, gen)
  <2>1. begin <= begin'
    BY <1>10, DiscardBeforeInv
  <2> QED
    BY <1>1, <1>10, <2>1 DEF DiscardBefore
<1> QED
  BY <1>2, <1>3, <1>4, <1>5, <1>6, <1>7, <1>8, <1>9, <1>10 DEF Next

LEMMA HeldStep ==
  ASSUME RingInv, HeldInv, [Next]_vars
  PROVE  HeldInv'
<1>1. /\ end \in Nat /\ end' \in Nat /\ generation \in Nat /\ generation' \in Nat
      /\ end <= end' /\ generation <= generation'
      /\ held.offset \in Nat /\ held.generation \in Nat
  <2>1. /\ end \in Nat /\ generation \in Nat
        /\ held.offset \in Nat /\ held.generation \in Nat
    BY DEF RingInv, TypeOK
  <2> QED
    BY <2>1, ForwardStep
<1>2. CASE held' = held
  <2> SUFFICES ASSUME held # NoPosition
               PROVE  held.offset < end' /\ held.generation <= generation'
    BY <1>2 DEF HeldInv, NoPosition
  <2>1. held.offset < end /\ held.generation <= generation
    BY DEF HeldInv
  <2> QED
    BY <1>1, <2>1
<1>3. CASE \E target \in Targets : Seek(target)
  <2>1. /\ end' = end /\ generation' = generation
        /\ \E target \in Targets : held' \in SeekTo(target)
    BY <1>3 DEF Seek, ringVars, timeVars
  <2>2. held' = NoPosition \/ \E i \in 1 .. Len(marks) : held' = PositionOf(i)
    BY <2>1, SeekToMarks
  <2>3. CASE held' = NoPosition
    BY <2>3 DEF HeldInv, NoPosition
  <2>4. CASE \E i \in 1 .. Len(marks) : held' = PositionOf(i)
    <3>1. held'.offset < end /\ held'.generation = generation
      BY <2>4, PositionType
    <3> QED
      BY <1>1, <2>1, <3>1 DEF HeldInv
  <2> QED
    BY <2>2, <2>3, <2>4
<1>4. held' = held \/ \E target \in Targets : Seek(target)
  BY DEF Next, vars, AppendInput, WriteChunk, AppendEnds, IndexEnds, SkipUnit, IndexPacket,
         ScanSettings, Trim, AppendWebm, SetVideoPid, Discontinuity, DiscardBefore
<1> QED
  BY <1>2, <1>3, <1>4

(* A position that reposition() has once refused because its bytes were        *)
(* overwritten, discarded or left behind by a new timeline is refused for ever. *)
THEOREM ExpiryIsFinal == Spec => ExpiredStaysExpired
<1>1. Init => HeldInv
  BY DEF Init, HeldInv
<1>2. RingInv /\ HeldInv /\ [Next]_vars
        => [held' = held /\ held # NoPosition /\ ~Retained(held) => ~Retained(held)']_vars
  <2> SUFFICES ASSUME RingInv, HeldInv, [Next]_vars,
                      held' = held, held # NoPosition, ~Retained(held), Retained(held)'
               PROVE  FALSE
    OBVIOUS
  <2>1. held.offset < end /\ held.generation <= generation
    BY DEF HeldInv
  <2>2. /\ held.generation = generation' /\ begin' <= held.offset
    BY DEF Retained
  <2>3. /\ held.offset \in Nat /\ held.generation \in Nat /\ begin \in Nat
        /\ end \in Nat /\ generation \in Nat
    BY DEF RingInv, TypeOK
  <2>4. generation = held.generation /\ begin <= held.offset
    BY <2>1, <2>2, <2>3, ForwardStep
  <2> QED
    BY <2>1, <2>4 DEF Retained
<1>3. RingInv /\ HeldInv /\ [Next]_vars => HeldInv'
  BY HeldStep
<1> QED
  BY <1>1, <1>2, <1>3, RingInvariant, PTL DEF Spec, ExpiredStaysExpired

--------------------------------------------------------------------------------
(***************************************************************************)
(* Between chunks the indexer has visited every unit but at most the last, *)
(* which waits for the next sync byte to confirm it.                       *)
(***************************************************************************)
CaughtUp ==
  mode # "webm" /\ op.at \in {"idle", "write", "finish"} => end <= scan + 1

LEMMA CaughtUpStep ==
  ASSUME RingInv, CaughtUp, [Next]_vars
  PROVE  CaughtUp'
<1>1. /\ end \in Nat /\ scan \in Nat /\ op.at \in {"idle", "write", "index", "replay", "trim", "finish"}
      /\ op \in [at : {"idle", "write", "index", "replay", "trim", "finish"},
                 rest : Seq(Packet), reset : BOOLEAN]
  BY DEF RingInv, TypeOK
<1>2. CASE /\ UNCHANGED <<mode, end, scan>>
           /\ op.at \in {"idle", "write", "finish"} \/ op'.at \notin {"idle", "write", "finish"}
  BY <1>2 DEF CaughtUp
<1>3. CASE IndexEnds
  <2>1. scan >= end \/ scan + 1 >= end
    BY <1>3 DEF IndexEnds
  <2>2. UNCHANGED <<mode, end, scan>>
    BY <1>3 DEF IndexEnds, ringVars
  <2> QED
    BY <1>1, <2>1, <2>2 DEF CaughtUp
<1>4. CASE mode' = "webm"
  BY <1>4 DEF CaughtUp
<1>5. CASE op'.at = "index"
  BY <1>5 DEF CaughtUp
<1>6. CASE Discontinuity
  BY <1>1, <1>6 DEF Discontinuity, CaughtUp
<1>7. CASE \E input \in Inputs : AppendInput(input)
  BY <1>2, <1>7 DEF AppendInput, ringVars
<1>8. CASE WriteChunk
  BY <1>1, <1>5, <1>8 DEF WriteChunk
<1>9. CASE AppendEnds
  BY <1>2, <1>9 DEF AppendEnds, ringVars
<1>10. CASE SkipUnit
  BY <1>5, <1>10 DEF SkipUnit
<1>11. CASE IndexPacket
  <2>1. op'.at \in {"replay", "trim"}
    BY <1>1, <1>11 DEF IndexPacket
  <2> QED
    BY <2>1 DEF CaughtUp
<1>12. CASE ScanSettings
  <2>1. op'.at = "trim"
    BY <1>1, <1>12 DEF ScanSettings
  <2> QED
    BY <2>1 DEF CaughtUp
<1>13. CASE Trim
  <2>1. CASE op.at = "trim"
    BY <1>1, <1>5, <1>13, <2>1 DEF Trim
  <2>2. CASE op.at = "finish"
    BY <1>2, <1>13, <2>2 DEF Trim
  <2> QED
    BY <1>13, <2>1, <2>2 DEF Trim
<1>14. CASE \E b \in Blocks : AppendWebm(b)
  BY <1>4, <1>14 DEF AppendWebm
<1>15. CASE \E pid \in Pids : SetVideoPid(pid)
  <2> PICK pid \in Pids : SetVideoPid(pid)
    BY <1>15
  <2>1. CASE pid = pids.indexed
    BY <1>2, <2>1 DEF SetVideoPid, ringVars
  <2>2. CASE pid # pids.indexed
    <3>1. op'.at = "index"
      BY <2>2 DEF SetVideoPid, Idle
    <3> QED
      BY <1>5, <3>1
  <2> QED
    BY <2>1, <2>2
<1>16. CASE \/ \E pts \in Targets, gen \in 0 .. generation : DiscardBefore(pts, gen)
            \/ \E target \in Targets : Seek(target)
  BY <1>2, <1>16 DEF DiscardBefore, Seek, ringVars
<1>17. CASE UNCHANGED vars
  BY <1>17 DEF vars, CaughtUp
<1> QED
  BY <1>3, <1>6, <1>7, <1>8, <1>9, <1>10, <1>11, <1>12, <1>13, <1>14, <1>15, <1>16, <1>17
  DEF Next

(* However large a download is, write() never takes the start of the ring past *)
(* what the indexer has seen: no unit is overwritten unread.                   *)
THEOREM NothingOverwrittenUnread == Spec => IndexedBeforeOverwritten
<1>1. Init => CaughtUp
  BY DEF Init, CaughtUp
<1>2. RingInv /\ CaughtUp /\ [Next]_vars
        => [mode # "webm" /\ end' # end => begin' <= Larger(scan, begin)]_vars
  <2> SUFFICES ASSUME RingInv, CaughtUp, Next, mode # "webm", end' # end
               PROVE  begin' <= Larger(scan, begin)
    BY DEF vars
  <2>1. WriteChunk
    BY DEF Next, AppendInput, AppendEnds, IndexEnds, SkipUnit, IndexPacket, ScanSettings, Trim,
           AppendWebm, SetVideoPid, Discontinuity, DiscardBefore, Seek, ringVars
  <2>2. /\ begin \in Nat /\ end \in Nat /\ scan \in Nat /\ end <= scan + 1
        /\ begin' = StartAfter(begin, ChunkSize)
    BY <2>1 DEF WriteChunk, RingInv, TypeOK, CaughtUp
  <2>3. ChunkSize \in Nat /\ ChunkSize + 1 <= Capacity
    <3>1. op.rest \in Seq(Packet)
      BY DEF RingInv, TypeOK
    <3>2. Len(op.rest) \in Nat
      BY <3>1, LenProperties
    <3> QED
      BY <3>2, RingAssumption DEF ChunkSize, Smaller
  <2>4. begin' = begin \/ begin' = end + ChunkSize - Capacity
    BY <2>2 DEF StartAfter
  <2>5. begin' <= begin \/ begin' <= scan
    BY <2>2, <2>3, <2>4, CapacityType
  <2> QED
    BY <2>2, <2>3, <2>4, <2>5, CapacityType DEF Larger
<1>3. RingInv /\ CaughtUp /\ [Next]_vars => CaughtUp'
  BY CaughtUpStep
<1> QED
  BY <1>1, <1>2, <1>3, RingInvariant, PTL DEF Spec, IndexedBeforeOverwritten
================================================================================
