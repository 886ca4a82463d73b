------------------------- MODULE LivePlayback_proofs -------------------------
(***************************************************************************)
(* What the decoder is fed and when a seek is acknowledged: proofs for     *)
(* every channel, window, queue and number of keys.                        *)
(***************************************************************************)
EXTENDS LivePlayback, SequenceTheorems, WellFoundedInduction, TLAPS

(***************************************************************************)
(* The history: its chunks are numbered from its start, all of one         *)
(* timeline, and its marks lie inside it.                                  *)
(***************************************************************************)
Kept ==
  /\ history.begin <= history.end
  /\ history.marks \subseteq history.begin .. history.end - 1
  /\ Len(history.chunks) = history.end - history.begin
  /\ \A i \in 1 .. Len(history.chunks) :
       /\ history.chunks[i].at = history.begin + i - 1
       /\ history.chunks[i].generation = history.generation

(***************************************************************************)
(* The reader: the chunk that is being pushed is the one it stands at, and *)
(* it is there until the chunk after it has been downloaded.               *)
(***************************************************************************)
Pushing == worker.at \in {"push", "submit"}
Reader ==
  /\ worker.at = "reset" => worker.position # NoPosition
  /\ Pushing => /\ worker.chunk # NoChunk
                /\ worker.chunk.at = cursor.read
                /\ worker.chunk.generation = cursor.timeline
                /\ cursor.read < MaxOffset

\* Every seek taken is a key pressed; only seeks taken are told.
Counted ==
  /\ asked.seeks <= asked.presses
  /\ keys.pending => asked.seeks < asked.presses
  /\ asked.told <= asked.seeks

(***************************************************************************)
(* The decoder's generation: nothing queued is of a later one, a           *)
(* submission that will queue is of the current one, and a closed decoder  *)
(* holds nothing.                                                          *)
(***************************************************************************)
Fresh ==
  /\ backend.tag >= 1
  /\ \A i \in 1 .. Len(backend.queue) : backend.queue[i].tag <= backend.tag
  /\ backend.decoding.tag <= backend.tag /\ backend.shown.tag <= backend.tag
  /\ worker.at = "submit" => worker.tag <= backend.tag
  /\ worker.at = "submit" /\ ~backend.discard => worker.tag = backend.tag
  /\ worker.at = "submit" => IsOpen(backend)
  /\ ~IsOpen(backend) =>
       /\ backend.queue = <<>> /\ backend.decoding = NoPicture
       /\ backend.last = NoPicture /\ ~backend.discard

(***************************************************************************)
(* A pause the decoder has not been given yet: everything queued is of an  *)
(* older generation, and the reader feeds nothing new before its reset,    *)
(* which gives the pause.                                                  *)
(***************************************************************************)
Quiet ==
  cursor.paused /\ ~backend.paused =>
    /\ \A i \in 1 .. Len(backend.queue) : backend.queue[i].tag # backend.tag
    /\ backend.discard \/ worker.at \in {"top", "lock", "check", "reset", "ended"}

\* What was fed last is the chunk before the reader, in the current generation.
Fed ==
  /\ backend.discard => backend.last = NoPicture
  /\ backend.last # NoPicture =>
       /\ backend.last.at + 1 = cursor.read
       /\ backend.last.generation = cursor.timeline
       /\ backend.last.tag = backend.tag

(***************************************************************************)
(* Where the last seek the decoder was told about is: still a request, in  *)
(* the reader's hands, kept for another decoder, or answered by the        *)
(* timeline the decoder plays.  Nothing of the current generation is       *)
(* older than it.                                                          *)
(***************************************************************************)
Holding == worker.at \in {"check", "reset"} /\ worker.position # NoPosition
Asked ==
  /\ worker.at \in Reading => request = NoPosition
  /\ request # NoPosition => request.seek >= asked.told
  /\ Holding => worker.position.seek >= asked.told
  /\ reopen.position # NoPosition =>
       /\ worker.at = "ended"
       /\ request # NoPosition \/ reopen.position.seek >= asked.told
  /\ request = NoPosition /\ ~Holding => backend.seek >= asked.told
  /\ worker.at \in {"read", "push", "submit"} =>
       backend.seek >= asked.told \/ backend.discard
\* A decoder being replaced for good has a place to start at.
Replacing == owner \in {"close", "close_drain"} => reopen.position # NoPosition
Answering ==
  /\ \A i \in 1 .. Len(backend.queue) :
       backend.queue[i].tag = backend.tag => backend.queue[i].seek >= asked.told
  /\ backend.decoding.tag = backend.tag => backend.decoding.seek >= asked.told
  /\ backend.shown.tag = backend.tag => backend.shown.seek >= asked.told

LiveInv ==
  /\ TypeOK /\ Kept /\ Reader /\ Counted /\ Fresh /\ Quiet /\ Fed
  /\ Asked /\ Replacing /\ Answering

--------------------------------------------------------------------------------
(* Where a window and the one before it, which began at first and ended    *)
(* one chunk earlier, have an offset that both cover. *)
LEMMA PlaceOf ==
  ASSUME NEW o \in Int, NEW first \in Int, NEW from \in Int, NEW end \in Int,
         first <= from, from <= o, o <= end - 1
  PROVE  /\ o - from + 1 \in 1 .. end + 1 - from /\ o - first + 1 \in 1 .. end - first
         /\ from - first + (o - from + 1) = o - first + 1
OBVIOUS

(* A set of offsets has a least and a greatest element. *)
LEMMA HasLeast ==
  ASSUME NEW S \in SUBSET Nat, S # {}
  PROVE  \E x \in S : \A y \in S : x <= y
<1> DEFINE R == {p \in Nat \X Nat : p[1] < p[2]}
<1>1. IsWellFoundedOn(R, Nat)
  BY NatLessThanWellFounded DEF OpToRel
<1>2. \A x, y \in S : <<y, x>> \in R <=> y < x
  OBVIOUS
<1> HIDE DEF R
<1>3. \E x \in S : \A y \in S : ~ (<<y, x>> \in R)
  BY <1>1, WFMin
<1>4. \E x \in S : \A y \in S : ~ (y < x)
  BY <1>2, <1>3
<1>5. S \subseteq Nat
  OBVIOUS
<1> QED
  BY <1>4, <1>5

LEMMA MinFact ==
  ASSUME NEW S \in SUBSET Nat, S # {}
  PROVE  Min(S) \in S /\ \A y \in S : Min(S) <= y
BY HasLeast DEF Min

LEMMA MaxFact ==
  ASSUME NEW N \in Nat, NEW S \in SUBSET (0 .. N), S # {}
  PROVE  Max(S) \in S /\ \A y \in S : y <= Max(S)
<1> DEFINE T == {N - x : x \in S}
<1>0. \A x \in S : x \in Int /\ 0 <= x /\ x <= N
  OBVIOUS
<1>1. T \in SUBSET Nat /\ T # {}
  <2>1. \A x \in S : N - x \in Nat
    BY <1>0
  <2> QED
    BY <2>1
<1>2. PICK t \in T : \A y \in T : t <= y
  BY <1>1, HasLeast
<1>3. PICK x \in S : t = N - x
  BY <1>2
<1>4. \A y \in S : N - y \in T
  OBVIOUS
<1>5. \A y \in S : N - x <= N - y
  BY <1>2, <1>3, <1>4
<1> HIDE DEF T
<1>7. \A y \in S : x \in Int /\ y \in Int
  BY <1>3, <1>0
<1>8. \A y \in S : y <= x
  BY <1>5, <1>7
<1>9. \E m \in S : \A y \in S : m >= y
  BY <1>3, <1>8, <1>7
<1>10. Max(S) \in S /\ \A y \in S : Max(S) >= y
  BY <1>9 DEF Max
<1>11. Max(S) \in Int /\ \A y \in S : y \in Int
  BY <1>10, <1>0
<1> QED
  BY <1>10, <1>11

LEMMA PairMax ==
  ASSUME NEW a \in Nat, NEW b \in Int
  PROVE  /\ Max({a, b}) \in {a, b}
         /\ Max({a, b}) >= a /\ Max({a, b}) >= b
<1>1. \E m \in {a, b} : \A y \in {a, b} : m >= y
  <2>1. CASE a >= b
    BY <2>1
  <2>2. CASE b >= a
    BY <2>2
  <2> QED
    BY <2>1, <2>2
<1>2. Max({a, b}) \in {a, b} /\ \A y \in {a, b} : Max({a, b}) >= y
  BY <1>1 DEF Max
<1> QED
  BY <1>2

LEMMA Bounds == MaxOffset \in Nat /\ MaxGeneration \in Nat /\ MaxPresses \in Nat /\ Window \in Nat \ {0}
BY LiveAssumption

--------------------------------------------------------------------------------
(***************************************************************************)
(* The history.                                                            *)
(***************************************************************************)
LEMMA MarksFact ==
  ASSUME NEW h \in Histories, Timed(h)
  PROVE  /\ Min(h.marks) \in h.marks /\ Max(h.marks) \in h.marks
         /\ Min(h.marks) \in Offset /\ Max(h.marks) \in Offset
         /\ \A m \in h.marks : Min(h.marks) <= m /\ m <= Max(h.marks)
<1>1. h.marks \in SUBSET (0 .. MaxOffset) /\ h.marks # {}
  BY DEF Histories, Offset, Timed
<1>2. h.marks \in SUBSET Nat
  BY <1>1, Bounds
<1> QED
  BY <1>1, <1>2, MinFact, MaxFact, Bounds DEF Offset

(* Timeshift::seek answers with a retained picture, under the seek's number. *)
LEMMA SeekToFact ==
  ASSUME NEW h \in Histories, Timed(h), NEW t \in Int, NEW n \in 0 .. MaxPresses
  PROVE  /\ SeekTo(h, t, n) \in Position
         /\ SeekTo(h, t, n) # NoPosition
         /\ SeekTo(h, t, n).seek = n
<1> DEFINE time == IF t < Min(h.marks) THEN Min(h.marks)
                   ELSE IF t > Max(h.marks) THEN Max(h.marks) ELSE t
           found == {m \in h.marks : m <= time}
<1>1. /\ Min(h.marks) \in h.marks /\ Min(h.marks) \in Offset /\ Max(h.marks) \in Offset
      /\ Min(h.marks) <= Max(h.marks)
  BY MarksFact
<1>2. Min(h.marks) <= time
  <2>1. Min(h.marks) \in Int /\ Max(h.marks) \in Int /\ Min(h.marks) <= Max(h.marks)
    BY <1>1, Bounds DEF Offset
  <2> QED
    BY <2>1
<1>3. Min(h.marks) \in found
  BY <1>1, <1>2
<1>4. found \in SUBSET (0 .. MaxOffset)
  BY DEF Histories, Offset
<1> HIDE DEF found
<1>5. Max(found) \in 0 .. MaxOffset
  BY <1>3, <1>4, MaxFact, Bounds
<1>6. SeekTo(h, t, n) = [offset |-> Max(found), generation |-> h.generation, seek |-> n]
  BY DEF SeekTo, found
<1>7. h.generation \in 0 .. MaxGeneration
  BY DEF Histories
<1>8. SeekTo(h, t, n) \in Position /\ SeekTo(h, t, n).seek = n
  BY <1>5, <1>6, <1>7 DEF Position, Offset
<1>9. SeekTo(h, t, n).seek # Unset
  BY <1>8 DEF Unset
<1>10. NoPosition.seek = Unset
  BY DEF NoPosition
<1> QED
  BY <1>8, <1>9, <1>10

(* What Kept says, of any history. *)
KeptIn(h) ==
  /\ h.begin <= h.end
  /\ h.marks \subseteq h.begin .. h.end - 1
  /\ Len(h.chunks) = h.end - h.begin
  /\ \A i \in 1 .. Len(h.chunks) :
       /\ h.chunks[i].at = h.begin + i - 1
       /\ h.chunks[i].generation = h.generation

(* What an append adds, and what it leaves behind. *)
Slid(h, g) ==
  /\ g.generation = h.generation /\ g.end = h.end + 1
  /\ h.begin <= g.begin /\ g.end - g.begin <= Window
  /\ \A o \in g.begin .. h.end - 1 : ChunkAt(g, o) = ChunkAt(h, o)
  /\ g.marks \subseteq h.marks \cup {h.end}
  /\ \A m \in h.marks \ g.marks, k \in g.marks : m < k

LEMMA AppendedFact ==
  ASSUME NEW h \in Histories, KeptIn(h), h.end < MaxOffset,
         NEW chunk \in Chunk, chunk.at = h.end, chunk.generation = h.generation,
         NEW start \in BOOLEAN
  PROVE  /\ Appended(h, chunk, start) \in Histories /\ KeptIn(Appended(h, chunk, start))
         /\ Slid(h, Appended(h, chunk, start))
<1> DEFINE bottom == Max({h.begin, h.end + 1 - Window})
           all    == h.marks \cup (IF start THEN {h.end} ELSE {})
           marks  == {m \in all : m >= bottom}
           begin  == IF marks # all /\ marks # {} THEN Min(marks) ELSE bottom
           chunks == Append(h.chunks, chunk)
           kept   == SubSeq(chunks, begin - h.begin + 1, Len(chunks))
<1>1. /\ h.begin \in Nat /\ h.end \in Nat /\ h.begin <= h.end /\ h.end <= MaxOffset
      /\ h.marks \subseteq h.begin .. h.end - 1
      /\ h.chunks \in Seq(Chunk) /\ Len(h.chunks) = h.end - h.begin
  BY Bounds DEF Histories, KeptIn, Offset
<1>2. bottom \in h.begin .. h.end /\ h.end + 1 - Window <= bottom
  <2>1. /\ bottom \in {h.begin, h.end + 1 - Window}
        /\ bottom >= h.begin /\ bottom >= h.end + 1 - Window
    BY <1>1, PairMax, Bounds
  <2> HIDE DEF bottom
  <2> QED
    BY <1>1, <2>1, Bounds
<1> HIDE DEF bottom
<1>c. /\ marks \subseteq h.marks \cup {h.end}
      /\ \A m \in h.marks \ marks, k \in marks : m < k
  <2> SUFFICES ASSUME NEW m \in h.marks \ marks, NEW k \in marks
               PROVE  m < k
    BY DEF marks
  <2>1. m \in Int /\ k \in Int /\ ~(m >= bottom) /\ k >= bottom /\ bottom \in Int
    BY <1>1, <1>2
  <2> QED
    BY <2>1
<1>3. marks \subseteq bottom .. h.end
  BY <1>1, <1>2
<1>4. begin \in bottom .. h.end /\ \A m \in marks : begin <= m
  <2>1. CASE marks # all /\ marks # {}
    <3>1. marks \in SUBSET Nat
      BY <1>1, <1>2, <1>3
    <3>2. Min(marks) \in marks /\ \A m \in marks : Min(marks) <= m
      BY <2>1, <3>1, MinFact
    <3> QED
      BY <1>3, <2>1, <3>2
  <2>2. CASE ~(marks # all /\ marks # {})
    BY <1>1, <1>2, <1>3, <2>2
  <2> QED
    BY <2>1, <2>2
<1>5. marks \subseteq begin .. h.end
  BY <1>1, <1>2, <1>3, <1>4
<1>6. marks \subseteq Offset
  BY <1>1, <1>2, <1>3, Bounds DEF Offset
<1> HIDE DEF marks, begin
<1>7. begin \in Nat /\ h.begin <= begin /\ begin <= h.end
  BY <1>1, <1>2, <1>4
<1>8. /\ chunks \in Seq(Chunk) /\ Len(chunks) = h.end - h.begin + 1
      /\ \A i \in 1 .. Len(h.chunks) : chunks[i] = h.chunks[i]
      /\ chunks[Len(h.chunks) + 1] = chunk
  BY <1>1
<1>9. \A i \in 1 .. Len(chunks) :
        chunks[i].at = h.begin + i - 1 /\ chunks[i].generation = h.generation
  <2> SUFFICES ASSUME NEW i \in 1 .. Len(chunks)
               PROVE  chunks[i].at = h.begin + i - 1 /\ chunks[i].generation = h.generation
    OBVIOUS
  <2>1. CASE i \in 1 .. Len(h.chunks)
    BY <1>8, <2>1 DEF KeptIn
  <2>2. CASE i = Len(h.chunks) + 1
    BY <1>1, <1>8, <2>2
  <2> QED
    BY <1>1, <1>8, <2>1, <2>2
<1>a. Len(chunks) \in Nat /\ Len(chunks) = h.end - h.begin + 1
  BY <1>1, <1>8
<1>b. begin \in Nat /\ h.begin \in Nat /\ h.end \in Nat /\ h.begin <= begin /\ begin <= h.end
  BY <1>1, <1>7
<1> HIDE DEF chunks
<1>10. /\ kept \in Seq(Chunk) /\ Len(kept) = h.end + 1 - begin
       /\ \A i \in 1 .. Len(kept) : kept[i] = chunks[begin - h.begin + i]
  <2> DEFINE from == begin - h.begin + 1
  <2>1. /\ from \in Nat /\ from >= 1 /\ from <= Len(chunks) /\ Len(chunks) \in Nat
        /\ Len(chunks) - from + 1 = h.end + 1 - begin
    BY <1>a, <1>b
  <2>2. \A i \in 1 .. h.end + 1 - begin : from + i - 1 = begin - h.begin + i
    BY <1>b
  <2> HIDE DEF from
  <2>3. \A i \in from .. Len(chunks) : chunks[i] \in Chunk
    BY <1>8, <2>1, ElementOfSeq
  <2>4. /\ SubSeq(chunks, from, Len(chunks)) \in Seq(Chunk)
        /\ Len(SubSeq(chunks, from, Len(chunks))) = Len(chunks) - from + 1
        /\ \A i \in 1 .. Len(chunks) - from + 1 :
             SubSeq(chunks, from, Len(chunks))[i] = chunks[from + i - 1]
    BY <2>1, <2>3, SubSeqProperties
  <2>5. kept = SubSeq(chunks, from, Len(chunks))
    BY DEF from
  <2> HIDE DEF kept
  <2> QED
    BY <2>1, <2>2, <2>4, <2>5
<1> HIDE DEF kept
<1>11. \A i \in 1 .. Len(kept) : kept[i].at = begin + i - 1 /\ kept[i].generation = h.generation
  <2> SUFFICES ASSUME NEW i \in 1 .. Len(kept)
               PROVE  kept[i].at = begin + i - 1 /\ kept[i].generation = h.generation
    OBVIOUS
  <2> DEFINE j == begin - h.begin + i
  <2>1. j \in 1 .. Len(chunks) /\ h.begin + j - 1 = begin + i - 1
    <3>1. i \in Nat /\ i >= 1 /\ i <= h.end + 1 - begin
      BY <1>10, <1>b
    <3> QED
      BY <1>a, <1>b, <3>1
  <2>2. kept[i] = chunks[j]
    BY <1>10
  <2> HIDE DEF j
  <2> QED
    BY <1>9, <2>1, <2>2
<1>12. Appended(h, chunk, start) =
         [h EXCEPT !.end = @ + 1, !.marks = marks, !.begin = begin, !.chunks = kept]
  BY DEF Appended, kept, marks, begin, chunks, bottom
<1>13. h.end + 1 \in Offset /\ begin \in Offset
  BY <1>1, <1>7, Bounds DEF Offset
<1>14. Appended(h, chunk, start) \in Histories
  BY <1>6, <1>10, <1>12, <1>13 DEF Histories
<1>15. KeptIn(Appended(h, chunk, start))
  BY <1>1, <1>5, <1>7, <1>10, <1>11, <1>12, <1>14 DEF KeptIn, Histories
<1>16. ASSUME NEW o \in begin .. h.end - 1
       PROVE  kept[o - begin + 1] = h.chunks[o - h.begin + 1]
  <2>1. /\ o - begin + 1 \in 1 .. Len(kept) /\ o - h.begin + 1 \in 1 .. Len(h.chunks)
        /\ begin - h.begin + (o - begin + 1) = o - h.begin + 1
    <3>1. o \in Int /\ begin <= o /\ o <= h.end - 1
      BY <1>b
    <3>2. /\ begin \in Int /\ h.begin \in Int /\ h.end \in Int /\ h.begin <= begin
          /\ Len(h.chunks) = h.end - h.begin
      BY <1>1, <1>b
    <3>3. Len(kept) = h.end + 1 - begin
      BY <1>10
    <3>4. /\ o - begin + 1 \in 1 .. h.end + 1 - begin /\ o - h.begin + 1 \in 1 .. h.end - h.begin
          /\ begin - h.begin + (o - begin + 1) = o - h.begin + 1
      BY ONLY <3>1, <3>2, PlaceOf
    <3> QED
      BY ONLY <3>2, <3>3, <3>4
  <2> QED
    BY <1>8, <1>10, <2>1
<1>17. Slid(h, Appended(h, chunk, start))
  <2> DEFINE g == Appended(h, chunk, start)
  <2>1. /\ g.begin = begin /\ g.end = h.end + 1 /\ g.marks = marks /\ g.chunks = kept
        /\ g.generation = h.generation
    BY <1>12 DEF Histories
  <2>2. g.end - g.begin <= Window /\ h.begin <= g.begin
    BY <1>1, <1>2, <1>4, <1>b, <2>1, Bounds
  <2>3. \A o \in g.begin .. h.end - 1 : ChunkAt(g, o) = ChunkAt(h, o)
    BY <1>16, <2>1 DEF ChunkAt
  <2> QED
    BY <1>c, <2>1, <2>2, <2>3 DEF Slid
<1> QED
  BY <1>14, <1>15, <1>17

LEMMA DiscontinuedFact ==
  ASSUME NEW h \in Histories, h.generation < MaxGeneration
  PROVE  Discontinued(h) \in Histories /\ KeptIn(Discontinued(h))
<1>1. Discontinued(h) = [h EXCEPT !.begin = h.end, !.marks = {}, !.generation = h.generation + 1,
                                  !.chunks = <<>>]
  BY DEF Discontinued, Histories
<1>2. h.generation + 1 \in 0 .. MaxGeneration /\ h.end \in Nat
  BY Bounds DEF Histories, Offset
<1>3. <<>> \in Seq(Chunk) /\ Len(<<>>) = 0
  OBVIOUS
<1>4. Discontinued(h) \in Histories
  BY <1>1, <1>2, <1>3 DEF Histories
<1>5. /\ Discontinued(h).begin = h.end /\ Discontinued(h).end = h.end
      /\ Discontinued(h).marks = {} /\ Discontinued(h).chunks = <<>>
  BY <1>1 DEF Histories
<1>6. h.end - h.end = 0 /\ h.end <= h.end
  BY <1>2
<1>7. KeptIn(Discontinued(h))
  BY <1>3, <1>5, <1>6 DEF KeptIn
<1> QED
  BY <1>4, <1>7

(* A chunk read at a retained offset is the one that was numbered so. *)
LEMMA ReadFact ==
  ASSUME NEW h \in Histories, KeptIn(h), NEW o \in Nat, Readable(h, o)
  PROVE  /\ ChunkAt(h, o) \in Chunk /\ ChunkAt(h, o).at = o
         /\ ChunkAt(h, o).generation = h.generation /\ o < MaxOffset
<1>1. h.begin \in Nat /\ h.end \in Nat /\ h.end <= MaxOffset /\ h.chunks \in Seq(Chunk)
  BY Bounds DEF Histories, Offset
<1>2. o - h.begin + 1 \in 1 .. Len(h.chunks) /\ o < MaxOffset
  BY <1>1, Bounds DEF KeptIn, Readable
<1>3. h.begin + (o - h.begin + 1) - 1 = o
  BY <1>1
<1>4. ChunkAt(h, o) \in Chunk
  BY <1>1, <1>2, ElementOfSeq DEF ChunkAt
<1>5. ChunkAt(h, o).at = h.begin + (o - h.begin + 1) - 1 /\ ChunkAt(h, o).generation = h.generation
  BY <1>2 DEF KeptIn, ChunkAt
<1> QED
  BY <1>2, <1>3, <1>4, <1>5

--------------------------------------------------------------------------------
(***************************************************************************)
(* The decoder: what a reposition and a reset leave.                       *)
(***************************************************************************)
LEMMA NoPictureType == NoPicture \in Picture
BY Bounds DEF NoPicture, Picture, Offset

LEMMA RepositionedFact ==
  ASSUME NEW b \in Backends
  PROVE  /\ Repositioned(b) \in Backends
         /\ Repositioned(b).queue = b.queue /\ Repositioned(b).decoding = b.decoding
         /\ Repositioned(b).shown = b.shown /\ Repositioned(b).seek = b.seek
         /\ Repositioned(b).format = b.format
         /\ IsOpen(b) => /\ Repositioned(b).discard /\ ~Repositioned(b).paused
                         /\ Repositioned(b).tag = b.tag + 1
                         /\ Repositioned(b).last = NoPicture
         /\ ~IsOpen(b) => Repositioned(b) = b
<1>1. CASE IsOpen(b)
  <2>1. Repositioned(b) = [b EXCEPT !.discard = TRUE, !.tag = b.tag + 1, !.paused = FALSE, !.last = NoPicture]
    BY <1>1 DEF Repositioned, Backends
  <2>2. b.tag + 1 \in Nat
    BY DEF Backends
  <2>3. Repositioned(b) \in Backends
    BY <2>1, <2>2, NoPictureType DEF Backends
  <2> QED
    BY <1>1, <2>1, <2>3 DEF Backends
<1>2. CASE ~IsOpen(b)
  BY <1>2 DEF Repositioned, Backends
<1> QED
  BY <1>1, <1>2

LEMMA ResetFact ==
  ASSUME NEW b \in Backends, NEW n \in 0 .. MaxPresses
  PROVE  /\ Reset(b, n) \in Backends
         /\ Reset(b, n).queue = b.queue /\ Reset(b, n).decoding = b.decoding
         /\ Reset(b, n).shown = b.shown /\ Reset(b, n).seek = n
         /\ Reset(b, n).format = b.format
         /\ IsOpen(b) => /\ ~Reset(b, n).discard /\ Reset(b, n).tag = b.tag + 1
                         /\ Reset(b, n).last = NoPicture
                         /\ Reset(b, n).paused = b.paused
         /\ ~IsOpen(b) => Reset(b, n) = [b EXCEPT !.seek = n]
<1>1. CASE IsOpen(b)
  <2>1. Reset(b, n) = [b EXCEPT !.tag = b.tag + 1, !.discard = FALSE, !.seek = n, !.last = NoPicture]
    BY <1>1 DEF Reset, Backends
  <2>2. b.tag + 1 \in Nat
    BY DEF Backends
  <2>3. Reset(b, n) \in Backends
    BY <2>1, <2>2, NoPictureType DEF Backends
  <2> QED
    BY <1>1, <2>1, <2>3 DEF Backends
<1>2. CASE ~IsOpen(b)
  BY <1>2 DEF Reset, Backends
<1> QED
  BY <1>1, <1>2

LEMMA NewWorkerType == NewWorker \in Workers
<1>1. 0 \in Offset /\ 0 \in 0 .. MaxGeneration
  BY Bounds DEF Offset
<1>2. [begin |-> 0, generation |-> 0, first |-> 0] \in
         [begin : Offset, generation : 0 .. MaxGeneration, first : Offset]
  BY <1>1
<1>3. "top" \in Places
  BY DEF Places
<1> QED
  BY <1>1, <1>2, <1>3 DEF NewWorker, Workers

LEMMA GoesFact ==
  ASSUME NEW place \in Places, Goes(place)
  PROVE  worker' \in Workers /\ worker'.at = place /\ worker'.position = NoPosition
BY NewWorkerType DEF Goes, NewWorker, Workers

LEMMA NothingFact == Nothing \in {"top", "ended"} /\ Nothing \in Places
BY DEF Nothing, Places

(* The number of a position, and of none. *)
LEMMA PositionFact ==
  /\ NoPosition \notin Position
  /\ \A p \in Position \cup {NoPosition} : p # NoPosition => p \in Position
<1>1. \A p \in Position : p.seek \in 0 .. MaxPresses
  BY DEF Position
<1>2. NoPosition.seek = Unset
  BY DEF NoPosition
<1>3. Unset \notin 0 .. MaxPresses
  BY Bounds DEF Unset
<1> QED
  BY <1>1, <1>2, <1>3

(* Timeshift::seek for a window that may have nothing to start at. *)
LEMMA FirstKeptFact ==
  ASSUME TypeOK, NEW n \in 0 .. MaxPresses
  PROVE  /\ FirstKept(n) \in Position \cup {NoPosition}
         /\ Timed(history) => FirstKept(n) # NoPosition /\ FirstKept(n).seek = n
         /\ ~Timed(history) => FirstKept(n) = NoPosition
<1>1. history \in Histories /\ worker.range.first \in Int
  BY Bounds DEF TypeOK, Workers, Offset
<1>2. CASE Timed(history)
  BY <1>1, <1>2, SeekToFact DEF FirstKept
<1>3. CASE ~Timed(history)
  BY <1>3 DEF FirstKept
<1> QED
  BY <1>2, <1>3

(* What one UpdateLiveControls leaves of the decoder: its generation as it  *)
(* was, with no seek told, or a new one that throws its input away.         *)
LEMMA PollFact ==
  ASSUME TypeOK, Poll
  PROVE  /\ backend' \in Backends
         /\ backend'.queue = backend.queue /\ backend'.decoding = backend.decoding
         /\ backend'.shown = backend.shown /\ backend'.seek = backend.seek
         /\ backend'.format = backend.format
         /\ \/ /\ backend'.tag = backend.tag /\ backend'.discard = backend.discard
               /\ backend'.last = backend.last
               /\ ~(TakesSeek /\ IsOpen(backend))
            \/ /\ IsOpen(backend) /\ backend'.discard
               /\ backend'.tag > backend.tag /\ backend'.last = NoPicture
         /\ cursor'.paused /\ ~backend'.paused => cursor.paused /\ backend' = backend
<1> DEFINE b == AfterSeek
           c == [b EXCEPT !.paused = FALSE]
           d == [b EXCEPT !.paused = (keys.pause = 1)]
<1>1. /\ backend \in Backends /\ backend' = AfterPause
      /\ cursor'.paused = IF keys.pause # Unset THEN keys.pause = 1 ELSE cursor.paused /\ ~TakesSeek
      /\ backend.tag \in Nat
  BY DEF TypeOK, Poll, Backends
<1>2. /\ b \in Backends
      /\ b.queue = backend.queue /\ b.decoding = backend.decoding
      /\ b.shown = backend.shown /\ b.seek = backend.seek /\ b.format = backend.format
      /\ \/ b = backend /\ ~(TakesSeek /\ IsOpen(backend))
         \/ /\ IsOpen(backend) /\ b.discard
            /\ b.tag = backend.tag + 1 /\ b.last = NoPicture
  BY <1>1, RepositionedFact DEF AfterSeek
<1>3. ~TakesSeek => b = backend
  BY DEF AfterSeek
<1> HIDE DEF b
<1>4. /\ b.tag \in Nat
      /\ b.tag = backend.tag \/ b.tag = backend.tag + 1
  BY <1>2 DEF Backends
<1>5. CASE keys.pause = Unset
  <2>1. backend' = b
    BY <1>1, <1>5 DEF AfterPause, b
  <2>2. b.tag = backend.tag + 1 => b.tag > backend.tag
    BY <1>1
  <2> QED
    BY <1>1, <1>2, <1>3, <1>5, <2>1, <2>2
<1>6. CASE keys.pause # Unset /\ Resumes /\ Retired
  <2>1. backend' = Repositioned(c)
    BY <1>1, <1>6 DEF AfterPause, b
  <2>2. c \in Backends /\ c.queue = b.queue /\ c.decoding = b.decoding /\ c.shown = b.shown
        /\ c.seek = b.seek /\ c.format = b.format /\ c.tag = b.tag /\ c.discard = b.discard
        /\ c.last = b.last
    BY <1>2 DEF Backends
  <2> HIDE DEF c
  <2>3. IsOpen(c) <=> IsOpen(backend)
    BY <1>2, <2>2 DEF IsOpen
  <2>4. ~cursor'.paused
    <3>1. keys.pause # 1
      BY <1>6 DEF Resumes
    <3>2. cursor'.paused = (keys.pause = 1)
      BY <1>1, <1>6
    <3> QED
      BY <3>1, <3>2
  <2>5. b.tag + 1 > backend.tag
    BY <1>1, <1>4
  <2>6. CASE IsOpen(backend)
    BY <1>2, <2>1, <2>2, <2>3, <2>4, <2>5, <2>6, RepositionedFact
  <2>7. CASE ~IsOpen(backend)
    BY <1>2, <2>1, <2>2, <2>3, <2>4, <2>7, RepositionedFact
  <2> QED
    BY <2>6, <2>7
<1>7. CASE keys.pause # Unset /\ ~(Resumes /\ Retired)
  <2>1. backend' = d
    BY <1>1, <1>7 DEF AfterPause, b
  <2>2. d \in Backends /\ d.queue = b.queue /\ d.decoding = b.decoding /\ d.shown = b.shown
        /\ d.seek = b.seek /\ d.format = b.format /\ d.tag = b.tag /\ d.discard = b.discard
        /\ d.last = b.last /\ d.paused = (keys.pause = 1)
    BY <1>2 DEF Backends
  <2> HIDE DEF d
  <2>3. cursor'.paused => d.paused
    BY <1>1, <1>7, <2>2
  <2>4. b.tag = backend.tag + 1 => b.tag > backend.tag
    BY <1>1
  <2> QED
    BY <1>2, <2>1, <2>2, <2>3, <2>4
<1> QED
  BY <1>5, <1>6, <1>7

--------------------------------------------------------------------------------
(***************************************************************************)
(* The history keeps its shape, whatever arrives.                          *)
(***************************************************************************)
LEMMA ArrivalFact ==
  ASSUME TypeOK, Kept, Push
  PROVE  history' \in Histories /\ KeptIn(history') /\ Slid(history, history')
<1> DEFINE next == channel[history.end + 1]
           chunk == [at |-> history.end, format |-> next.format,
                     generation |-> history.generation]
<1>1. history \in Histories /\ KeptIn(history) /\ channel \in Channels
  BY DEF TypeOK, Kept, KeptIn
<1>2. channel \in Seq([format : Formats, start : BOOLEAN]) /\ Len(channel) <= MaxOffset
  BY <1>1, LiveAssumption
<1>3. history.end \in Nat /\ history.end < Len(channel) /\ Len(channel) \in Nat
  BY <1>1, <1>2, Bounds DEF Push, Histories, Offset
<1>4. history.end + 1 \in 1 .. Len(channel) /\ history.end < MaxOffset
  BY <1>2, <1>3, Bounds
<1>5. next \in [format : Formats, start : BOOLEAN]
  BY <1>2, <1>4, ElementOfSeq
<1>6. chunk \in Chunk /\ chunk.at = history.end /\ chunk.generation = history.generation
  BY <1>1, <1>5 DEF Chunk, Histories
<1>7. history' = Appended(history, chunk, next.start)
  BY DEF Push
<1> HIDE DEF chunk, next
<1> QED
  BY <1>1, <1>4, <1>5, <1>6, <1>7, AppendedFact

(* Only the download thread changes it. *)
LEMMA HistoryOwned ==
  ASSUME [Next]_vars
  PROVE  Push \/ Discontinuity \/ history' = history
BY DEF Next, Owner, Worker, Glance, TakeRequest, CheckPosition, ResetDecoder, ReadChunk,
       OpenDecoder, AskReopen, BeginSubmit, EndSubmit, Decoder, TakePicture, Present,
       Controls, Press, Poll, Over, Finish, Drained, Stopped, CannotResume, CloseDecoder,
       Restart, vars

LEMMA KeptNext ==
  ASSUME TypeOK, Kept, [Next]_vars
  PROVE  Kept' /\ history' \in Histories
<1>1. history \in Histories
  BY DEF TypeOK
<1>2. CASE Push
  BY <1>2, ArrivalFact DEF Kept, KeptIn
<1>3. CASE Discontinuity
  <2>1. history' = Discontinued(history) /\ history.generation < MaxGeneration
    BY <1>3 DEF Discontinuity
  <2> QED
    BY <1>1, <2>1, DiscontinuedFact DEF Kept, KeptIn
<1>4. CASE history' = history
  BY <1>1, <1>4 DEF Kept
<1> QED
  BY <1>2, <1>3, <1>4, HistoryOwned

--------------------------------------------------------------------------------
(***************************************************************************)
(* Type correctness.                                                       *)
(***************************************************************************)
KeySet == [target : Offset \cup {Unset}, pending : BOOLEAN, pause : {Unset, 0, 1}]
CursorSet == [read : Offset, timeline : 0 .. MaxGeneration, paused : BOOLEAN]
Owners == {"feed", "recover", "close", "drain", "recover_drain", "close_drain",
           "stop", "ended"}
ReopenSet == [position : Position \cup {NoPosition}, time : Offset \cup {Unset}]
AskedSet == [seeks : 0 .. MaxPresses, told : 0 .. MaxPresses,
             presses : 0 .. MaxPresses, raced : BOOLEAN]

LEMMA Types ==
  ASSUME TypeOK
  PROVE  /\ channel \in Channels /\ history \in Histories /\ keys \in KeySet
         /\ cursor \in CursorSet /\ request \in Position \cup {NoPosition}
         /\ reopen \in ReopenSet /\ worker \in Workers
         /\ backend \in Backends /\ Len(backend.queue) <= QueueLimit
         /\ asked \in AskedSet
BY DEF TypeOK, KeySet, CursorSet, ReopenSet, AskedSet

LEMMA ClampedFact ==
  ASSUME history \in Histories, Timed(history), NEW t \in Int
  PROVE  Clamped(t) \in Offset /\ Clamped(t) # Unset
<1>1. Min(history.marks) \in Offset /\ Max(history.marks) \in Offset
  BY MarksFact
<1>2. Min(history.marks) \in Int /\ Max(history.marks) \in Int /\ 0 <= Min(history.marks)
      /\ Max(history.marks) <= MaxOffset /\ Min(history.marks) <= MaxOffset
      /\ 0 <= Max(history.marks)
  BY <1>1, Bounds DEF Offset
<1> DEFINE low  == Min(history.marks)
           high == Max(history.marks)
           c    == IF t < low THEN low ELSE IF t > high THEN high ELSE t
<1>a. Clamped(t) = c
  BY DEF Clamped
<1>b. low \in Int /\ high \in Int /\ 0 <= low /\ low <= MaxOffset /\ 0 <= high /\ high <= MaxOffset
  BY <1>2
<1> HIDE DEF low, high
<1>3. c \in Int /\ 0 <= c /\ c <= MaxOffset
  BY <1>b, Bounds
<1> HIDE DEF c
<1>4. c \in Offset /\ c # Unset
  BY <1>3, Bounds DEF Offset, Unset
<1> QED
  BY <1>4, <1>a

LEMMA PressFact ==
  ASSUME TypeOK, Counted, Press
  PROVE  /\ keys' \in KeySet /\ asked' \in AskedSet
         /\ keys'.target = Unset => keys.target = Unset
         /\ asked' = [asked EXCEPT !.presses = @ + 1]
         /\ asked.presses < MaxPresses
<1>1. /\ history \in Histories /\ keys \in KeySet /\ asked \in AskedSet
      /\ backend \in Backends /\ Timed(history) /\ asked.presses < MaxPresses
      /\ asked' = [asked EXCEPT !.presses = @ + 1]
  BY Types DEF Press, Available, Pressed
<1>2. asked.presses + 1 \in 0 .. MaxPresses
  BY <1>1, Bounds DEF AskedSet
<1>3. asked' \in AskedSet
  BY <1>1, <1>2 DEF AskedSet
<1>4. ASSUME NEW step \in Steps,
             keys' = [target |-> Clamped(Clamped(IF keys.target # Unset THEN keys.target
                                                 ELSE backend.shown.at) + step),
                      pending |-> TRUE, pause |-> Unset]
      PROVE  keys' \in KeySet /\ keys'.target # Unset
  <2> DEFINE t == IF keys.target # Unset THEN keys.target ELSE backend.shown.at
             u == Clamped(t) + step
  <2>1. t \in Int
    <3>1. keys.target # Unset => keys.target \in Offset
      BY <1>1 DEF KeySet
    <3>2. backend.shown.at \in Offset
      BY <1>1 DEF Backends, Picture
    <3> QED
      BY <3>1, <3>2, Bounds DEF Offset
  <2>2. Clamped(t) \in Offset
    BY <1>1, <2>1, ClampedFact
  <2>3. u \in Int
    BY <2>2, Bounds, LiveAssumption DEF Offset
  <2>4. keys' = [target |-> Clamped(u), pending |-> TRUE, pause |-> Unset]
    BY <1>4
  <2> HIDE DEF t, u
  <2>5. Clamped(u) \in Offset /\ Clamped(u) # Unset
    BY <1>1, <2>3, ClampedFact
  <2> QED
    BY <2>4, <2>5 DEF KeySet
<1>5. ASSUME keys' = [target |-> Max(history.marks), pending |-> TRUE, pause |-> Unset]
      PROVE  keys' \in KeySet /\ keys'.target # Unset
  <2>1. Max(history.marks) \in Offset
    BY <1>1, MarksFact
  <2>2. Max(history.marks) # Unset
    BY <2>1, Bounds DEF Offset, Unset
  <2> QED
    BY <1>5, <2>1, <2>2 DEF KeySet
<1>6. ASSUME keys' = [keys EXCEPT !.pause = IF cursor.paused THEN 0 ELSE 1]
      PROVE  keys' \in KeySet /\ keys'.target = keys.target
  BY <1>1, <1>6 DEF KeySet
<1>7. /\ keys' \in KeySet
      /\ keys'.target = Unset => keys.target = Unset
  BY <1>4, <1>5, <1>6 DEF Press
<1> QED
  BY <1>1, <1>3, <1>7

LEMMA CountedNext ==
  ASSUME TypeOK, Counted, [Next]_vars
  PROVE  Counted' /\ asked' \in AskedSet /\ keys' \in KeySet
<1>1. asked \in AskedSet /\ keys \in KeySet /\ backend \in Backends /\ history \in Histories
  BY Types
<1>2. /\ asked.seeks \in Nat /\ asked.presses \in Nat /\ asked.told \in Nat
      /\ asked.seeks <= asked.presses /\ asked.told <= asked.seeks
      /\ asked.presses <= MaxPresses
      /\ keys.pending => asked.seeks < asked.presses
  BY <1>1, Bounds DEF AskedSet, Counted
<1>3. CASE Press
  <2>1. keys' \in KeySet /\ asked' \in AskedSet /\ asked' = [asked EXCEPT !.presses = @ + 1]
    BY <1>3, PressFact
  <2>2. /\ asked'.seeks = asked.seeks /\ asked'.told = asked.told
        /\ asked'.presses = asked.presses + 1
    BY <1>1, <2>1 DEF AskedSet
  <2>3. asked.seeks < asked.presses + 1
    BY <1>2
  <2>4. asked.seeks <= asked.presses + 1
    BY <1>2
  <2> QED
    BY <1>2, <2>1, <2>2, <2>3, <2>4 DEF Counted
<1>4. CASE Poll
  <2> DEFINE taken == asked.seeks + (IF TakesSeek THEN 1 ELSE 0)
             told == IF TakesSeek /\ IsOpen(backend) THEN taken ELSE asked.told
  <2>1. TakesSeek => keys.pending
    BY DEF TakesSeek
  <2>2. taken \in 0 .. MaxPresses /\ taken <= asked.presses /\ asked.told <= taken
    BY <1>2, <2>1, Bounds
  <2>3. told \in 0 .. MaxPresses /\ told <= taken
    BY <1>2, <2>2, Bounds
  <2>4. /\ asked' = [asked EXCEPT !.seeks = taken, !.told = told, !.raced = @ \/ ResumeMeetsPush]
        /\ keys' = [target |-> IF HasCurrentPicture(backend') THEN Unset ELSE keys.target,
                    pending |-> FALSE, pause |-> Unset]
    BY <1>4 DEF Poll
  <2> HIDE DEF taken, told
  <2>5. asked' \in AskedSet /\ asked'.seeks = taken /\ asked'.told = told
        /\ asked'.presses = asked.presses
    BY <1>1, <2>2, <2>3, <2>4 DEF AskedSet
  <2>6. keys' \in KeySet /\ ~keys'.pending
    BY <1>1, <2>4 DEF KeySet
  <2> QED
    BY <2>2, <2>3, <2>5, <2>6 DEF Counted
<1>5. CASE asked' = Forgotten /\ keys' = keys
  <2> DEFINE told == IF backend.seek < asked.told THEN backend.seek ELSE asked.told
  <2>1. told \in 0 .. MaxPresses /\ told <= asked.seeks
    BY <1>1, <1>2, Bounds DEF Backends
  <2>2. asked' = [asked EXCEPT !.told = told]
    BY <1>5 DEF Forgotten
  <2> HIDE DEF told
  <2>3. /\ asked' \in AskedSet /\ asked'.seeks = asked.seeks
        /\ asked'.presses = asked.presses /\ asked'.told = told
    BY <1>1, <2>1, <2>2 DEF AskedSet
  <2> QED
    BY <1>1, <1>2, <1>5, <2>1, <2>3 DEF Counted
<1>6. CASE asked' = asked /\ keys' = keys
  BY <1>1, <1>6 DEF Counted
<1>7. CASE Worker
  BY <1>5, <1>6, <1>7 DEF Worker, Glance, TakeRequest, CheckPosition, ResetDecoder, ReadChunk,
     OpenDecoder, AskReopen, BeginSubmit, EndSubmit
<1>8. CASE Owner \/ Decoder \/ Over \/ UNCHANGED vars
  BY <1>6, <1>8 DEF Owner, Push, Discontinuity, Finish, Drained, Stopped, CannotResume,
     CloseDecoder, Restart,
     Decoder, TakePicture, Present, Over, vars
<1> QED
  BY <1>3, <1>4, <1>7, <1>8 DEF Next, Controls

(* What the check of the position leads to. *)
LEMMA CheckFact ==
  ASSUME TypeOK, CheckPosition
  PROVE  /\ worker' \in Workers
         /\ \/ /\ worker'.at = "reset" /\ worker'.position \in Position
               /\ asked' = asked
               /\ worker'.position.seek =
                    IF worker.position # NoPosition THEN worker.position.seek ELSE asked.seeks
            \/ /\ worker'.at \in {"top", "ended", "read"}
               /\ worker'.at = "read" => ~cursor.paused
               /\ asked' = IF worker.position # NoPosition THEN Forgotten ELSE asked
<1> DEFINE wanted == IF worker.position # NoPosition /\ Outdated(worker.position)
                     THEN FirstKept(worker.position.seek) ELSE worker.position
           moved  == IF wanted = NoPosition /\ Behind /\ ~cursor.paused
                     THEN FirstKept(asked.seeks) ELSE wanted
<1>1. /\ worker \in Workers /\ worker.at = "check"
      /\ asked.seeks \in 0 .. MaxPresses
      /\ worker.position # NoPosition => worker.position \in Position
  BY Types, PositionFact DEF AskedSet, Workers, CheckPosition
<1>2. /\ IF moved # NoPosition
         THEN worker' = [worker EXCEPT !.at = "reset", !.position = moved]
         ELSE IF cursor.paused \/ Behind THEN Goes(Nothing)
         ELSE worker' = [worker EXCEPT !.at = "read"]
      /\ asked' = IF worker.position # NoPosition /\ moved = NoPosition THEN Forgotten ELSE asked
  BY DEF CheckPosition
<1>3. /\ wanted \in Position \cup {NoPosition}
      /\ worker.position = NoPosition => wanted = NoPosition
      /\ wanted # NoPosition => wanted.seek = worker.position.seek
      /\ worker.position # NoPosition /\ wanted = NoPosition => ~Timed(history)
  <2>1. worker.position # NoPosition => worker.position.seek \in 0 .. MaxPresses
    BY <1>1 DEF Position
  <2> QED
    BY <1>1, <2>1, FirstKeptFact
<1>4. /\ moved \in Position \cup {NoPosition}
      /\ moved # NoPosition =>
           moved.seek = IF worker.position # NoPosition THEN worker.position.seek ELSE asked.seeks
  BY <1>1, <1>3, FirstKeptFact
<1> HIDE DEF moved
<1>5. CASE moved # NoPosition
  <2>1. worker' = [worker EXCEPT !.at = "reset", !.position = moved] /\ asked' = asked
    BY <1>2, <1>5
  <2>2. moved \in Position /\ "reset" \in Places
    BY <1>4, <1>5 DEF Places
  <2>3. worker' \in Workers /\ worker'.at = "reset" /\ worker'.position = moved
    BY <1>1, <2>1, <2>2 DEF Workers
  <2> QED
    BY <1>4, <1>5, <2>1, <2>2, <2>3
<1>6. CASE moved = NoPosition
  <2>1. asked' = IF worker.position # NoPosition THEN Forgotten ELSE asked
    BY <1>2, <1>6
  <2>2. CASE cursor.paused \/ Behind
    <3>1. Goes(Nothing)
      BY <1>2, <1>6, <2>2
    <3>2. worker' \in Workers /\ worker'.at \in {"top", "ended"}
      BY <3>1, NothingFact, GoesFact
    <3> QED
      BY <2>1, <3>2
  <2>3. CASE ~(cursor.paused \/ Behind)
    <3>1. worker' = [worker EXCEPT !.at = "read"] /\ "read" \in Places
      BY <1>2, <1>6, <2>3 DEF Places
    <3>2. worker' \in Workers /\ worker'.at = "read"
      BY <1>1, <3>1 DEF Workers
    <3> QED
      BY <2>1, <2>3, <3>2
  <2> QED
    BY <2>2, <2>3
<1> QED
  BY <1>5, <1>6

(* The three ends of a reset: put back, kept for another decoder, done. *)
Back(p) ==
  /\ request' = p /\ backend' = Repositioned(backend) /\ Goes(Nothing)
  /\ cursor' = cursor /\ reopen' = reopen /\ result' = result
Kept4Another(p) ==
  /\ IsOpen(backend)
  /\ backend' = Reset(Repositioned(backend), p.seek)
  /\ reopen' = [reopen EXCEPT !.position = p] /\ result' = "reopen" /\ Goes("ended")
  /\ cursor' = cursor /\ request' = request
Done(p) ==
  /\ p.offset \in Offset
  /\ backend' = PausedAsAsked(Reset(Repositioned(backend), p.seek))
  /\ cursor' = [cursor EXCEPT !.read = p.offset, !.timeline = p.generation]
  /\ worker' = [worker EXCEPT !.at = "read"]
  /\ request' = request /\ reopen' = reopen /\ result' = result

LEMMA ResetCases ==
  ASSUME TypeOK, Reader, ResetDecoder
  PROVE  /\ worker.at = "reset" /\ worker.position \in Position
         /\ Back(worker.position) \/ Kept4Another(worker.position) \/ Done(worker.position)
<1>1. worker.at = "reset" /\ worker.position \in Position
  BY Types, PositionFact DEF Workers, Reader, ResetDecoder
<1>2. worker.position.offset \in Offset
  BY <1>1 DEF Position
<1>3. IsOpen(Repositioned(backend)) <=> IsOpen(backend)
  BY Types, RepositionedFact DEF IsOpen
<1> QED
  BY <1>1, <1>2, <1>3 DEF ResetDecoder, Back, Kept4Another, Done

LEMMA BothFact ==
  ASSUME NEW b \in Backends, NEW n \in 0 .. MaxPresses, NEW c, c = Reset(Repositioned(b), n)
  PROVE  /\ c \in Backends /\ c.queue = b.queue /\ c.decoding = b.decoding
         /\ c.shown = b.shown /\ c.format = b.format /\ c.seek = n
         /\ IsOpen(b) => c.tag > b.tag /\ c.last = NoPicture /\ ~c.discard
         /\ ~IsOpen(b) => c.tag = b.tag /\ c.last = b.last /\ c.discard = b.discard
<1> DEFINE r == Repositioned(b)
<1>1. /\ r \in Backends /\ r.queue = b.queue /\ r.decoding = b.decoding
      /\ r.shown = b.shown /\ r.format = b.format
      /\ IsOpen(b) => r.tag = b.tag + 1
      /\ ~IsOpen(b) => r = b
  BY RepositionedFact
<1>2. IsOpen(r) <=> IsOpen(b)
  BY <1>1 DEF IsOpen
<1> HIDE DEF r
<1>3. /\ c \in Backends /\ c.queue = b.queue /\ c.decoding = b.decoding
      /\ c.shown = b.shown /\ c.format = b.format /\ c.seek = n
      /\ IsOpen(r) => c.tag = r.tag + 1 /\ c.last = NoPicture /\ ~c.discard
      /\ ~IsOpen(r) => c = [r EXCEPT !.seek = n]
  BY <1>1, ResetFact DEF r
<1>4. CASE IsOpen(b)
  <2>1. r.tag = b.tag + 1 /\ c.tag = r.tag + 1 /\ b.tag \in Nat
    BY <1>1, <1>2, <1>3, <1>4 DEF Backends
  <2>2. c.tag > b.tag
    BY <2>1
  <2> QED
    BY <1>2, <1>3, <1>4, <2>2
<1>5. CASE ~IsOpen(b)
  <2>1. c = [b EXCEPT !.seek = n]
    BY <1>1, <1>2, <1>3, <1>5
  <2>2. c.tag = b.tag /\ c.last = b.last /\ c.discard = b.discard
    BY <2>1 DEF Backends
  <2> QED
    BY <1>3, <1>5, <2>2
<1> QED
  BY <1>4, <1>5

LEMMA DoneFact ==
  ASSUME TypeOK, NEW p \in Position, Done(p), worker.at = "reset"
  PROVE  /\ backend' \in Backends /\ backend'.queue = backend.queue
         /\ backend'.decoding = backend.decoding /\ backend'.shown = backend.shown
         /\ backend'.format = backend.format
         /\ backend'.seek = p.seek /\ backend'.paused = cursor.paused
         /\ IsOpen(backend) => /\ backend'.tag > backend.tag /\ backend'.last = NoPicture
                               /\ ~backend'.discard
         /\ ~IsOpen(backend) => /\ backend'.tag = backend.tag /\ backend'.last = backend.last
                                /\ backend'.discard = backend.discard
         /\ cursor' \in CursorSet /\ cursor'.paused = cursor.paused
         /\ worker' \in Workers /\ worker'.at = "read"
<1> DEFINE c == Reset(Repositioned(backend), p.seek)
<1>1. backend \in Backends /\ cursor \in CursorSet /\ worker \in Workers
  BY Types
<1>2. p.seek \in 0 .. MaxPresses /\ p.offset \in Offset /\ p.generation \in 0 .. MaxGeneration
  BY DEF Position
<1>3. /\ c \in Backends /\ c.queue = backend.queue /\ c.decoding = backend.decoding
      /\ c.shown = backend.shown /\ c.format = backend.format /\ c.seek = p.seek
      /\ IsOpen(backend) => c.tag > backend.tag /\ c.last = NoPicture /\ ~c.discard
      /\ ~IsOpen(backend) => /\ c.tag = backend.tag /\ c.last = backend.last
                             /\ c.discard = backend.discard
  BY <1>1, <1>2, BothFact
<1>4. backend' = [c EXCEPT !.paused = cursor.paused]
  BY DEF Done, PausedAsAsked
<1> HIDE DEF c
<1>5. /\ backend' \in Backends /\ backend'.queue = c.queue /\ backend'.decoding = c.decoding
      /\ backend'.shown = c.shown /\ backend'.format = c.format /\ backend'.seek = c.seek
      /\ backend'.tag = c.tag /\ backend'.last = c.last /\ backend'.discard = c.discard
      /\ backend'.paused = cursor.paused
  BY <1>1, <1>3, <1>4 DEF Backends, CursorSet
<1>6. cursor' \in CursorSet /\ cursor'.paused = cursor.paused
  BY <1>1, <1>2 DEF Done, CursorSet
<1>7. worker' \in Workers /\ worker'.at = "read"
  BY <1>1 DEF Done, Workers, Places
<1> QED
  BY <1>3, <1>5, <1>6, <1>7

(* Where playback resumes. *)
LEMMA ResumeFact ==
  ASSUME TypeOK
  PROVE  ResumePosition \in Position \cup {NoPosition}
<1>1. /\ backend \in Backends /\ reopen \in ReopenSet /\ history \in Histories
  BY Types
<1>2. CASE reopen.position # NoPosition
  BY <1>1, <1>2 DEF ResumePosition, ReopenSet
<1>3. CASE reopen.position = NoPosition /\ FromTime(reopen.time) = {}
  BY <1>3 DEF ResumePosition
<1>4. CASE reopen.position = NoPosition /\ FromTime(reopen.time) # {}
  <2>1. FromTime(reopen.time) \subseteq history.marks
    BY DEF FromTime
  <2>2. history.marks \subseteq Offset /\ Offset \subseteq Nat
    BY <1>1, Bounds DEF Histories, Offset
  <2>3. Min(FromTime(reopen.time)) \in Offset
    BY <1>4, <2>1, <2>2, MinFact
  <2>4. history.generation \in 0 .. MaxGeneration /\ backend.seek \in 0 .. MaxPresses
    BY <1>1 DEF Histories, Backends
  <2> QED
    BY <1>4, <2>3, <2>4 DEF ResumePosition, Position
<1> QED
  BY <1>2, <1>3, <1>4

(* Closing the old decoder keeps the place. *)
LEMMA CloseFact ==
  ASSUME TypeOK, CloseDecoder
  PROVE  /\ reopen' \in ReopenSet /\ reopen'.position = ResumePosition
         /\ ResumePosition # NoPosition /\ worker.at = "ended"
<1>1. /\ reopen \in ReopenSet /\ ResumePosition \in Position \cup {NoPosition}
      /\ reopen' = [reopen EXCEPT !.position = ResumePosition]
  BY Types, ResumeFact DEF CloseDecoder
<1> QED
  BY <1>1 DEF CloseDecoder, ReopenSet

(* What Restart leaves. *)
LEMMA RestartFact ==
  ASSUME TypeOK, Restart
  PROVE  /\ request' = StartsAt /\ request' \in Position \cup {NoPosition}
         /\ reopen' \in ReopenSet /\ reopen'.position = NoPosition
         /\ cursor' \in CursorSet /\ cursor'.paused = cursor.paused
         /\ worker' \in Workers /\ worker'.at = "top"
         /\ backend' \in Backends /\ ~IsOpen(backend')
         /\ backend'.tag = 1 /\ ~backend'.discard /\ ~backend'.paused
         /\ backend'.queue = <<>> /\ backend'.decoding = NoPicture
         /\ backend'.shown = [backend.shown EXCEPT !.tag = 0]
         /\ backend'.shown.tag = 0 /\ backend'.last = NoPicture /\ backend'.seek = 0
         /\ asked' = asked
<1>1. /\ backend \in Backends /\ cursor \in CursorSet /\ reopen \in ReopenSet
      /\ history \in Histories /\ request \in Position \cup {NoPosition}
  BY Types
<1>3. request' = StartsAt
  BY DEF Restart
<1>4. request' \in Position \cup {NoPosition}
  BY <1>1, <1>3 DEF StartsAt, ReopenSet
<1>5. reopen' \in ReopenSet /\ reopen'.position = NoPosition
  BY DEF Restart, ReopenSet
<1>6. cursor' \in CursorSet /\ cursor'.paused = cursor.paused
  BY <1>1 DEF Restart, CursorSet, Histories
<1>7. worker' \in Workers /\ worker'.at = "top"
  BY NewWorkerType DEF Restart, NewWorker
<1> DEFINE shown == [backend.shown EXCEPT !.tag = 0]
<1>8. shown \in Picture /\ shown.tag = 0
  BY <1>1 DEF Backends, Picture
<1>9. backend' = [NewBackend EXCEPT !.shown = shown]
  BY DEF Restart
<1> HIDE DEF shown
<1>10. NewBackend \in Backends
  <2>1. 1 \in Nat /\ 0 \in 0 .. MaxPresses /\ <<>> \in Seq(Picture)
    BY Bounds
  <2> QED
    BY <2>1, NoPictureType DEF NewBackend, Backends
<1>11. /\ backend' \in Backends /\ backend'.format = Closed /\ backend'.shown = shown
       /\ backend'.tag = 1 /\ ~backend'.discard /\ ~backend'.paused
       /\ backend'.queue = <<>> /\ backend'.decoding = NoPicture
       /\ backend'.last = NoPicture /\ backend'.seek = 0
  BY <1>8, <1>9, <1>10 DEF NewBackend, Backends
<1>12. asked' = asked
  BY DEF Restart
<1> QED
  BY <1>3, <1>4, <1>5, <1>6, <1>7, <1>8, <1>11, <1>12 DEF IsOpen, shown

(* What the end of a submission leaves. *)
LEMMA EndSubmitFact ==
  ASSUME TypeOK, Reader, EndSubmit
  PROVE  /\ backend' \in Backends /\ Len(backend'.queue) <= QueueLimit
         /\ worker' \in Workers /\ worker'.at = "top"
         /\ cursor' \in CursorSet /\ cursor' = [cursor EXCEPT !.read = @ + 1]
         /\ backend'.tag = backend.tag /\ backend'.paused = backend.paused
         /\ backend'.discard = backend.discard /\ backend'.format = backend.format
         /\ backend'.seek = backend.seek /\ backend'.decoding = backend.decoding
         /\ backend'.shown = backend.shown
         /\ backend.discard => backend' = backend
         /\ ~backend.discard =>
              /\ backend'.last = Submitted
              /\ \A i \in 1 .. Len(backend'.queue) :
                   \/ i \in 1 .. Len(backend.queue) /\ backend'.queue[i] = backend.queue[i]
                   \/ backend'.queue[i] = Submitted
         /\ Submitted \in Picture /\ Submitted.at = cursor.read
         /\ Submitted.generation = cursor.timeline /\ Submitted.tag = worker.tag
         /\ Submitted.seek = backend.seek /\ worker.at = "submit"
<1>1. /\ backend \in Backends /\ Len(backend.queue) <= QueueLimit
      /\ worker \in Workers /\ cursor \in CursorSet /\ worker.at = "submit"
      /\ worker.chunk \in Chunk
      /\ worker.chunk.at = cursor.read /\ worker.chunk.generation = cursor.timeline
      /\ cursor.read < MaxOffset
  <2>1. worker.at = "submit" /\ worker \in Workers
    BY Types DEF EndSubmit
  <2>2. worker.chunk \in Chunk
    BY <2>1 DEF Reader, Pushing, Workers
  <2> QED
    BY <2>1, <2>2, Types DEF Reader, Pushing
<1>2. /\ Submitted \in Picture /\ Submitted.at = cursor.read
      /\ Submitted.generation = cursor.timeline /\ Submitted.tag = worker.tag
      /\ Submitted.seek = backend.seek
  BY <1>1 DEF Submitted, Picture, Chunk, Workers, Backends
<1>3. worker' \in Workers /\ worker'.at = "top"
  BY GoesFact DEF EndSubmit, Places
<1>4. cursor.read + 1 \in Offset
  BY <1>1, Bounds DEF CursorSet, Offset
<1>5. cursor' = [cursor EXCEPT !.read = @ + 1] /\ cursor' \in CursorSet
  BY <1>1, <1>4 DEF EndSubmit, CursorSet
<1>6. CASE backend.discard
  <2>1. backend' = backend
    BY <1>6 DEF EndSubmit
  <2> QED
    BY <1>1, <1>2, <1>3, <1>5, <1>6, <2>1
<1>7. CASE ~backend.discard
  <2> DEFINE q == Append(backend.queue, Submitted)
  <2>1. backend' = [backend EXCEPT !.queue = q, !.last = Submitted] /\ HasRoom
    BY <1>7 DEF EndSubmit
  <2>2. backend.queue \in Seq(Picture)
    BY <1>1 DEF Backends
  <2>3. /\ q \in Seq(Picture) /\ Len(q) = Len(backend.queue) + 1
        /\ \A i \in 1 .. Len(backend.queue) : q[i] = backend.queue[i]
        /\ q[Len(backend.queue) + 1] = Submitted
    BY <1>2, <2>2, AppendProperties
  <2> HIDE DEF q
  <2>4. Len(backend.queue) \in Nat /\ Len(backend.queue) < QueueLimit
    BY <2>1, <2>2 DEF HasRoom
  <2>5. Len(q) <= QueueLimit
    <3>1. QueueLimit \in Nat
      BY LiveAssumption
    <3> QED
      BY <2>3, <2>4, <3>1
  <2>6. \A i \in 1 .. Len(q) : i \in 1 .. Len(backend.queue) \/ i = Len(backend.queue) + 1
    BY <2>3, <2>4
  <2>7. \A i \in 1 .. Len(q) :
          \/ i \in 1 .. Len(backend.queue) /\ q[i] = backend.queue[i]
          \/ q[i] = Submitted
    BY <2>3, <2>6
  <2>8. /\ backend' \in Backends /\ backend'.queue = q /\ backend'.last = Submitted
        /\ backend'.tag = backend.tag /\ backend'.paused = backend.paused
        /\ backend'.discard = backend.discard /\ backend'.format = backend.format
        /\ backend'.seek = backend.seek /\ backend'.decoding = backend.decoding
        /\ backend'.shown = backend.shown
    BY <1>1, <1>2, <2>1, <2>3 DEF Backends
  <2> QED
    BY <1>1, <1>2, <1>3, <1>5, <1>7, <2>5, <2>7, <2>8
<1> QED
  BY <1>6, <1>7

(* Taking a picture: the rest of the queue, and a picture of this generation. *)
LEMMA TakeFact ==
  ASSUME TypeOK, TakePicture
  PROVE  /\ backend' \in Backends /\ Len(backend'.queue) <= QueueLimit
         /\ backend'.tag = backend.tag /\ backend'.paused = backend.paused
         /\ backend'.discard = backend.discard /\ backend'.format = backend.format
         /\ backend'.seek = backend.seek /\ backend'.last = backend.last
         /\ backend'.shown = backend.shown
         /\ \A i \in 1 .. Len(backend'.queue) :
              i + 1 \in 1 .. Len(backend.queue) /\ backend'.queue[i] = backend.queue[i + 1]
         /\ \/ backend'.decoding = backend.decoding
            \/ /\ 1 \in 1 .. Len(backend.queue) /\ backend'.decoding = backend.queue[1]
               /\ backend.queue[1].tag = backend.tag
         /\ IsOpen(backend) /\ (~backend.paused \/ Closing)
<1> DEFINE q == backend.queue
<1>1. /\ backend \in Backends /\ Len(q) <= QueueLimit /\ q # <<>> /\ q \in Seq(Picture)
      /\ IsOpen(backend) /\ (~backend.paused \/ Closing)
      /\ backend' = [backend EXCEPT
                       !.queue = Tail(q),
                       !.decoding = IF IsCurrent(Head(q)) THEN Head(q) ELSE @]
  BY Types DEF TakePicture, DecoderRuns, Backends
<1> HIDE DEF q
<1>2. /\ Head(q) \in Picture /\ Tail(q) \in Seq(Picture) /\ Head(q) = q[1]
      /\ Len(Tail(q)) = Len(q) - 1
      /\ \A i \in 1 .. Len(Tail(q)) : Tail(q)[i] = q[i + 1]
  BY <1>1, HeadTailProperties
<1>3. Len(q) \in Nat /\ Len(q) # 0
  BY <1>1, EmptySeq
<1>4. 1 \in 1 .. Len(q) /\ Len(Tail(q)) <= QueueLimit
      /\ \A i \in 1 .. Len(Tail(q)) : i + 1 \in 1 .. Len(q)
  <2>1. QueueLimit \in Nat /\ Len(q) <= QueueLimit
    BY <1>1, LiveAssumption
  <2> QED
    BY <1>2, <1>3, <2>1
<1>5. /\ backend' \in Backends /\ backend'.queue = Tail(q)
      /\ backend'.tag = backend.tag /\ backend'.paused = backend.paused
      /\ backend'.discard = backend.discard /\ backend'.format = backend.format
      /\ backend'.seek = backend.seek /\ backend'.last = backend.last
      /\ backend'.shown = backend.shown
      /\ backend'.decoding = IF IsCurrent(Head(q)) THEN Head(q) ELSE backend.decoding
  BY <1>1, <1>2 DEF Backends
<1>6. \/ backend'.decoding = backend.decoding
      \/ backend'.decoding = q[1] /\ q[1].tag = backend.tag
  BY <1>2, <1>5 DEF IsCurrent
<1> QED
  BY <1>1, <1>2, <1>4, <1>5, <1>6 DEF q

(* Opening the decoder, and presenting a picture. *)
LEMMA OpenFact ==
  ASSUME TypeOK, Reader, OpenDecoder
  PROVE  /\ backend' \in Backends /\ ~IsOpen(backend)
         /\ \E format \in Formats : backend' = [backend EXCEPT !.format = format]
<1>1. /\ worker \in Workers /\ worker.at = "push" /\ worker.chunk # NoChunk /\ ~IsOpen(backend)
      /\ backend' = [backend EXCEPT !.format = worker.chunk.format] /\ backend \in Backends
  BY Types DEF OpenDecoder, Reader, Pushing
<1>2. worker.chunk.format \in Formats
  BY <1>1 DEF Workers, Chunk
<1>3. backend' \in Backends
  BY <1>1, <1>2 DEF Backends
<1> QED
  BY <1>1, <1>2, <1>3

LEMMA PresentFact ==
  ASSUME TypeOK, Present
  PROVE  /\ backend' \in Backends /\ backend'.queue = backend.queue
         /\ backend'.tag = backend.tag /\ backend'.paused = backend.paused
         /\ backend'.discard = backend.discard /\ backend'.format = backend.format
         /\ backend'.seek = backend.seek /\ backend'.last = backend.last
         /\ backend'.shown = backend.decoding /\ backend'.decoding = NoPicture
<1>1. backend \in Backends /\ backend' = [backend EXCEPT !.shown = backend.decoding, !.decoding = NoPicture]
  BY Types DEF Present
<1> QED
  BY <1>1, NoPictureType DEF Backends

LEMMA TypeNext ==
  ASSUME TypeOK, Kept, Reader, Counted, [Next]_vars
  PROVE  TypeOK'
<1>1. /\ history' \in Histories /\ asked' \in AskedSet /\ keys' \in KeySet
  BY KeptNext, CountedNext
<1>2. /\ channel \in Channels /\ cursor \in CursorSet /\ request \in Position \cup {NoPosition}
      /\ reopen \in ReopenSet /\ worker \in Workers
      /\ backend \in Backends /\ Len(backend.queue) <= QueueLimit /\ history \in Histories
      /\ result \in {"ok", "reopen"} /\ finished \in BOOLEAN
      /\ owner \in Owners
  BY Types DEF TypeOK, Owners
<1> DEFINE Rest == /\ channel' \in Channels /\ cursor' \in CursorSet
                   /\ request' \in Position \cup {NoPosition}
                   /\ reopen' \in ReopenSet /\ worker' \in Workers
                   /\ backend' \in Backends /\ Len(backend'.queue) <= QueueLimit
                   /\ result' \in {"ok", "reopen"} /\ finished' \in BOOLEAN
                   /\ owner' \in Owners
<1> SUFFICES Rest
  BY <1>1 DEF TypeOK, AskedSet, KeySet, CursorSet, ReopenSet, Owners
<1>3. CASE Push
  BY <1>2, <1>3 DEF Push, Owners
<1>4. CASE Discontinuity \/ Finish \/ Stopped \/ CannotResume
  BY <1>2, <1>4 DEF Discontinuity, Finish, Stopped, CannotResume, Owners
<1>20. CASE Drained
  BY <1>2, <1>20 DEF Drained, CursorSet, Owners
<1>21. CASE CloseDecoder
  BY <1>2, <1>21, CloseFact DEF CloseDecoder, Owners
<1>5. CASE Restart
  <2>1. Len(<<>>) <= QueueLimit
    BY LiveAssumption
  <2> QED
    BY <1>2, <1>5, <2>1, RestartFact DEF Restart, Owners
<1>6. CASE Glance
  <2>1. worker' \in Workers
    BY <1>2, <1>6, NewWorkerType DEF Glance, Workers, Places, Histories
  <2> QED
    BY <1>2, <1>6, <2>1 DEF Glance
<1>7. CASE TakeRequest
  <2>1. Snapshot(history) \in [begin : Offset, generation : 0 .. MaxGeneration, first : Offset]
    <3>1. Timed(history) => Min(history.marks) \in Offset
      BY <1>2, MarksFact
    <3>2. 0 \in Offset
      BY Bounds DEF Offset
    <3> QED
      BY <1>2, <3>1, <3>2 DEF Snapshot, Histories
  <2>2. worker' = [worker EXCEPT !.at = "check", !.range = Snapshot(history), !.position = request]
    BY <1>7 DEF TakeRequest
  <2>3. worker' \in Workers
    BY <1>2, <2>1, <2>2 DEF Workers, Places
  <2> QED
    BY <1>2, <1>7, <2>3 DEF TakeRequest
<1>8. CASE CheckPosition
  BY <1>2, <1>8, CheckFact DEF CheckPosition
<1>9. CASE ResetDecoder
  <2>1. /\ worker.at = "reset" /\ worker.position \in Position
        /\ Back(worker.position) \/ Kept4Another(worker.position) \/ Done(worker.position)
    BY <1>9, ResetCases
  <2>2. worker.position.seek \in 0 .. MaxPresses
    BY <2>1 DEF Position
  <2>3. CASE Back(worker.position)
    <3>1. worker' \in Workers
      BY <2>3, NothingFact, GoesFact DEF Back
    <3>2. backend' \in Backends /\ backend'.queue = backend.queue
      BY <1>2, <2>3, RepositionedFact DEF Back
    <3> QED
      BY <1>2, <1>9, <2>1, <2>3, <3>1, <3>2 DEF Back, ResetDecoder
  <2>4. CASE Kept4Another(worker.position)
    <3>1. worker' \in Workers
      BY <2>4, GoesFact DEF Kept4Another, Places
    <3>2. backend' \in Backends /\ backend'.queue = backend.queue
      BY <1>2, <2>2, <2>4, BothFact DEF Kept4Another
    <3>3. reopen' \in ReopenSet
      BY <1>2, <2>1, <2>4 DEF Kept4Another, ReopenSet
    <3> QED
      BY <1>2, <1>9, <2>1, <2>4, <3>1, <3>2, <3>3 DEF Kept4Another, ResetDecoder
  <2>5. CASE Done(worker.position)
    <3>1. /\ backend' \in Backends /\ backend'.queue = backend.queue
          /\ cursor' \in CursorSet /\ worker' \in Workers
      BY <2>1, <2>5, DoneFact
    <3> QED
      BY <1>2, <1>9, <2>5, <3>1 DEF Done, ResetDecoder
  <2> QED
    BY <2>1, <2>3, <2>4, <2>5
<1>10. CASE ReadChunk
  <2>1. worker' \in Workers
    <3>1. CASE Readable(history, cursor.read) /\ OfTimeline
      <4>1. cursor.read \in Nat /\ KeptIn(history)
        BY <1>2, Bounds DEF CursorSet, Offset, Kept, KeptIn
      <4>2. ChunkAt(history, cursor.read) \in Chunk
        BY <1>2, <3>1, <4>1, ReadFact
      <4>3. worker' = [NewWorker EXCEPT !.at = "push", !.chunk = ChunkAt(history, cursor.read)]
        BY <1>10, <3>1 DEF ReadChunk
      <4> QED
        BY <4>2, <4>3, NewWorkerType DEF Workers, Places
    <3>2. CASE ~(Readable(history, cursor.read) /\ OfTimeline)
      BY <1>10, <3>2, NothingFact, GoesFact DEF ReadChunk
    <3> QED
      BY <3>1, <3>2
  <2> QED
    BY <1>2, <1>10, <2>1 DEF ReadChunk
<1>11. CASE OpenDecoder
  <2>1. backend' \in Backends
    BY <1>11, OpenFact
  <2>2. backend'.queue = backend.queue
    BY <1>2, <1>11 DEF OpenDecoder, Backends
  <2> QED
    BY <1>2, <1>11, <2>1, <2>2 DEF OpenDecoder
<1>12. CASE AskReopen
  <2>1. worker' \in Workers
    BY <1>12, GoesFact DEF AskReopen, Places
  <2>2. reopen' \in ReopenSet
    BY <1>2, <1>12 DEF AskReopen, ReopenSet, CursorSet
  <2> QED
    BY <1>2, <1>12, <2>1, <2>2 DEF AskReopen
<1>13. CASE BeginSubmit
  <2>1. worker' \in Workers
    BY <1>2, <1>13 DEF BeginSubmit, Workers, Places, Backends
  <2> QED
    BY <1>2, <1>13, <2>1 DEF BeginSubmit
<1>14. CASE EndSubmit
  <2>1. /\ backend' \in Backends /\ Len(backend'.queue) <= QueueLimit
        /\ worker' \in Workers /\ cursor' \in CursorSet
    BY <1>14, EndSubmitFact
  <2> QED
    BY <1>2, <1>14, <2>1 DEF EndSubmit
<1>15. CASE TakePicture
  BY <1>2, <1>15, TakeFact DEF TakePicture
<1>16. CASE Present
  BY <1>2, <1>16, PresentFact DEF Present
<1>17. CASE Press
  BY <1>2, <1>17 DEF Press
<1>18. CASE Poll
  <2>1. backend' \in Backends /\ backend'.queue = backend.queue
    BY <1>18, PollFact
  <2>2. cursor' \in CursorSet
    BY <1>2, <1>18 DEF Poll, CursorSet
  <2>3. request' \in Position \cup {NoPosition}
    <3>1. CASE TakesSeek
      <4>1. Timed(history) /\ keys \in KeySet
        BY <3>1, Types DEF TakesSeek
      <4>2. keys.target \in Int
        BY <4>1, Bounds DEF KeySet, Offset, Unset
      <4>3. asked' \in AskedSet /\ request' = SeekTo(history, keys.target, asked'.seeks)
        <5> DEFINE taken == asked.seeks + (IF TakesSeek THEN 1 ELSE 0)
        <5>1. /\ asked' = [asked EXCEPT !.seeks = taken,
                             !.told = IF TakesSeek /\ IsOpen(backend) THEN taken ELSE @,
                             !.raced = @ \/ ResumeMeetsPush]
              /\ request' = SeekTo(history, keys.target, taken)
          BY <1>18, <3>1 DEF Poll
        <5> HIDE DEF taken
        <5>2. asked'.seeks = taken
          BY <5>1, Types DEF AskedSet
        <5> QED
          BY <1>1, <5>1, <5>2
      <4>4. asked'.seeks \in 0 .. MaxPresses
        BY <4>3 DEF AskedSet
      <4> QED
        BY <1>2, <4>1, <4>2, <4>3, <4>4, SeekToFact
    <3>2. CASE ~TakesSeek
      BY <1>2, <1>18, <3>2 DEF Poll
    <3> QED
      BY <3>1, <3>2
  <2> QED
    BY <1>2, <1>18, <2>1, <2>2, <2>3 DEF Poll
<1>19. CASE Over \/ UNCHANGED vars
  BY <1>2, <1>19 DEF Over, vars
<1> QED
  BY <1>3, <1>4, <1>5, <1>6, <1>7, <1>8, <1>9, <1>10, <1>11, <1>12, <1>13, <1>14, <1>15, <1>16,
     <1>17, <1>18, <1>19, <1>20, <1>21 DEF Next, Owner, Worker, Decoder, Controls

--------------------------------------------------------------------------------
(***************************************************************************)
(* The reader.                                                             *)
(***************************************************************************)
LEMMA PollReads ==
  ASSUME TypeOK, Poll
  PROVE  cursor'.read = cursor.read /\ cursor'.timeline = cursor.timeline /\ worker' = worker
BY Types DEF Poll, CursorSet

LEMMA ReaderNext ==
  ASSUME TypeOK, Kept, Reader, [Next]_vars
  PROVE  Reader'
<1>1. /\ worker \in Workers /\ cursor \in CursorSet /\ history \in Histories /\ KeptIn(history)
  BY Types DEF Kept, KeptIn
<1>2. ASSUME worker'.at \in {"top", "lock", "check", "read", "ended"}
      PROVE  Reader'
  BY <1>2 DEF Reader, Pushing
<1>3. ASSUME worker' = worker, cursor'.read = cursor.read, cursor'.timeline = cursor.timeline
      PROVE  Reader'
  BY <1>3 DEF Reader, Pushing
<1>4. CASE Owner
  <2>1. CASE Restart
    BY <1>2, <2>1, RestartFact
  <2>2. CASE Push \/ Discontinuity \/ Finish \/ Drained \/ Stopped \/ CannotResume \/ CloseDecoder
    BY <1>1, <1>3, <2>2 DEF Push, Discontinuity, Finish, Drained, Stopped, CannotResume,
       CloseDecoder, CursorSet
  <2> QED
    BY <1>4, <2>1, <2>2 DEF Owner
<1>5. CASE Glance
  <2>1. worker'.at = "lock"
    BY <1>5, NewWorkerType DEF Glance, Workers
  <2> QED
    BY <1>2, <2>1
<1>6. CASE TakeRequest
  <2>1. worker'.at = "check"
    BY <1>1, <1>6 DEF TakeRequest, Workers
  <2> QED
    BY <1>2, <2>1
<1>7. CASE CheckPosition
  <2>1. \/ worker'.at = "reset" /\ worker'.position # NoPosition
        \/ worker'.at \in {"top", "ended", "read"}
    BY <1>7, CheckFact, PositionFact
  <2> QED
    BY <1>2, <2>1 DEF Reader, Pushing
<1>8. CASE ResetDecoder
  <2>1. worker'.at \in {"top", "ended", "read"}
    BY <1>8, ResetCases, DoneFact, NothingFact, GoesFact DEF Back, Kept4Another, Places
  <2> QED
    BY <1>2, <2>1
<1>9. CASE ReadChunk
  <2>1. CASE Readable(history, cursor.read) /\ OfTimeline
    <3> DEFINE chunk == ChunkAt(history, cursor.read)
    <3>1. cursor.read \in Nat
      BY <1>1, Bounds DEF CursorSet, Offset
    <3>2. /\ chunk \in Chunk /\ chunk.at = cursor.read
          /\ chunk.generation = history.generation /\ cursor.read < MaxOffset
      BY <1>1, <2>1, <3>1, ReadFact
    <3>3. worker' = [NewWorker EXCEPT !.at = "push", !.chunk = chunk] /\ cursor' = cursor
      BY <1>9, <2>1 DEF ReadChunk
    <3> HIDE DEF chunk
    <3>4. worker'.at = "push" /\ worker'.chunk = chunk
      BY <3>3, NewWorkerType DEF Workers
    <3>5. chunk # NoChunk
      <4>1. chunk.at # Unset
        BY <3>1, <3>2 DEF Unset
      <4>2. NoChunk.at = Unset
        BY DEF NoChunk
      <4> QED
        BY <4>1, <4>2
    <3> QED
      BY <2>1, <3>2, <3>3, <3>4, <3>5 DEF Reader, OfTimeline
  <2>2. CASE ~(Readable(history, cursor.read) /\ OfTimeline)
    <3>1. worker'.at \in {"top", "ended"}
      BY <1>9, <2>2, NothingFact, GoesFact DEF ReadChunk
    <3> QED
      BY <1>2, <3>1
  <2> QED
    BY <2>1, <2>2
<1>10. CASE OpenDecoder
  BY <1>3, <1>10 DEF OpenDecoder
<1>11. CASE AskReopen
  <2>1. worker'.at = "ended"
    BY <1>11, GoesFact DEF AskReopen, Places
  <2> QED
    BY <1>2, <2>1
<1>12. CASE BeginSubmit
  <2>1. worker'.at = "submit" /\ worker'.chunk = worker.chunk /\ worker.at = "push" /\ cursor' = cursor
    BY <1>1, <1>12 DEF BeginSubmit, Workers
  <2> QED
    BY <2>1 DEF Reader, Pushing
<1>13. CASE EndSubmit
  BY <1>2, <1>13, EndSubmitFact
<1>14. CASE Decoder \/ Press \/ Over \/ UNCHANGED vars
  BY <1>3, <1>14 DEF Decoder, TakePicture, Present, Press, Over, vars
<1>15. CASE Poll
  BY <1>3, <1>15, PollReads
<1> QED
  BY <1>4, <1>5, <1>6, <1>7, <1>8, <1>9, <1>10, <1>11, <1>12, <1>13, <1>14, <1>15
     DEF Next, Worker, Controls

--------------------------------------------------------------------------------
(***************************************************************************)
(* The decoder's generation.                                               *)
(***************************************************************************)
(* The generations that are compared are numbers. *)
LEMMA BackendTag ==
  ASSUME TypeOK
  PROVE  /\ backend.tag \in Nat /\ backend.decoding.tag \in Nat /\ backend.shown.tag \in Nat
         /\ Len(backend.queue) \in Nat
         /\ \A i \in 1 .. Len(backend.queue) : backend.queue[i] \in Picture /\ backend.queue[i].tag \in Nat
<1>1. backend \in Backends
  BY Types
<1>2. backend.queue \in Seq(Picture)
  BY <1>1 DEF Backends
<1>3. \A i \in 1 .. Len(backend.queue) : backend.queue[i] \in Picture
  BY <1>2, ElementOfSeq
<1>4. \A p \in Picture : p.tag \in Nat
  BY DEF Picture
<1>5. backend.tag \in Nat /\ backend.decoding \in Picture /\ backend.shown \in Picture
  BY <1>1 DEF Backends
<1>6. Len(backend.queue) \in Nat
  BY <1>2, LenProperties
<1> QED
  BY <1>3, <1>4, <1>5, <1>6

LEMMA FreshNext ==
  ASSUME TypeOK, TypeOK', Reader, Fresh, [Next]_vars
  PROVE  Fresh'
<1>1. /\ worker \in Workers /\ worker' \in Workers /\ backend \in Backends /\ backend' \in Backends
  BY Types DEF TypeOK
<1>2. NoPicture.tag = 0
  BY DEF NoPicture
<1>3. ASSUME backend' = backend, worker'.at # "submit"
      PROVE  Fresh'
  BY <1>3 DEF Fresh, IsOpen
<1>4. ASSUME backend' = backend, worker' = worker
      PROVE  Fresh'
  BY <1>4 DEF Fresh, IsOpen
(* A new generation: what was queued and shown is of an older one. *)
<1>5. ASSUME backend'.tag >= backend.tag, backend'.queue = backend.queue,
             backend'.decoding = backend.decoding, backend'.shown = backend.shown,
             IsOpen(backend), IsOpen(backend'), worker'.at # "submit" \/ (worker' = worker /\ backend'.discard)
      PROVE  Fresh'
  <2>1. /\ backend'.tag \in Nat /\ backend.tag \in Nat /\ backend.decoding.tag \in Nat
        /\ backend.shown.tag \in Nat
        /\ \A i \in 1 .. Len(backend.queue) : backend.queue[i].tag \in Nat
    BY <1>1, BackendTag DEF Backends
  <2>2. worker.tag \in Nat
    BY <1>1 DEF Workers
  <2>3. /\ backend'.tag >= 1 /\ backend.decoding.tag <= backend'.tag
        /\ backend.shown.tag <= backend'.tag
        /\ worker.at = "submit" => worker.tag <= backend'.tag
    BY <1>5, <2>1, <2>2 DEF Fresh
  <2>4. \A i \in 1 .. Len(backend.queue) : backend.queue[i].tag <= backend'.tag
    BY <1>5, <2>1 DEF Fresh
  <2> QED
    BY <1>5, <2>3, <2>4 DEF Fresh
(* A decoder that is not open. *)
<1>6. ASSUME ~IsOpen(backend), backend'.tag = backend.tag, backend'.queue = backend.queue,
             backend'.decoding = backend.decoding, backend'.shown = backend.shown,
             backend'.last = backend.last, backend'.discard = backend.discard,
             worker'.at # "submit" \/ worker' = worker
      PROVE  Fresh'
  BY <1>6 DEF Fresh
<1>7. CASE Restart
  <2>1. /\ worker'.at = "top" /\ ~IsOpen(backend') /\ backend'.tag = 1 /\ ~backend'.discard
        /\ backend'.queue = <<>> /\ backend'.decoding = NoPicture
        /\ backend'.shown.tag = 0 /\ backend'.last = NoPicture
    BY <1>7, RestartFact
  <2>2. \A i \in 1 .. Len(<<>>) : FALSE
    OBVIOUS
  <2> QED
    BY <1>2, <2>1, <2>2 DEF Fresh
<1>8. CASE Push \/ Discontinuity \/ Finish \/ Drained \/ Stopped \/ CannotResume \/ CloseDecoder
  BY <1>4, <1>8 DEF Push, Discontinuity, Finish, Drained, Stopped, CannotResume,
     CloseDecoder
<1>9. CASE Glance \/ TakeRequest
  <2>1. worker'.at # "submit" /\ backend' = backend
    BY <1>1, <1>9, NewWorkerType DEF Glance, TakeRequest, Workers
  <2> QED
    BY <1>3, <2>1
<1>10. CASE CheckPosition
  BY <1>3, <1>10, CheckFact DEF CheckPosition
<1>11. CASE ResetDecoder
  <2>1. /\ worker.at = "reset" /\ worker.position \in Position
        /\ Back(worker.position) \/ Kept4Another(worker.position) \/ Done(worker.position)
    BY <1>11, ResetCases
  <2>2. worker.position.seek \in 0 .. MaxPresses
    BY <2>1 DEF Position
  <2>3. CASE Back(worker.position)
    <3>1. worker'.at # "submit"
      BY <2>3, NothingFact, GoesFact DEF Back
    <3>2. CASE IsOpen(backend)
      <4>1. /\ backend'.tag = backend.tag + 1 /\ backend'.queue = backend.queue
            /\ backend'.decoding = backend.decoding /\ backend'.shown = backend.shown
            /\ backend'.format = backend.format
        BY <1>1, <2>3, <3>2, RepositionedFact DEF Back
      <4>2. backend'.tag >= backend.tag
        BY <4>1, BackendTag
      <4> QED
        BY <1>5, <3>1, <3>2, <4>1, <4>2 DEF IsOpen
    <3>3. CASE ~IsOpen(backend)
      BY <1>1, <1>3, <2>3, <3>1, <3>3, RepositionedFact DEF Back
    <3> QED
      BY <3>2, <3>3
  <2>4. CASE Kept4Another(worker.position)
    <3>1. worker'.at # "submit" /\ IsOpen(backend)
      BY <2>4, GoesFact DEF Kept4Another, Places
    <3>2. /\ backend'.tag > backend.tag /\ backend'.queue = backend.queue
          /\ backend'.decoding = backend.decoding /\ backend'.shown = backend.shown
          /\ backend'.format = backend.format
      BY <1>1, <2>2, <2>4, <3>1, BothFact DEF Kept4Another
    <3>3. backend'.tag >= backend.tag
      BY <1>1, <3>2 DEF Backends
    <3> QED
      BY <1>5, <3>1, <3>2, <3>3 DEF IsOpen
  <2>5. CASE Done(worker.position)
    <3>1. /\ worker'.at # "submit" /\ backend'.queue = backend.queue
          /\ backend'.decoding = backend.decoding /\ backend'.shown = backend.shown
          /\ backend'.format = backend.format
          /\ IsOpen(backend) => backend'.tag > backend.tag
          /\ ~IsOpen(backend) => /\ backend'.tag = backend.tag /\ backend'.last = backend.last
                                 /\ backend'.discard = backend.discard
      BY <2>1, <2>5, DoneFact
    <3>2. CASE IsOpen(backend)
      <4>1. backend'.tag >= backend.tag
        BY <1>1, <3>1, <3>2 DEF Backends
      <4> QED
        BY <1>5, <3>1, <3>2, <4>1 DEF IsOpen
    <3>3. CASE ~IsOpen(backend)
      BY <1>6, <3>1, <3>3
    <3> QED
      BY <3>2, <3>3
  <2> QED
    BY <2>1, <2>3, <2>4, <2>5
<1>12. CASE ReadChunk
  <2>1. worker'.at # "submit"
    BY <1>12, NewWorkerType, NothingFact, GoesFact DEF ReadChunk, Workers
  <2> QED
    BY <1>3, <1>12, <2>1 DEF ReadChunk
<1>13. CASE OpenDecoder
  <2>1. ~IsOpen(backend) /\ worker' = worker /\ worker.at = "push"
    BY <1>13 DEF OpenDecoder
  <2>2. /\ backend'.tag = backend.tag /\ backend'.queue = backend.queue
        /\ backend'.decoding = backend.decoding /\ backend'.shown = backend.shown
        /\ backend'.last = backend.last /\ backend'.discard = backend.discard
    BY <1>1, <1>13 DEF OpenDecoder, Backends
  <2> QED
    BY <1>6, <2>1, <2>2
<1>14. CASE AskReopen
  <2>1. worker'.at # "submit"
    BY <1>14, GoesFact DEF AskReopen, Places
  <2> QED
    BY <1>3, <1>14, <2>1 DEF AskReopen
<1>15. CASE BeginSubmit
  <2>1. /\ worker'.at = "submit" /\ worker'.tag = backend.tag /\ IsOpen(backend)
        /\ backend' = backend
    BY <1>1, <1>15 DEF BeginSubmit, Workers, Backends
  <2>2. backend.tag <= backend.tag
    BY BackendTag
  <2> QED
    BY <2>1, <2>2 DEF Fresh
<1>16. CASE EndSubmit
  <2>1. /\ worker'.at = "top" /\ worker.at = "submit"
        /\ backend'.tag = backend.tag /\ backend'.discard = backend.discard
        /\ backend'.format = backend.format
        /\ backend'.decoding = backend.decoding /\ backend'.shown = backend.shown
        /\ backend.discard => backend' = backend
        /\ ~backend.discard =>
             \A i \in 1 .. Len(backend'.queue) :
               \/ i \in 1 .. Len(backend.queue) /\ backend'.queue[i] = backend.queue[i]
               \/ backend'.queue[i] = Submitted
        /\ Submitted.tag = worker.tag
    BY <1>16, EndSubmitFact
  <2>2. IsOpen(backend) /\ IsOpen(backend') /\ worker.tag <= backend.tag
    BY <2>1 DEF Fresh, IsOpen
  <2>3. \A i \in 1 .. Len(backend'.queue) : backend'.queue[i].tag <= backend'.tag
    BY <2>1, <2>2 DEF Fresh
  <2> QED
    BY <2>1, <2>2, <2>3 DEF Fresh
<1>17. CASE TakePicture
  <2>1. /\ worker' = worker /\ IsOpen(backend)
        /\ backend'.tag = backend.tag /\ backend'.discard = backend.discard
        /\ backend'.format = backend.format /\ backend'.shown = backend.shown
        /\ \A i \in 1 .. Len(backend'.queue) :
             i + 1 \in 1 .. Len(backend.queue) /\ backend'.queue[i] = backend.queue[i + 1]
        /\ \/ backend'.decoding = backend.decoding
           \/ 1 \in 1 .. Len(backend.queue) /\ backend'.decoding = backend.queue[1]
    BY <1>17, TakeFact DEF TakePicture
  <2>2. \A i \in 1 .. Len(backend'.queue) : backend'.queue[i].tag <= backend'.tag
    BY <2>1 DEF Fresh
  <2>3. backend'.decoding.tag <= backend'.tag
    BY <2>1 DEF Fresh
  <2> QED
    BY <2>1, <2>2, <2>3 DEF Fresh, IsOpen
<1>18. CASE Present
  <2>1. /\ worker' = worker /\ backend'.queue = backend.queue
        /\ backend'.tag = backend.tag /\ backend'.discard = backend.discard
        /\ backend'.format = backend.format /\ backend'.last = backend.last
        /\ backend'.shown = backend.decoding /\ backend'.decoding = NoPicture
    BY <1>18, PresentFact DEF Present
  <2>2. 0 <= backend.tag
    BY BackendTag
  <2> QED
    BY <1>2, <2>1, <2>2 DEF Fresh, IsOpen
<1>19. CASE Press \/ Over \/ UNCHANGED vars
  BY <1>4, <1>19 DEF Press, Over, vars
<1>20. CASE Poll
  <2>1. /\ worker' = worker /\ backend'.queue = backend.queue
        /\ backend'.decoding = backend.decoding /\ backend'.shown = backend.shown
        /\ backend'.format = backend.format
        /\ \/ /\ backend'.tag = backend.tag /\ backend'.discard = backend.discard
              /\ backend'.last = backend.last
           \/ /\ IsOpen(backend) /\ backend'.discard /\ backend'.tag > backend.tag
    BY <1>20, PollFact, PollReads
  <2>2. CASE IsOpen(backend) /\ backend'.discard /\ backend'.tag > backend.tag
    <3>1. backend'.tag >= backend.tag
      BY <1>1, <2>2 DEF Backends
    <3> QED
      BY <1>5, <2>1, <2>2, <3>1 DEF IsOpen
  <2>3. CASE /\ backend'.tag = backend.tag /\ backend'.discard = backend.discard
             /\ backend'.last = backend.last
    BY <2>1, <2>3 DEF Fresh, IsOpen
  <2> QED
    BY <2>1, <2>2, <2>3
<1> QED
  BY <1>7, <1>8, <1>9, <1>10, <1>11, <1>12, <1>13, <1>14, <1>15, <1>16, <1>17, <1>18, <1>19, <1>20
     DEF Next, Owner, Worker, Decoder, Controls

--------------------------------------------------------------------------------
(***************************************************************************)
(* The pause.                                                              *)
(***************************************************************************)
Still == {"top", "lock", "check", "reset", "ended"}

LEMMA QuietNext ==
  ASSUME TypeOK, Reader, Fresh, Quiet, [Next]_vars
  PROVE  Quiet'
<1>1. worker \in Workers /\ backend \in Backends
  BY Types
<1>2. ASSUME backend' = backend, cursor'.paused = cursor.paused, worker' = worker \/ worker'.at \in Still
      PROVE  Quiet'
  BY <1>2 DEF Quiet, Still
<1>3. ASSUME backend' = backend, cursor'.paused = cursor.paused,
             worker.at \in {"read", "push", "submit"}
      PROVE  Quiet'
  BY <1>3 DEF Quiet
<1>4. ASSUME IsOpen(backend), backend'.tag > backend.tag, backend'.queue = backend.queue,
             worker'.at \in Still, backend'.tag \in Nat
      PROVE  Quiet'
  <2>1. \A i \in 1 .. Len(backend.queue) :
          backend.queue[i].tag \in Nat /\ backend.queue[i].tag <= backend.tag
    BY BackendTag DEF Fresh
  <2>2. \A i \in 1 .. Len(backend.queue) : backend.queue[i].tag # backend'.tag
    BY <1>4, <2>1, BackendTag
  <2> QED
    BY <1>4, <2>2 DEF Quiet, Still
<1>5. CASE Restart
  <2>1. backend'.queue = <<>> /\ worker'.at = "top"
    BY <1>5, RestartFact
  <2>2. \A i \in 1 .. Len(<<>>) : FALSE
    OBVIOUS
  <2> QED
    BY <2>1, <2>2 DEF Quiet
<1>6. CASE Push \/ Discontinuity \/ Finish \/ Drained \/ Stopped \/ CannotResume \/ CloseDecoder
  <2>1. \/ cursor' = cursor
        \/ ~cursor'.paused
    BY <1>6, Types DEF Push, Discontinuity, Finish, Drained, Stopped, CannotResume, CloseDecoder,
       CursorSet
  <2>2. worker' = worker /\ backend' = backend
    BY <1>6 DEF Push, Discontinuity, Finish, Drained, Stopped, CannotResume, CloseDecoder
  <2> QED
    BY <2>1, <2>2 DEF Quiet
<1>7. CASE Glance \/ TakeRequest
  <2>1. worker'.at \in Still
    BY <1>1, <1>7, NewWorkerType DEF Glance, TakeRequest, Workers, Still
  <2> QED
    BY <1>2, <1>7, <2>1 DEF Glance, TakeRequest
<1>8. CASE CheckPosition
  <2>1. worker'.at \in Still \/ ~cursor.paused
    BY <1>8, CheckFact DEF Still
  <2>2. backend' = backend /\ cursor' = cursor
    BY <1>8 DEF CheckPosition
  <2>3. CASE ~cursor.paused
    BY <2>2, <2>3 DEF Quiet
  <2> QED
    BY <1>2, <2>1, <2>2, <2>3
<1>9. CASE ResetDecoder
  <2>1. /\ worker.at = "reset" /\ worker.position \in Position
        /\ Back(worker.position) \/ Kept4Another(worker.position) \/ Done(worker.position)
    BY <1>9, ResetCases
  <2>2. worker.position.seek \in 0 .. MaxPresses
    BY <2>1 DEF Position
  <2>3. CASE Back(worker.position)
    <3>1. worker'.at \in Still
      BY <2>3, NothingFact, GoesFact DEF Back, Still
    <3>2. CASE IsOpen(backend)
      <4>1. backend'.tag = backend.tag + 1 /\ backend'.queue = backend.queue
        BY <1>1, <2>3, <3>2, RepositionedFact DEF Back
      <4>2. backend'.tag > backend.tag /\ backend'.tag \in Nat
        BY <4>1, BackendTag
      <4> QED
        BY <1>4, <3>1, <3>2, <4>1, <4>2
    <3>3. CASE ~IsOpen(backend)
      BY <1>1, <1>2, <2>3, <3>1, <3>3, RepositionedFact DEF Back
    <3> QED
      BY <3>2, <3>3
  <2>4. CASE Kept4Another(worker.position)
    <3>1. worker'.at \in Still /\ IsOpen(backend)
      BY <2>4, GoesFact DEF Kept4Another, Places, Still
    <3>2. backend'.tag > backend.tag /\ backend'.queue = backend.queue /\ backend' \in Backends
      BY <1>1, <2>2, <2>4, <3>1, BothFact DEF Kept4Another
    <3>3. backend'.tag \in Nat
      BY <3>2 DEF Backends
    <3> QED
      BY <1>4, <3>1, <3>2, <3>3
  <2>5. CASE Done(worker.position)
    <3>1. backend'.paused = cursor.paused /\ cursor'.paused = cursor.paused
      BY <2>1, <2>5, DoneFact
    <3> QED
      BY <3>1 DEF Quiet
  <2> QED
    BY <2>1, <2>3, <2>4, <2>5
<1>10. CASE ReadChunk \/ BeginSubmit
  BY <1>3, <1>10 DEF ReadChunk, BeginSubmit
<1>11. CASE OpenDecoder
  <2>1. ~IsOpen(backend) /\ worker.at = "push" /\ cursor' = cursor
    BY <1>11 DEF OpenDecoder
  <2>2. backend'.paused = backend.paused
    BY <1>1, <1>11 DEF OpenDecoder, Backends
  <2>3. ~backend.discard
    BY <2>1 DEF Fresh
  <2>4. ~(cursor.paused /\ ~backend.paused)
    BY <2>1, <2>3 DEF Quiet
  <2> QED
    BY <2>1, <2>2, <2>4 DEF Quiet
<1>12. CASE AskReopen
  <2>1. worker'.at \in Still
    BY <1>12, GoesFact DEF AskReopen, Places, Still
  <2> QED
    BY <1>2, <1>12, <2>1 DEF AskReopen
<1>13. CASE EndSubmit
  <2>1. /\ worker'.at = "top" /\ worker.at = "submit"
        /\ backend.discard => backend' = backend
        /\ backend'.paused = backend.paused
        /\ cursor' = [cursor EXCEPT !.read = @ + 1]
    BY <1>13, EndSubmitFact
  <2>2. cursor'.paused = cursor.paused
    BY <2>1, Types DEF CursorSet
  <2>3. CASE backend.discard
    BY <1>2, <2>1, <2>2, <2>3 DEF Still
  <2>4. CASE ~backend.discard
    BY <2>1, <2>2, <2>4 DEF Quiet
  <2> QED
    BY <2>3, <2>4
<1>14. CASE TakePicture
  <2>1. /\ worker' = worker /\ cursor' = cursor
        /\ backend'.tag = backend.tag /\ backend'.discard = backend.discard
        /\ backend'.paused = backend.paused
        /\ \A i \in 1 .. Len(backend'.queue) :
             i + 1 \in 1 .. Len(backend.queue) /\ backend'.queue[i] = backend.queue[i + 1]
    BY <1>14, TakeFact DEF TakePicture
  <2> QED
    BY <2>1 DEF Quiet
<1>15. CASE Present
  <2>1. /\ worker' = worker /\ cursor' = cursor /\ backend'.queue = backend.queue
        /\ backend'.tag = backend.tag /\ backend'.discard = backend.discard
        /\ backend'.paused = backend.paused
    BY <1>15, PresentFact DEF Present
  <2> QED
    BY <2>1 DEF Quiet
<1>16. CASE Press \/ Over \/ UNCHANGED vars
  BY <1>2, <1>16 DEF Press, Over, vars
<1>17. CASE Poll
  <2>1. /\ worker' = worker
        /\ cursor'.paused /\ ~backend'.paused => cursor.paused /\ backend' = backend
    BY <1>17, PollFact, PollReads
  <2> QED
    BY <2>1 DEF Quiet
<1> QED
  BY <1>5, <1>6, <1>7, <1>8, <1>9, <1>10, <1>11, <1>12, <1>13, <1>14, <1>15, <1>16, <1>17
     DEF Next, Owner, Worker, Decoder, Controls

--------------------------------------------------------------------------------
(***************************************************************************)
(* What is fed.                                                            *)
(***************************************************************************)
LEMMA FedNext ==
  ASSUME TypeOK, Reader, Fresh, Fed, [Next]_vars
  PROVE  Fed'
<1>1. worker \in Workers /\ backend \in Backends /\ cursor \in CursorSet
  BY Types
<1>2. ASSUME backend'.last = NoPicture
      PROVE  Fed'
  BY <1>2 DEF Fed
<1>3. ASSUME backend'.last = backend.last, backend'.tag = backend.tag,
             backend'.discard = backend.discard,
             cursor'.read = cursor.read, cursor'.timeline = cursor.timeline
      PROVE  Fed'
  BY <1>3 DEF Fed
<1>4. CASE Restart
  BY <1>2, <1>4, RestartFact
<1>5. CASE Push \/ Discontinuity \/ Finish \/ Drained \/ Stopped \/ CannotResume \/ CloseDecoder
  BY <1>3, <1>5, Types DEF Push, Discontinuity, Finish, Drained, Stopped, CannotResume,
     CloseDecoder, CursorSet
<1>6. CASE Glance \/ TakeRequest \/ CheckPosition \/ ReadChunk \/ AskReopen \/ BeginSubmit
  BY <1>3, <1>6 DEF Glance, TakeRequest, CheckPosition, ReadChunk, AskReopen, BeginSubmit
<1>7. CASE ResetDecoder
  <2>1. /\ worker.at = "reset" /\ worker.position \in Position
        /\ Back(worker.position) \/ Kept4Another(worker.position) \/ Done(worker.position)
    BY <1>7, ResetCases
  <2>2. worker.position.seek \in 0 .. MaxPresses
    BY <2>1 DEF Position
  <2>3. CASE Back(worker.position)
    <3>1. CASE IsOpen(backend)
      BY <1>1, <1>2, <2>3, <3>1, RepositionedFact DEF Back
    <3>2. CASE ~IsOpen(backend)
      BY <1>1, <1>3, <2>3, <3>2, RepositionedFact DEF Back
    <3> QED
      BY <3>1, <3>2
  <2>4. CASE Kept4Another(worker.position)
    BY <1>1, <1>2, <2>2, <2>4, BothFact DEF Kept4Another
  <2>5. CASE Done(worker.position)
    <3>1. /\ IsOpen(backend) => backend'.last = NoPicture
          /\ ~IsOpen(backend) => backend'.last = backend.last
      BY <2>1, <2>5, DoneFact
    <3>2. ~IsOpen(backend) => backend.last = NoPicture
      BY DEF Fresh
    <3> QED
      BY <1>2, <3>1, <3>2
  <2> QED
    BY <2>1, <2>3, <2>4, <2>5
<1>8. CASE OpenDecoder
  <2>1. /\ backend'.tag = backend.tag /\ backend'.last = backend.last
        /\ backend'.discard = backend.discard /\ cursor' = cursor
    BY <1>1, <1>8 DEF OpenDecoder, Backends
  <2> QED
    BY <1>3, <2>1
<1>9. CASE EndSubmit
  <2>1. /\ backend.discard => backend' = backend
        /\ ~backend.discard => backend'.last = Submitted
        /\ backend'.tag = backend.tag /\ backend'.discard = backend.discard
        /\ Submitted.at = cursor.read /\ Submitted.generation = cursor.timeline
        /\ Submitted.tag = worker.tag /\ worker.at = "submit"
        /\ cursor' = [cursor EXCEPT !.read = @ + 1]
    BY <1>9, EndSubmitFact
  <2>2. CASE backend.discard
    BY <1>2, <2>1, <2>2 DEF Fed
  <2>3. CASE ~backend.discard
    <3>1. worker.tag = backend.tag
      BY <2>1, <2>3 DEF Fresh
    <3>2. cursor'.read = cursor.read + 1 /\ cursor'.timeline = cursor.timeline
      BY <1>1, <2>1 DEF CursorSet
    <3> QED
      BY <2>1, <2>3, <3>1, <3>2 DEF Fed
  <2> QED
    BY <2>2, <2>3
<1>10. CASE TakePicture
  BY <1>3, <1>10, TakeFact DEF TakePicture
<1>11. CASE Present
  BY <1>3, <1>11, PresentFact DEF Present
<1>12. CASE Press \/ Over \/ UNCHANGED vars
  BY <1>3, <1>12 DEF Press, Over, vars
<1>13. CASE Poll
  BY <1>2, <1>3, <1>13, PollFact, PollReads
<1> QED
  BY <1>4, <1>5, <1>6, <1>7, <1>8, <1>9, <1>10, <1>11, <1>12, <1>13
     DEF Next, Owner, Worker, Decoder, Controls

--------------------------------------------------------------------------------
(***************************************************************************)
(* Where the last told seek is.                                            *)
(***************************************************************************)
LEMMA PollSeek ==
  ASSUME TypeOK, Counted, Poll
  PROVE  /\ ~TakesSeek => request' = request /\ asked'.told = asked.told
         /\ TakesSeek => /\ request' \in Position /\ request'.seek >= asked'.told
                         /\ ~IsOpen(backend) => asked'.told = asked.told
         /\ worker.at \notin Reading /\ worker' = worker /\ reopen' = reopen
<1> DEFINE taken == asked.seeks + (IF TakesSeek THEN 1 ELSE 0)
           told  == IF TakesSeek /\ IsOpen(backend) THEN taken ELSE asked.told
<1>1. /\ asked \in AskedSet /\ keys \in KeySet /\ history \in Histories
  BY Types
<1>2. /\ asked' = [asked EXCEPT !.seeks = taken, !.told = told, !.raced = @ \/ ResumeMeetsPush]
      /\ request' = IF TakesSeek THEN SeekTo(history, keys.target, taken) ELSE request
      /\ worker.at \notin Reading /\ worker' = worker /\ reopen' = reopen
  BY DEF Poll, ControlsRun, ControlsFree
<1>3. TakesSeek => keys.pending /\ Timed(history)
  BY DEF TakesSeek
<1>4. /\ taken \in 0 .. MaxPresses /\ told <= taken /\ taken >= told
  BY <1>1, <1>3, Bounds DEF AskedSet, Counted
<1> HIDE DEF taken
<1>5. asked'.told = told
  BY <1>1, <1>2 DEF AskedSet
<1>6. ASSUME TakesSeek
      PROVE  request' \in Position /\ request'.seek = taken
  <2>1. keys.target \in Int
    BY <1>1, Bounds DEF KeySet, Offset, Unset
  <2> QED
    BY <1>1, <1>2, <1>3, <1>4, <1>6, <2>1, SeekToFact
<1> QED
  BY <1>2, <1>4, <1>5, <1>6

LEMMA AskedNext ==
  ASSUME TypeOK, TypeOK', Reader, Counted, Fresh, Asked, Replacing, [Next]_vars
  PROVE  Asked'
<1>1. /\ worker \in Workers /\ worker' \in Workers /\ backend \in Backends /\ backend' \in Backends
      /\ request \in Position \cup {NoPosition} /\ asked \in AskedSet /\ asked' \in AskedSet
  BY Types DEF TypeOK, AskedSet
<1>2. /\ backend.seek \in Int /\ asked.told \in Int /\ asked'.told \in Int /\ asked.seeks \in Int
      /\ asked.seeks >= asked.told
  BY <1>1, Bounds DEF Backends, AskedSet, Counted
<1>3. ASSUME worker' = worker, request' = request, reopen' = reopen,
             backend'.seek = backend.seek, backend'.discard = backend.discard,
             asked'.told = asked.told
      PROVE  Asked'
  BY <1>3 DEF Asked, Holding
(* The reader moves on, outside of its check of the position. *)
<1>4. ASSUME worker'.at \notin Reading, worker.at \notin {"check", "reset", "ended"},
             worker'.at \in {"push", "submit"} => worker.at \in {"read", "push"},
             request' = request, reopen'.position = reopen.position,
             backend'.seek = backend.seek, backend'.discard = backend.discard,
             asked'.told = asked.told
      PROVE  Asked'
  BY <1>4 DEF Asked, Holding, Reading
<1>5. CASE Restart
  <2>1. /\ request' = StartsAt /\ reopen'.position = NoPosition /\ worker'.at = "top"
        /\ asked' = asked
    BY <1>5, RestartFact
  <2>2. reopen.position # NoPosition
    BY <1>5 DEF Restart, Replacing
  <2>3. request' # NoPosition /\ request'.seek >= asked.told
    BY <2>1, <2>2 DEF StartsAt, Asked
  <2> QED
    BY <2>1, <2>3 DEF Asked, Holding, Reading
<1>6. CASE Push \/ Discontinuity \/ Finish \/ Drained \/ Stopped \/ CannotResume
  BY <1>3, <1>6 DEF Push, Discontinuity, Finish, Drained, Stopped, CannotResume
<1>21. CASE CloseDecoder
  <2>1. /\ reopen'.position = ResumePosition /\ ResumePosition # NoPosition
        /\ worker.at = "ended"
    BY <1>21, CloseFact
  <2>2. /\ request' = request /\ worker' = worker /\ backend' = backend /\ asked' = asked
    BY <1>21 DEF CloseDecoder
  <2>3. request # NoPosition \/ ResumePosition.seek >= asked.told
    <3>1. CASE reopen.position # NoPosition
      BY <3>1 DEF ResumePosition, Asked
    <3>2. CASE request = NoPosition /\ reopen.position = NoPosition
      <4>1. ResumePosition.seek = backend.seek
        BY <2>1, <3>2 DEF ResumePosition
      <4> QED
        BY <2>1, <3>2, <4>1 DEF Asked, Holding
    <3> QED
      BY <3>1, <3>2
  <2> QED
    BY <2>1, <2>2, <2>3 DEF Asked, Holding
<1>7. CASE Glance
  <2>1. worker'.at = "lock" /\ worker.at = "top"
    BY <1>1, <1>7, NewWorkerType DEF Glance, Workers
  <2> QED
    BY <1>4, <1>7, <2>1 DEF Glance, Reading
<1>8. CASE TakeRequest
  <2>1. /\ worker.at = "lock" /\ worker'.at = "check" /\ worker'.position = request
        /\ request' = NoPosition /\ reopen' = reopen /\ backend' = backend /\ asked' = asked
    BY <1>1, <1>8 DEF TakeRequest, Workers
  <2> QED
    BY <2>1 DEF Asked, Holding, Reading
<1>9. CASE CheckPosition
  <2>1. /\ worker.at = "check" /\ request' = request /\ reopen' = reopen /\ backend' = backend
    BY <1>9 DEF CheckPosition
  <2>2. /\ request = NoPosition /\ reopen.position = NoPosition
        /\ worker.position # NoPosition => worker.position.seek >= asked.told
        /\ worker.position = NoPosition => backend.seek >= asked.told
    BY <2>1 DEF Asked, Holding, Reading
  <2>3. CASE /\ worker'.at = "reset" /\ worker'.position \in Position /\ asked' = asked
             /\ worker'.position.seek =
                  IF worker.position # NoPosition THEN worker.position.seek ELSE asked.seeks
    <3>1. worker'.position.seek >= asked.told
      BY <1>2, <2>2, <2>3
    <3>2. worker'.position # NoPosition
      BY <2>3, PositionFact
    <3> QED
      BY <2>1, <2>2, <2>3, <3>1, <3>2 DEF Asked, Holding
  <2>4. CASE /\ worker'.at \in {"top", "ended", "read"}
             /\ asked' = IF worker.position # NoPosition THEN Forgotten ELSE asked
    <3>1. backend.seek >= asked'.told
      <4>1. CASE worker.position # NoPosition
        <5> DEFINE told == IF backend.seek < asked.told THEN backend.seek ELSE asked.told
        <5>1. asked' = [asked EXCEPT !.told = told]
          BY <2>4, <4>1 DEF Forgotten
        <5>2. backend.seek >= told
          BY <1>2
        <5> HIDE DEF told
        <5>3. asked'.told = told
          BY <1>1, <5>1 DEF AskedSet
        <5> QED
          BY <5>2, <5>3
      <4>2. CASE worker.position = NoPosition
        BY <2>2, <2>4, <4>2
      <4> QED
        BY <4>1, <4>2
    <3> QED
      BY <2>1, <2>2, <2>4, <3>1 DEF Asked, Holding
  <2> QED
    BY <1>9, <2>3, <2>4, CheckFact
<1>10. CASE ResetDecoder
  <2>1. /\ worker.at = "reset" /\ worker.position \in Position
        /\ Back(worker.position) \/ Kept4Another(worker.position) \/ Done(worker.position)
    BY <1>10, ResetCases
  <2>2. worker.position.seek \in 0 .. MaxPresses
    BY <2>1 DEF Position
  <2>3. /\ request = NoPosition /\ reopen.position = NoPosition
        /\ worker.position.seek >= asked.told /\ worker.position # NoPosition
    BY <2>1, PositionFact DEF Asked, Holding, Reading
  <2>4. asked' = asked
    BY <1>10 DEF ResetDecoder
  <2>5. CASE Back(worker.position)
    <3>1. worker'.at \in {"top", "ended"}
      BY <2>5, NothingFact, GoesFact DEF Back
    <3> QED
      BY <2>3, <2>4, <2>5, <3>1 DEF Back, Asked, Holding, Reading
  <2>6. CASE Kept4Another(worker.position)
    <3>1. worker'.at = "ended"
      BY <2>6, GoesFact DEF Kept4Another, Places
    <3>2. backend'.seek = worker.position.seek
      BY <1>1, <2>2, <2>6, BothFact DEF Kept4Another
    <3>3. reopen'.position = worker.position /\ request' = request
      BY <2>6, Types DEF Kept4Another, ReopenSet
    <3> QED
      BY <2>3, <2>4, <3>1, <3>2, <3>3 DEF Asked, Holding, Reading
  <2>7. CASE Done(worker.position)
    <3>1. worker'.at = "read" /\ backend'.seek = worker.position.seek
      BY <2>1, <2>7, DoneFact
    <3>2. reopen' = reopen /\ request' = request
      BY <2>7 DEF Done
    <3> QED
      BY <2>3, <2>4, <3>1, <3>2 DEF Asked, Holding, Reading
  <2> QED
    BY <2>1, <2>5, <2>6, <2>7
<1>11. CASE ReadChunk
  <2>1. worker.at = "read" /\ worker'.at \in {"push", "top", "ended"}
    BY <1>11, NewWorkerType, NothingFact, GoesFact DEF ReadChunk, Workers
  <2> QED
    BY <1>4, <1>11, <2>1 DEF ReadChunk, Reading
<1>12. CASE OpenDecoder
  <2>1. backend'.seek = backend.seek /\ backend'.discard = backend.discard
    BY <1>1, <1>12 DEF OpenDecoder, Backends
  <2> QED
    BY <1>3, <1>12, <2>1 DEF OpenDecoder
<1>13. CASE AskReopen
  <2>1. worker.at = "push" /\ worker'.at = "ended"
    BY <1>13, GoesFact DEF AskReopen, Places
  <2>2. reopen'.position = reopen.position
    BY <1>13, Types DEF AskReopen, ReopenSet
  <2> QED
    BY <1>4, <1>13, <2>1, <2>2 DEF AskReopen, Reading
<1>14. CASE BeginSubmit
  <2>1. worker.at = "push" /\ worker'.at = "submit"
    BY <1>1, <1>14 DEF BeginSubmit, Workers
  <2> QED
    BY <1>4, <1>14, <2>1 DEF BeginSubmit, Reading
<1>15. CASE EndSubmit
  <2>1. /\ worker.at = "submit" /\ worker'.at = "top"
        /\ backend'.seek = backend.seek /\ backend'.discard = backend.discard
    BY <1>15, EndSubmitFact
  <2> QED
    BY <1>4, <1>15, <2>1 DEF EndSubmit, Reading
<1>16. CASE TakePicture
  BY <1>3, <1>16, TakeFact DEF TakePicture
<1>17. CASE Present
  BY <1>3, <1>17, PresentFact DEF Present
<1>18. CASE Press
  <2>1. asked'.told = asked.told
    BY <1>1, <1>18, PressFact DEF AskedSet
  <2> QED
    BY <1>3, <1>18, <2>1 DEF Press
<1>19. CASE Over \/ UNCHANGED vars
  BY <1>3, <1>19 DEF Over, vars
<1>20. CASE Poll
  <2>1. /\ ~TakesSeek => request' = request /\ asked'.told = asked.told
        /\ TakesSeek => /\ request' \in Position /\ request'.seek >= asked'.told
                        /\ ~IsOpen(backend) => asked'.told = asked.told
        /\ worker.at \notin Reading /\ worker' = worker /\ reopen' = reopen
    BY <1>20, PollSeek
  <2>2. /\ backend'.seek = backend.seek
        /\ backend.discard => backend'.discard
        /\ TakesSeek /\ IsOpen(backend) => backend'.discard
    BY <1>20, PollFact
  <2>3. CASE TakesSeek
    <3>1. request' # NoPosition
      BY <2>1, <2>3, PositionFact
    <3> QED
      BY <2>1, <2>2, <2>3, <3>1 DEF Asked, Holding, Reading
  <2>4. CASE ~TakesSeek
    BY <2>1, <2>2, <2>4 DEF Asked, Holding
  <2> QED
    BY <2>3, <2>4
<1> QED
  BY <1>5, <1>6, <1>7, <1>8, <1>9, <1>10, <1>11, <1>12, <1>13, <1>14, <1>15, <1>16, <1>17, <1>18,
     <1>19, <1>20, <1>21 DEF Next, Owner, Worker, Decoder, Controls

(* What a decoder's replacement starts at is kept until it has started. *)
LEMMA ReplacingNext ==
  ASSUME TypeOK, Reader, Replacing, [Next]_vars
  PROVE  Replacing'
<1>1. reopen \in ReopenSet
  BY Types
<1>2. ASSUME owner' = owner, reopen'.position = reopen.position
      PROVE  Replacing'
  BY <1>2 DEF Replacing
<1>3. CASE Push \/ Finish \/ Drained \/ Stopped \/ CannotResume \/ Restart
  BY <1>3 DEF Push, Finish, Drained, Stopped, CannotResume, Restart, Replacing
<1>4. CASE CloseDecoder
  BY <1>4, CloseFact DEF Replacing
<1>5. CASE ResetDecoder
  <2>1. worker.position \in Position /\ owner' = owner
        /\ (Back(worker.position) \/ Kept4Another(worker.position) \/ Done(worker.position))
    BY <1>5, ResetCases DEF ResetDecoder
  <2>2. \/ reopen'.position = reopen.position
        \/ reopen'.position = worker.position
    BY <1>1, <2>1 DEF Back, Kept4Another, Done, ReopenSet
  <2> QED
    BY <1>2, <2>1, <2>2, PositionFact DEF Replacing
<1>6. CASE AskReopen
  BY <1>1, <1>2, <1>6 DEF AskReopen, ReopenSet
<1> QED
  BY <1>2, <1>3, <1>4, <1>5, <1>6
     DEF Next, Owner, Worker, Decoder, Controls, Discontinuity, Glance, TakeRequest,
         CheckPosition, ReadChunk, OpenDecoder, BeginSubmit, EndSubmit, TakePicture,
         Present, Press, Poll, Over, vars

LEMMA AnsweringNext ==
  ASSUME TypeOK, TypeOK', Reader, Counted, Fresh, Asked, Answering, [Next]_vars
  PROVE  Answering'
<1>1. /\ backend \in Backends /\ backend' \in Backends /\ asked \in AskedSet /\ asked' \in AskedSet
  BY Types DEF TypeOK, AskedSet
<1>2. /\ backend.tag \in Int /\ backend'.tag \in Int /\ backend.tag >= 1
      /\ NoPicture.tag = 0
      /\ asked.told \in Int /\ asked'.told \in Int /\ backend.seek \in Int
  BY <1>1, Bounds DEF Backends, AskedSet, Fresh, NoPicture
<1>3. ASSUME backend'.tag = backend.tag, backend'.queue = backend.queue,
             backend'.decoding = backend.decoding, backend'.shown = backend.shown,
             asked'.told = asked.told
      PROVE  Answering'
  BY <1>3 DEF Answering
(* A new generation: nothing is of it yet. *)
<1>4. ASSUME backend'.tag > backend.tag, backend'.queue = backend.queue,
             backend'.decoding = backend.decoding, backend'.shown = backend.shown
      PROVE  Answering'
  <2>1. \A i \in 1 .. Len(backend.queue) : backend.queue[i].tag # backend'.tag
    <3>1. \A i \in 1 .. Len(backend.queue) :
            backend.queue[i].tag \in Nat /\ backend.queue[i].tag <= backend.tag
      BY BackendTag DEF Fresh
    <3> QED
      BY <1>2, <1>4, <3>1
  <2>2. backend.decoding.tag # backend'.tag /\ backend.shown.tag # backend'.tag
    <3>1. /\ backend.decoding.tag \in Nat /\ backend.decoding.tag <= backend.tag
          /\ backend.shown.tag \in Nat /\ backend.shown.tag <= backend.tag
      BY BackendTag DEF Fresh
    <3> QED
      BY <1>2, <1>4, <3>1
  <2> QED
    BY <1>4, <2>1, <2>2 DEF Answering
<1>5. CASE Restart
  <2>1. /\ backend'.tag = 1 /\ backend'.queue = <<>> /\ backend'.decoding = NoPicture
        /\ backend'.shown.tag = 0
    BY <1>5, RestartFact
  <2>2. \A i \in 1 .. Len(<<>>) : FALSE
    OBVIOUS
  <2> QED
    BY <1>2, <2>1, <2>2 DEF Answering
<1>6. CASE Push \/ Discontinuity \/ Finish \/ Drained \/ Stopped \/ CannotResume \/ CloseDecoder
  BY <1>3, <1>6 DEF Push, Discontinuity, Finish, Drained, Stopped, CannotResume,
     CloseDecoder
<1>7. CASE Glance \/ TakeRequest \/ ReadChunk \/ AskReopen \/ BeginSubmit
  BY <1>3, <1>7 DEF Glance, TakeRequest, ReadChunk, AskReopen, BeginSubmit
<1>8. CASE CheckPosition
  <2>1. backend' = backend /\ (asked' = asked \/ asked' = Forgotten)
    BY <1>8, CheckFact DEF CheckPosition
  <2>2. CASE asked' = asked
    BY <1>3, <2>1, <2>2
  <2>3. CASE asked' = Forgotten
    <3> DEFINE told == IF backend.seek < asked.told THEN backend.seek ELSE asked.told
    <3>1. asked' = [asked EXCEPT !.told = told]
      BY <2>3 DEF Forgotten
    <3>2. told <= asked.told /\ told \in Int
      BY <1>2
    <3> HIDE DEF told
    <3>3. asked'.told = told
      BY <1>1, <3>1 DEF AskedSet
    <3>4. \A n \in Int : n >= asked.told => n >= asked'.told
      BY <1>2, <3>2, <3>3
    <3>5. /\ backend.decoding.seek \in Int /\ backend.shown.seek \in Int
          /\ \A i \in 1 .. Len(backend.queue) : backend.queue[i].seek \in Int
      <4>1. \A p \in Picture : p.seek \in Int
        BY Bounds DEF Picture
      <4>2. backend.decoding \in Picture /\ backend.shown \in Picture
        BY <1>1 DEF Backends
      <4> QED
        BY <4>1, <4>2, BackendTag
    <3> QED
      BY <2>1, <3>4, <3>5 DEF Answering
  <2> QED
    BY <2>1, <2>2, <2>3
<1>9. CASE ResetDecoder
  <2>1. /\ worker.at = "reset" /\ worker.position \in Position
        /\ Back(worker.position) \/ Kept4Another(worker.position) \/ Done(worker.position)
    BY <1>9, ResetCases
  <2>2. worker.position.seek \in 0 .. MaxPresses /\ asked' = asked
    BY <1>9, <2>1 DEF Position, ResetDecoder
  <2>3. CASE Back(worker.position)
    <3>1. CASE IsOpen(backend)
      <4>1. /\ backend'.tag = backend.tag + 1 /\ backend'.queue = backend.queue
            /\ backend'.decoding = backend.decoding /\ backend'.shown = backend.shown
        BY <1>1, <2>3, <3>1, RepositionedFact DEF Back
      <4>2. backend'.tag > backend.tag
        BY <1>2, <4>1
      <4> QED
        BY <1>4, <4>1, <4>2
    <3>2. CASE ~IsOpen(backend)
      BY <1>1, <1>3, <2>2, <2>3, <3>2, RepositionedFact DEF Back
    <3> QED
      BY <3>1, <3>2
  <2>4. CASE Kept4Another(worker.position)
    BY <1>1, <1>4, <2>2, <2>4, BothFact DEF Kept4Another
  <2>5. CASE Done(worker.position)
    BY <1>3, <1>4, <2>1, <2>2, <2>5, DoneFact
  <2> QED
    BY <2>1, <2>3, <2>4, <2>5
<1>10. CASE OpenDecoder
  <2>1. /\ backend'.tag = backend.tag /\ backend'.queue = backend.queue
        /\ backend'.decoding = backend.decoding /\ backend'.shown = backend.shown
    BY <1>1, <1>10 DEF OpenDecoder, Backends
  <2> QED
    BY <1>3, <1>10, <2>1 DEF OpenDecoder
<1>11. CASE EndSubmit
  <2>1. /\ worker.at = "submit" /\ backend'.tag = backend.tag
        /\ backend'.decoding = backend.decoding /\ backend'.shown = backend.shown
        /\ backend.discard => backend' = backend
        /\ ~backend.discard =>
             \A i \in 1 .. Len(backend'.queue) :
               \/ i \in 1 .. Len(backend.queue) /\ backend'.queue[i] = backend.queue[i]
               \/ backend'.queue[i] = Submitted
        /\ Submitted.seek = backend.seek
    BY <1>11, EndSubmitFact
  <2>2. asked' = asked
    BY <1>11 DEF EndSubmit
  <2>3. CASE backend.discard
    BY <1>3, <2>1, <2>2, <2>3
  <2>4. CASE ~backend.discard
    <3>1. backend.seek >= asked.told
      BY <2>1, <2>4 DEF Asked
    <3> QED
      BY <2>1, <2>2, <2>4, <3>1 DEF Answering
  <2> QED
    BY <2>3, <2>4
<1>12. CASE TakePicture
  <2>1. /\ backend'.tag = backend.tag /\ backend'.shown = backend.shown /\ asked' = asked
        /\ \A i \in 1 .. Len(backend'.queue) :
             i + 1 \in 1 .. Len(backend.queue) /\ backend'.queue[i] = backend.queue[i + 1]
        /\ \/ backend'.decoding = backend.decoding
           \/ 1 \in 1 .. Len(backend.queue) /\ backend'.decoding = backend.queue[1]
    BY <1>12, TakeFact DEF TakePicture
  <2> QED
    BY <2>1 DEF Answering
<1>13. CASE Present
  <2>1. /\ backend'.queue = backend.queue /\ backend'.tag = backend.tag /\ asked' = asked
        /\ backend'.shown = backend.decoding /\ backend'.decoding = NoPicture
    BY <1>13, PresentFact DEF Present
  <2>2. NoPicture.tag # backend.tag
    BY <1>2
  <2> QED
    BY <2>1, <2>2 DEF Answering
<1>14. CASE Press
  <2>1. asked'.told = asked.told
    BY <1>1, <1>14, PressFact DEF AskedSet
  <2> QED
    BY <1>3, <1>14, <2>1 DEF Press
<1>15. CASE Over \/ UNCHANGED vars
  BY <1>3, <1>15 DEF Over, vars
<1>16. CASE Poll
  <2>1. /\ ~TakesSeek => asked'.told = asked.told
        /\ TakesSeek /\ ~IsOpen(backend) => asked'.told = asked.told
    BY <1>16, PollSeek
  <2>2. /\ backend'.queue = backend.queue /\ backend'.decoding = backend.decoding
        /\ backend'.shown = backend.shown
        /\ \/ backend'.tag = backend.tag /\ ~(TakesSeek /\ IsOpen(backend))
           \/ backend'.tag > backend.tag
    BY <1>16, PollFact
  <2> QED
    BY <1>3, <1>4, <2>1, <2>2
<1> QED
  BY <1>5, <1>6, <1>7, <1>8, <1>9, <1>10, <1>11, <1>12, <1>13, <1>14, <1>15, <1>16
     DEF Next, Owner, Worker, Decoder, Controls

--------------------------------------------------------------------------------
(***************************************************************************)
(* The invariant.                                                          *)
(***************************************************************************)
LEMMA LiveInit == Init => LiveInv
<1> SUFFICES ASSUME Init PROVE LiveInv
  OBVIOUS
<1>1. 0 \in Offset /\ 0 \in 0 .. MaxGeneration /\ 0 \in 0 .. MaxPresses
  BY Bounds DEF Offset
<1>2. history = [begin |-> 0, end |-> 0, generation |-> 0, marks |-> {}, chunks |-> <<>>]
      /\ worker = NewWorker /\ backend = NewBackend
  BY DEF Init
<1>3. <<>> \in Seq(Chunk) /\ <<>> \in Seq(Picture) /\ Len(<<>>) = 0
  OBVIOUS
<1>4. history \in Histories
  BY <1>1, <1>2, <1>3 DEF Histories
<1>5. backend \in Backends /\ Len(backend.queue) <= QueueLimit
  <2>1. QueueLimit \in Nat
    BY LiveAssumption
  <2>2. backend.queue = <<>> /\ Len(backend.queue) <= QueueLimit
    BY <1>2, <1>3, <2>1 DEF NewBackend
  <2>3. backend \in Backends
    BY <1>1, <1>2, <1>3, NoPictureType DEF NewBackend, Backends
  <2> QED
    BY <2>2, <2>3
<1>6. worker \in Workers
  BY <1>2, NewWorkerType
<1>7. /\ keys = [target |-> Unset, pending |-> FALSE, pause |-> Unset]
      /\ cursor = [read |-> 0, timeline |-> 0, paused |-> FALSE]
      /\ request = NoPosition
      /\ reopen = [position |-> NoPosition, time |-> Unset]
      /\ result = "ok" /\ finished = FALSE /\ owner = "feed" /\ channel \in Channels
      /\ asked = [seeks |-> 0, told |-> 0, presses |-> 0, raced |-> FALSE]
  BY DEF Init
<1>8. TypeOK
  BY <1>1, <1>4, <1>5, <1>6, <1>7 DEF TypeOK
<1>9. Kept
  <2>1. history.begin = 0 /\ history.end = 0 /\ history.marks = {} /\ history.chunks = <<>>
    BY <1>2
  <2>2. \A i \in 1 .. Len(<<>>) : FALSE
    OBVIOUS
  <2> QED
    BY <2>1, <2>2 DEF Kept
<1>10. worker.at = "top"
  BY <1>2 DEF NewWorker
<1>11. Reader
  BY <1>10 DEF Reader, Pushing
<1>12. Counted
  BY <1>7 DEF Counted
<1>13. /\ backend.tag = 1 /\ backend.queue = <<>> /\ backend.decoding = NoPicture
       /\ backend.shown = NoPicture /\ backend.last = NoPicture /\ ~backend.discard
       /\ backend.seek = 0 /\ NoPicture.tag = 0
       /\ \A i \in 1 .. Len(backend.queue) : FALSE
  BY <1>2 DEF NewBackend, NoPicture
<1>14. Fresh
  BY <1>10, <1>13 DEF Fresh
<1>15. Quiet
  BY <1>7 DEF Quiet
<1>16. Fed
  BY <1>13 DEF Fed
<1>19. Replacing
  BY <1>7 DEF Replacing
<1>17. Asked
  BY <1>7, <1>10, <1>13 DEF Asked, Reading, Holding
<1>18. Answering
  BY <1>13 DEF Answering
<1> QED
  BY <1>8, <1>9, <1>11, <1>12, <1>14, <1>15, <1>16, <1>17, <1>18, <1>19
     DEF LiveInv

LEMMA LiveNext == LiveInv /\ [Next]_vars => LiveInv'
<1> SUFFICES ASSUME LiveInv, [Next]_vars PROVE LiveInv'
  OBVIOUS
<1>1. TypeOK /\ Kept /\ Reader /\ Counted /\ Fresh /\ Quiet /\ Fed /\ Asked /\ Replacing
      /\ Answering
  BY DEF LiveInv
<1>2. TypeOK'
  BY <1>1, TypeNext
<1>3. Kept' /\ Counted' /\ Reader'
  BY <1>1, KeptNext, CountedNext, ReaderNext
<1>4. Fresh' /\ Quiet' /\ Fed'
  BY <1>1, <1>2, FreshNext, QuietNext, FedNext
<1>5. Asked' /\ Replacing' /\ Answering'
  BY <1>1, <1>2, AskedNext, ReplacingNext, AnsweringNext
<1> QED
  BY <1>2, <1>3, <1>4, <1>5 DEF LiveInv

(* The history, the reader, the decoder and the controls agree in every    *)
(* state, whatever the four threads' order (all of StreamRunner).          *)
THEOREM LiveInvariant == Spec => []LiveInv
BY LiveInit, LiveNext, PTL DEF Spec

(* Every variable keeps its type, and the decoder's queue its limit, for   *)
(* every channel and number of keys (iptv_native_backend_submit_video).    *)
THEOREM TypeCorrect == Spec => []TypeOK
<1>1. LiveInv => TypeOK
  BY DEF LiveInv
<1> QED
  BY LiveInvariant, <1>1, PTL

(***************************************************************************)
(* The decoder takes no picture while the viewer has paused, whatever      *)
(* seeks, resets and new decoders come between (UpdateLiveControls,        *)
(* ReadHistory): a pause it was not given yet finds nothing of the current *)
(* generation in its queue.  A decoder that is being closed is excepted:   *)
(* it plays out what it holds (pause_video, stop_video_worker).            *)
(***************************************************************************)
THEOREM PauseHolds == Spec => PauseIsKept
<1>1. LiveInv /\ [Next]_vars =>
        [backend'.decoding # backend.decoding /\ backend'.decoding # NoPicture =>
           ~cursor.paused \/ Closing]_vars
  <2> SUFFICES ASSUME LiveInv, Next, backend'.decoding # backend.decoding,
                      backend'.decoding # NoPicture
               PROVE  ~cursor.paused \/ Closing
    BY DEF vars
  <2>1. TypeOK /\ Reader /\ Quiet /\ backend \in Backends
    BY Types DEF LiveInv
  <2>2. TakePicture
    <3>1. CASE Restart
      BY <2>1, <3>1, RestartFact
    <3>2. CASE ResetDecoder
      <4>1. /\ worker.at = "reset" /\ worker.position \in Position
            /\ Back(worker.position) \/ Kept4Another(worker.position) \/ Done(worker.position)
        BY <2>1, <3>2, ResetCases
      <4>2. worker.position.seek \in 0 .. MaxPresses
        BY <4>1 DEF Position
      <4>3. CASE Back(worker.position)
        BY <2>1, <4>3, RepositionedFact DEF Back
      <4>4. CASE Kept4Another(worker.position)
        BY <2>1, <4>2, <4>4, BothFact DEF Kept4Another
      <4>5. CASE Done(worker.position)
        BY <2>1, <4>1, <4>5, DoneFact
      <4> QED
        BY <4>1, <4>3, <4>4, <4>5
    <3>3. CASE OpenDecoder
      BY <2>1, <3>3 DEF OpenDecoder, Backends
    <3>4. CASE EndSubmit
      BY <2>1, <3>4, EndSubmitFact
    <3>5. CASE Present
      BY <2>1, <3>5, PresentFact
    <3>6. CASE Poll
      BY <2>1, <3>6, PollFact
    <3> QED
      BY <3>1, <3>2, <3>3, <3>4, <3>5, <3>6
         DEF Next, Owner, Worker, Decoder, Controls, Push, Discontinuity, Finish, Drained,
             CannotResume, CloseDecoder, Stopped, Glance, TakeRequest, CheckPosition, ReadChunk, AskReopen,
             BeginSubmit, Press, Over, vars
  <2>3. /\ 1 \in 1 .. Len(backend.queue) /\ backend.queue[1].tag = backend.tag
        /\ ~backend.paused \/ Closing
    BY <2>1, <2>2, TakeFact
  <2> QED
    BY <2>1, <2>3 DEF Quiet
<1> QED
  BY LiveInvariant, <1>1, PTL DEF Spec, PauseIsKept

(***************************************************************************)
(* The decoder is fed one piece of the history: within one of its          *)
(* timelines every chunk follows the one before, all of one provider       *)
(* timeline, for every window, queue and channel (ReadHistory).            *)
(***************************************************************************)
THEOREM FedTheHistory == Spec => FedInOrder
<1>1. LiveInv /\ [Next]_vars =>
        [backend'.last \notin {backend.last, NoPicture} =>
           \/ backend.last = NoPicture /\ backend'.last.generation = cursor.timeline
           \/ backend'.last.tag = backend.last.tag /\ Follows(backend.last, backend'.last)]_vars
  <2> SUFFICES ASSUME LiveInv, Next, backend'.last # backend.last, backend'.last # NoPicture
               PROVE  \/ backend.last = NoPicture /\ backend'.last.generation = cursor.timeline
                      \/ /\ backend'.last.tag = backend.last.tag
                         /\ Follows(backend.last, backend'.last)
    BY DEF vars
  <2>1. TypeOK /\ Reader /\ Fresh /\ Fed /\ backend \in Backends
    BY Types DEF LiveInv
  <2>2. EndSubmit
    <3>1. CASE Restart
      BY <2>1, <3>1, RestartFact
    <3>2. CASE ResetDecoder
      <4>1. /\ worker.at = "reset" /\ worker.position \in Position
            /\ Back(worker.position) \/ Kept4Another(worker.position) \/ Done(worker.position)
        BY <2>1, <3>2, ResetCases
      <4>2. worker.position.seek \in 0 .. MaxPresses
        BY <4>1 DEF Position
      <4>3. CASE Back(worker.position)
        BY <2>1, <4>3, RepositionedFact DEF Back
      <4>4. CASE Kept4Another(worker.position)
        BY <2>1, <4>2, <4>4, BothFact DEF Kept4Another
      <4>5. CASE Done(worker.position)
        BY <2>1, <4>1, <4>5, DoneFact
      <4> QED
        BY <4>1, <4>3, <4>4, <4>5
    <3>3. CASE OpenDecoder
      BY <2>1, <3>3 DEF OpenDecoder, Backends
    <3>4. CASE TakePicture
      BY <2>1, <3>4, TakeFact
    <3>5. CASE Present
      BY <2>1, <3>5, PresentFact
    <3>6. CASE Poll
      BY <2>1, <3>6, PollFact
    <3> QED
      BY <3>1, <3>2, <3>3, <3>4, <3>5, <3>6
         DEF Next, Owner, Worker, Decoder, Controls, Push, Discontinuity, Finish, Drained,
             CannotResume, CloseDecoder, Stopped, Glance, TakeRequest, CheckPosition, ReadChunk, AskReopen,
             BeginSubmit, Press, Over, vars
  <2>3. /\ worker.at = "submit" /\ ~backend.discard /\ backend'.last = Submitted
        /\ Submitted.at = cursor.read /\ Submitted.generation = cursor.timeline
        /\ Submitted.tag = worker.tag
    BY <2>1, <2>2, EndSubmitFact
  <2>4. worker.tag = backend.tag
    BY <2>1, <2>3 DEF Fresh
  <2>5. CASE backend.last = NoPicture
    BY <2>3, <2>5
  <2>6. CASE backend.last # NoPicture
    <3>1. /\ backend.last.at + 1 = cursor.read /\ backend.last.generation = cursor.timeline
          /\ backend.last.tag = backend.tag
      BY <2>1, <2>6 DEF Fed
    <3> QED
      BY <2>3, <2>4, <3>1 DEF Follows
  <2> QED
    BY <2>5, <2>6
<1> QED
  BY LiveInvariant, <1>1, PTL DEF Spec, FedInOrder

(***************************************************************************)
(* A seek that the decoder was told about is acknowledged only by a        *)
(* picture of the timeline it began, or of a later one, however many seeks *)
(* are asked for and wherever they find the reader (UpdateLiveControls).   *)
(***************************************************************************)
THEOREM AcknowledgedByItsTimeline == Spec => AckIsOfNewTimeline
<1>1. LiveInv /\ [Next]_vars =>
        [keys.target # Unset /\ keys'.target = Unset => backend.shown.seek >= asked'.told]_vars
  <2> SUFFICES ASSUME LiveInv, Next, keys.target # Unset, keys'.target = Unset
               PROVE  backend.shown.seek >= asked'.told
    BY DEF vars
  <2>1. TypeOK /\ Counted /\ Answering
    BY DEF LiveInv
  <2>2. Poll
    <3>1. CASE Press
      BY <2>1, <3>1, PressFact
    <3> QED
      BY <3>1
         DEF Next, Owner, Worker, Decoder, Controls, Push, Discontinuity, Finish, Drained,
             CannotResume, CloseDecoder, Stopped, Restart, Glance, TakeRequest, CheckPosition, ResetDecoder, ReadChunk,
             OpenDecoder, AskReopen, BeginSubmit, EndSubmit, TakePicture, Present, Over, vars
  <2>3. HasCurrentPicture(backend')
    BY <2>2 DEF Poll
  <2>4. /\ backend'.tag = backend.tag /\ backend'.shown = backend.shown
        /\ ~(TakesSeek /\ IsOpen(backend))
    BY <2>1, <2>2, <2>3, PollFact DEF HasCurrentPicture
  <2>5. asked'.told = asked.told
    BY <2>1, <2>2, <2>4, PollSeek
  <2>6. backend.shown.tag = backend.tag
    BY <2>3, <2>4 DEF HasCurrentPicture
  <2> QED
    BY <2>1, <2>5, <2>6 DEF Answering
<1> QED
  BY LiveInvariant, <1>1, PTL DEF Spec, AckIsOfNewTimeline

--------------------------------------------------------------------------------
(***************************************************************************)
(* What the viewer sees.  The pictures shown, in hand and queued stand in  *)
(* line: neither generation nor provider timeline goes back, those of the  *)
(* current generation follow one another, and the last of them is what was *)
(* fed last.  Pictures of an older generation may have gaps in the queue,  *)
(* where the decoder drops them, but not in hand.                          *)
(***************************************************************************)
Latest(b) == IF b.decoding # NoPicture THEN b.decoding ELSE b.shown
Older(p, q) == p.tag <= q.tag /\ p.generation <= q.generation
Current(b, p, q) == p.tag = b.tag /\ q.tag = b.tag => Follows(p, q)
QueueInLine(b) ==
  /\ \A i, j \in 1 .. Len(b.queue) : i <= j => Older(b.queue[i], b.queue[j])
  /\ \A i \in 1 .. Len(b.queue) :
       i + 1 \in 1 .. Len(b.queue) => Current(b, b.queue[i], b.queue[i + 1])
LatestInLine(b) ==
  /\ \A i \in 1 .. Len(b.queue) : Older(Latest(b), b.queue[i])
  /\ 1 \in 1 .. Len(b.queue) => Current(b, Latest(b), b.queue[1])
  /\ b.decoding # NoPicture => InOrder(b.shown, b.decoding)
LastInLine(b) ==
  /\ b.last # NoPicture =>
       b.last = IF b.queue = <<>> THEN Latest(b) ELSE b.queue[Len(b.queue)]
  /\ b.last = NoPicture =>
       /\ Latest(b).tag # b.tag
       /\ \A i \in 1 .. Len(b.queue) : b.queue[i].tag # b.tag
OfTimelines(b) ==
  /\ Latest(b).generation <= cursor.timeline
  /\ \A i \in 1 .. Len(b.queue) : b.queue[i].generation <= cursor.timeline
Line ==
  /\ QueueInLine(backend) /\ LatestInLine(backend) /\ LastInLine(backend)
  /\ OfTimelines(backend) /\ cursor.timeline <= history.generation

LEMMA LineTypes ==
  ASSUME TypeOK
  PROVE  /\ backend.tag \in Nat /\ Len(backend.queue) \in Nat
         /\ Latest(backend) \in Picture /\ backend.shown \in Picture
         /\ \A i \in 1 .. Len(backend.queue) : backend.queue[i] \in Picture
         /\ \A p \in Picture : p.tag \in Nat /\ p.generation \in Nat /\ p.at \in Nat
         /\ cursor.timeline \in Nat /\ history.generation \in Nat
<1>1. backend \in Backends /\ cursor \in CursorSet /\ history \in Histories
  BY Types
<1>2. \A p \in Picture : p.tag \in Nat /\ p.generation \in Nat /\ p.at \in Nat
  BY Bounds DEF Picture, Offset
<1>3. Latest(backend) \in Picture /\ backend.shown \in Picture
  BY <1>1 DEF Latest, Backends
<1>4. cursor.timeline \in Nat /\ history.generation \in Nat
  BY <1>1, Bounds DEF CursorSet, Histories
<1> QED
  BY <1>2, <1>3, <1>4, BackendTag

(* The line stands while nothing is queued, taken or shown; a new          *)
(* generation of the decoder has nothing in it yet.                        *)
LEMMA LineStands ==
  ASSUME TypeOK, TypeOK', Fresh, Line,
         backend'.queue = backend.queue, backend'.decoding = backend.decoding,
         backend'.shown = backend.shown,
         \/ backend'.tag = backend.tag /\ backend'.last = backend.last
         \/ backend'.tag > backend.tag /\ backend'.last = NoPicture,
         cursor.timeline <= cursor'.timeline, cursor'.timeline <= history'.generation
  PROVE  Line'
<1> DEFINE q == backend.queue
<1>1. /\ backend.tag \in Nat /\ backend'.tag \in Nat /\ Len(q) \in Nat
      /\ Latest(backend) \in Picture /\ \A i \in 1 .. Len(q) : q[i] \in Picture
      /\ \A p \in Picture : p.tag \in Nat /\ p.generation \in Nat
      /\ cursor.timeline \in Nat /\ cursor'.timeline \in Nat
  <2>1. backend' \in Backends /\ cursor'.timeline \in 0 .. MaxGeneration
    BY DEF TypeOK, CursorSet
  <2>2. backend'.tag \in Nat /\ cursor'.timeline \in Nat
    BY <2>1, Bounds DEF Backends
  <2> QED
    BY <2>2, LineTypes
<1>2. Latest(backend') = Latest(backend)
  BY DEF Latest
<1>3. OfTimelines(backend)'
  <2>1. ASSUME NEW p \in Picture, p.generation <= cursor.timeline
        PROVE  p.generation <= cursor'.timeline
    BY <1>1, <2>1
  <2> QED
    BY <1>1, <1>2, <2>1 DEF Line, OfTimelines, Latest
<1>4. CASE backend'.tag = backend.tag /\ backend'.last = backend.last
  <2>1. QueueInLine(backend') /\ LatestInLine(backend') /\ LastInLine(backend')
    BY <1>2, <1>4 DEF Line, QueueInLine, LatestInLine, LastInLine, Current
  <2> QED
    BY <1>3, <2>1 DEF Line
<1>5. CASE backend'.tag > backend.tag /\ backend'.last = NoPicture
  <2>1. /\ Latest(backend).tag <= backend.tag
        /\ \A i \in 1 .. Len(q) : q[i].tag <= backend.tag
    BY DEF Fresh, Latest
  <2>2. /\ Latest(backend).tag # backend'.tag
        /\ \A i \in 1 .. Len(q) : q[i].tag # backend'.tag
    BY <1>1, <1>5, <2>1
  <2>3. QueueInLine(backend') /\ LatestInLine(backend') /\ LastInLine(backend')
    BY <1>2, <1>5, <2>2 DEF Line, QueueInLine, LatestInLine, LastInLine, Current
  <2> QED
    BY <1>3, <2>3 DEF Line
<1> QED
  BY <1>4, <1>5

(* A chunk is fed at the end of the line.                                  *)
LEMMA LineFed ==
  ASSUME TypeOK, Reader, Fresh, Fed, Line, EndSubmit
  PROVE  Line'
<1>1. history' = history /\ TypeOK
  BY DEF EndSubmit
<1>2. cursor'.timeline = cursor.timeline
  BY Types, EndSubmitFact DEF CursorSet
<1>3. CASE backend.discard
  <2>1. backend' = backend
    BY <1>3, EndSubmitFact
  <2> QED
    BY <1>1, <1>2, <2>1 DEF Line, OfTimelines
<1>4. CASE ~backend.discard
  <2> DEFINE q == backend.queue
             r == backend'.queue
             s == Submitted
  <2>1. /\ backend'.decoding = backend.decoding /\ backend'.shown = backend.shown
        /\ backend'.tag = backend.tag /\ backend'.last = s
        /\ s \in Picture /\ s.at = cursor.read /\ s.generation = cursor.timeline
        /\ s.tag = backend.tag
    BY <1>4, EndSubmitFact DEF Fresh
  <2>2. /\ Len(r) = Len(q) + 1 /\ r[Len(q) + 1] = s
        /\ \A i \in 1 .. Len(q) : r[i] = q[i]
    <3>1. backend \in Backends /\ q \in Seq(Picture)
      BY Types DEF Backends
    <3>2. backend' = [backend EXCEPT !.queue = Append(q, s), !.last = s]
      BY <1>4 DEF EndSubmit
    <3>3. r = Append(q, s)
      BY <3>1, <3>2 DEF Backends
    <3> QED
      BY <2>1, <3>1, <3>3, AppendProperties
  <2>3. /\ backend.tag \in Nat /\ Len(q) \in Nat /\ Latest(backend) \in Picture
        /\ \A i \in 1 .. Len(q) : q[i] \in Picture
        /\ \A p \in Picture : p.tag \in Nat /\ p.generation \in Nat
    BY LineTypes
  <2>4. Latest(backend') = Latest(backend)
    BY <2>1 DEF Latest
  <2> HIDE DEF q, r, s
  <2>5. \A i \in 1 .. Len(r) :
          (i \in 1 .. Len(q) /\ r[i] = q[i]) \/ (i = Len(q) + 1 /\ r[i] = s)
    BY <2>2, <2>3
  <2>6. \A i \in 1 .. Len(q) : Older(q[i], s)
    BY <2>1, <2>3 DEF Older, Fresh, Line, OfTimelines, q
  <2>7. Older(Latest(backend), s) /\ Older(s, s)
    BY <2>1, <2>3 DEF Older, Fresh, Line, OfTimelines, Latest
  <2>8. backend.last # NoPicture =>
          /\ Follows(backend.last, s) /\ backend.last.tag = backend.tag
          /\ backend.last = IF q = <<>> THEN Latest(backend) ELSE q[Len(q)]
    BY <2>1 DEF Fed, Follows, Line, LastInLine, q
  <2>9. q = <<>> <=> Len(q) = 0
    <3>1. q \in Seq(Picture)
      BY Types DEF Backends, q
    <3> QED
      BY <3>1, EmptySeq
  <2>10. QueueInLine(backend')
    <3>1. ASSUME NEW i \in 1 .. Len(r), NEW j \in 1 .. Len(r), i <= j
          PROVE  Older(r[i], r[j])
      BY <2>3, <2>5, <2>6, <2>7, <3>1 DEF Line, QueueInLine, q
    <3>2. ASSUME NEW i \in 1 .. Len(r), i + 1 \in 1 .. Len(r)
          PROVE  Current(backend', r[i], r[i + 1])
      <4>1. i \in 1 .. Len(q) /\ r[i] = q[i]
        BY <2>2, <2>3, <2>5, <3>2
      <4>2. CASE i + 1 \in 1 .. Len(q)
        BY <2>1, <2>2, <4>1, <4>2 DEF Line, QueueInLine, Current, q
      <4>3. CASE i + 1 \notin 1 .. Len(q)
        <5>1. i = Len(q) /\ r[i + 1] = s /\ Len(q) # 0
          BY <2>2, <2>3, <4>1, <4>3
        <5>2. backend.last = NoPicture => q[i].tag # backend.tag
          BY <4>1 DEF Line, LastInLine, q
        <5>3. backend.last # NoPicture => Follows(q[i], s)
          BY <2>8, <2>9, <5>1
        <5> QED
          BY <2>1, <4>1, <5>1, <5>2, <5>3 DEF Current
      <4> QED
        BY <4>2, <4>3
    <3> QED
      BY <3>1, <3>2 DEF QueueInLine, r
  <2>11. LatestInLine(backend')
    <3>1. \A i \in 1 .. Len(r) : Older(Latest(backend), r[i])
      BY <2>5, <2>7 DEF Line, LatestInLine, q
    <3>2. Current(backend', Latest(backend), r[1])
      <4>1. CASE Len(q) = 0
        <5>1. r[1] = s /\ q = <<>>
          BY <2>2, <2>9, <4>1
        <5> QED
          BY <2>1, <2>8, <5>1 DEF Current, Line, LastInLine
      <4>2. CASE Len(q) # 0
        <5>1. 1 \in 1 .. Len(q)
          BY <2>3, <4>2
        <5> QED
          BY <2>1, <2>2, <5>1 DEF Current, Line, LatestInLine, q
      <4> QED
        BY <4>1, <4>2
    <3> QED
      BY <2>1, <2>4, <3>1, <3>2 DEF LatestInLine, Line, r
  <2>12. LastInLine(backend')
    <3>1. r # <<>> /\ r[Len(r)] = s
      <4>1. r \in Seq(Picture)
        BY EndSubmitFact DEF Backends, r
      <4> QED
        BY <2>2, <2>3, <4>1, EmptySeq
    <3>2. s # NoPicture
      <4>1. s.tag # 0 /\ NoPicture.tag = 0
        BY <2>1, <2>3 DEF Fresh, NoPicture
      <4> QED
        BY <4>1
    <3> QED
      BY <2>1, <3>1, <3>2 DEF LastInLine, r
  <2>13. OfTimelines(backend)'
    <3>1. s.generation <= cursor.timeline
      BY <2>1, LineTypes
    <3>2. \A i \in 1 .. Len(r) : r[i].generation <= cursor.timeline
      BY <2>5, <3>1 DEF Line, OfTimelines, q
    <3> QED
      BY <1>2, <2>4, <3>2 DEF Line, OfTimelines, r
  <2> QED
    BY <1>1, <1>2, <2>10, <2>11, <2>12, <2>13 DEF Line
<1> QED
  BY <1>3, <1>4

(* The decoder takes the first of the line, or drops it when it is of an   *)
(* older generation.                                                       *)
LEMMA LineTaken ==
  ASSUME TypeOK, Fresh, Fed, Line, TakePicture
  PROVE  Line'
<1> DEFINE q == backend.queue
           r == backend'.queue
           h == q[1]
<1>1. /\ q \in Seq(Picture) /\ q # <<>> /\ r = Tail(q) /\ backend.decoding = NoPicture
      /\ backend'.decoding = IF Head(q).tag = backend.tag THEN Head(q) ELSE NoPicture
      /\ backend'.shown = backend.shown /\ backend'.tag = backend.tag
      /\ backend'.last = backend.last /\ cursor' = cursor /\ history' = history
  BY Types DEF TakePicture, IsCurrent, Backends
<1> HIDE DEF q, r
<1>2. /\ r \in Seq(Picture) /\ Head(q) = h /\ Len(r) = Len(q) - 1
      /\ \A i \in 1 .. Len(r) : r[i] = q[i + 1]
  BY <1>1, HeadTailProperties
<1>3. /\ Len(q) \in Nat /\ Len(q) # 0 /\ (r = <<>> <=> Len(r) = 0)
  BY <1>1, <1>2, EmptySeq
<1>4. /\ 1 \in 1 .. Len(q) /\ Len(q) \in 1 .. Len(q)
      /\ \A i \in 1 .. Len(r) : i \in Nat /\ i + 1 \in 1 .. Len(q)
  BY <1>2, <1>3
<1>5. /\ backend.tag \in Nat /\ backend.shown \in Picture
      /\ \A i \in 1 .. Len(q) : q[i] \in Picture
      /\ \A p \in Picture : p.tag \in Nat /\ p.generation \in Nat
  BY LineTypes DEF q
<1>6. Latest(backend) = backend.shown
  BY <1>1 DEF Latest
<1>7. h.tag = backend.tag => h # NoPicture
  BY <1>5 DEF Fresh, NoPicture
<1>8. Latest(backend') = IF h.tag = backend.tag THEN h ELSE backend.shown
  BY <1>1, <1>2, <1>7 DEF Latest
<1>9. Older(backend.shown, h) /\ h.tag <= backend.tag
  BY <1>4, <1>6 DEF Line, LatestInLine, Fresh, q
<1>10. h.tag # backend.tag => backend.shown.tag # backend.tag
  BY <1>4, <1>5, <1>9 DEF Older
<1>11. QueueInLine(backend')
  <2>1. ASSUME NEW i \in 1 .. Len(r), NEW j \in 1 .. Len(r), i <= j
        PROVE  Older(r[i], r[j])
    <3>1. i + 1 <= j + 1
      BY <1>4, <2>1
    <3> QED
      BY <1>2, <1>4, <3>1 DEF Line, QueueInLine, q
  <2>2. ASSUME NEW i \in 1 .. Len(r), i + 1 \in 1 .. Len(r)
        PROVE  Current(backend', r[i], r[i + 1])
    <3>1. Current(backend, q[i + 1], q[(i + 1) + 1])
      BY <1>4, <2>2 DEF Line, QueueInLine, q
    <3> QED
      BY <1>1, <1>2, <2>2, <3>1 DEF Current
  <2> QED
    BY <2>1, <2>2 DEF QueueInLine, r
<1>12. LatestInLine(backend')
  <2>1. CASE h.tag = backend.tag
    <3>1. ASSUME NEW i \in 1 .. Len(r)
          PROVE  Older(h, r[i])
      <4>1. 1 <= i + 1
        BY <1>4
      <4> QED
        BY <1>2, <1>4, <4>1 DEF Line, QueueInLine, q
    <3>2. ASSUME 1 \in 1 .. Len(r)
          PROVE  Current(backend', h, r[1])
      <4>1. 1 + 1 \in 1 .. Len(q)
        BY <1>4, <3>2
      <4>2. Current(backend, q[1], q[1 + 1])
        BY <1>4, <4>1 DEF Line, QueueInLine, q
      <4> QED
        BY <1>1, <1>2, <3>2, <4>2 DEF Current
    <3>3. InOrder(backend.shown, h)
      <4>1. Current(backend, backend.shown, h)
        BY <1>4, <1>6 DEF Line, LatestInLine, q
      <4> QED
        BY <1>9, <2>1, <4>1 DEF InOrder, Older, Current
    <3> QED
      BY <1>1, <1>2, <1>8, <2>1, <3>1, <3>2, <3>3 DEF LatestInLine, r
  <2>2. CASE h.tag # backend.tag
    <3>1. \A i \in 1 .. Len(r) : Older(backend.shown, r[i])
      BY <1>2, <1>4, <1>6 DEF Line, LatestInLine, q
    <3>2. Current(backend', backend.shown, r[1])
      BY <1>1, <1>10, <2>2 DEF Current
    <3> QED
      BY <1>1, <1>2, <1>8, <2>2, <3>1, <3>2 DEF LatestInLine, r
  <2> QED
    BY <2>1, <2>2
<1>13. LastInLine(backend')
  <2>1. CASE backend.last # NoPicture
    <3>1. backend.last = q[Len(q)] /\ backend.last.tag = backend.tag
      BY <1>1, <2>1 DEF Line, LastInLine, Fed, q
    <3>2. CASE Len(r) = 0
      <4>1. Len(q) = 1
        BY <1>2, <1>3, <3>2
      <4> QED
        BY <1>1, <1>3, <1>8, <2>1, <3>1, <3>2, <4>1 DEF LastInLine, r
    <3>3. CASE Len(r) # 0
      <4>1. Len(r) \in 1 .. Len(r) /\ Len(r) + 1 = Len(q)
        BY <1>2, <1>3, <3>3
      <4>2. r[Len(r)] = q[Len(q)]
        BY <1>2, <4>1
      <4> QED
        BY <1>1, <1>3, <2>1, <3>1, <3>3, <4>2 DEF LastInLine, r
    <3> QED
      BY <3>2, <3>3
  <2>2. CASE backend.last = NoPicture
    <3>1. /\ backend.shown.tag # backend.tag
          /\ \A i \in 1 .. Len(q) : q[i].tag # backend.tag
      BY <1>6, <2>2 DEF Line, LastInLine, q
    <3>2. \A i \in 1 .. Len(r) : r[i].tag # backend.tag
      BY <1>2, <1>4, <3>1
    <3> QED
      BY <1>1, <1>4, <1>8, <2>2, <3>1, <3>2 DEF LastInLine, r
  <2> QED
    BY <2>1, <2>2
<1>14. OfTimelines(backend)'
  <2>1. /\ backend.shown.generation <= cursor.timeline
        /\ \A i \in 1 .. Len(q) : q[i].generation <= cursor.timeline
    BY <1>6 DEF Line, OfTimelines, q
  <2>2. \A i \in 1 .. Len(r) : r[i].generation <= cursor.timeline
    BY <1>2, <1>4, <2>1
  <2> QED
    BY <1>1, <1>4, <1>8, <2>1, <2>2 DEF OfTimelines, r
<1> QED
  BY <1>1, <1>11, <1>12, <1>13, <1>14 DEF Line

(* The picture in hand is shown: it stays the latest.                      *)
LEMMA LinePresented ==
  ASSUME TypeOK, Line, Present
  PROVE  Line'
<1>1. /\ backend'.queue = backend.queue /\ backend'.tag = backend.tag
      /\ backend'.last = backend.last /\ backend.decoding # NoPicture
      /\ backend'.shown = backend.decoding /\ backend'.decoding = NoPicture
      /\ cursor' = cursor /\ history' = history
  BY PresentFact DEF Present
<1>2. Latest(backend') = Latest(backend)
  BY <1>1 DEF Latest
<1>3. QueueInLine(backend') /\ LatestInLine(backend') /\ LastInLine(backend')
  BY <1>1, <1>2 DEF Line, QueueInLine, LatestInLine, LastInLine, Current
<1>4. OfTimelines(backend)'
  BY <1>1, <1>2 DEF Line, OfTimelines
<1> QED
  BY <1>1, <1>3, <1>4 DEF Line

(* Another decoder has nothing in line; what was shown before it stays.    *)
LEMMA LineRestarted ==
  ASSUME TypeOK, Line, Restart
  PROVE  Line'
<1>1. /\ backend'.queue = <<>> /\ backend'.decoding = NoPicture /\ backend'.last = NoPicture
      /\ backend'.tag = 1 /\ backend'.shown = [backend.shown EXCEPT !.tag = 0]
      /\ backend'.shown.tag = 0 /\ history' = history
  BY RestartFact DEF Restart
<1>2. cursor'.timeline = cursor.timeline
  BY Types DEF Restart, CursorSet
<1>3. Latest(backend') = backend'.shown
  BY <1>1 DEF Latest
<1>4. \A i \in 1 .. Len(<<>>) : FALSE
  OBVIOUS
<1>5. QueueInLine(backend') /\ LatestInLine(backend') /\ LastInLine(backend')
  <2>1. 1 \notin 1 .. Len(<<>>)
    BY <1>4
  <2> QED
    BY <1>1, <1>3, <1>4, <2>1 DEF QueueInLine, LatestInLine, LastInLine
<1>6. OfTimelines(backend)'
  <2>1. backend'.shown.generation = backend.shown.generation
    BY <1>1, LineTypes DEF Picture
  <2>2. backend.shown.generation <= cursor.timeline
    <3>1. CASE backend.decoding = NoPicture
      BY <3>1 DEF Line, OfTimelines, Latest
    <3>2. CASE backend.decoding # NoPicture
      <4>1. /\ backend.shown.generation <= backend.decoding.generation
            /\ backend.decoding.generation <= cursor.timeline
        BY <3>2 DEF Line, OfTimelines, Latest, LatestInLine, InOrder
      <4>2. backend.decoding \in Picture
        BY Types DEF Backends
      <4> QED
        BY <4>1, <4>2, LineTypes
    <3> QED
      BY <3>1, <3>2
  <2> QED
    BY <1>1, <1>2, <1>3, <1>4, <2>1, <2>2 DEF OfTimelines
<1> QED
  BY <1>1, <1>2, <1>5, <1>6 DEF Line

LEMMA LineInit == Init => Line
<1> SUFFICES ASSUME Init PROVE Line
  OBVIOUS
<1>1. /\ backend.queue = <<>> /\ backend.decoding = NoPicture /\ backend.shown = NoPicture
      /\ backend.last = NoPicture /\ backend.tag = 1 /\ NoPicture.tag = 0
      /\ NoPicture.generation = 0 /\ cursor.timeline = 0 /\ history.generation = 0
  BY DEF Init, NewBackend, NoPicture
<1>2. Latest(backend) = NoPicture
  BY <1>1 DEF Latest
<1>3. (\A i \in 1 .. Len(<<>>) : FALSE) /\ 1 \notin 1 .. Len(<<>>)
  OBVIOUS
<1>4. QueueInLine(backend) /\ LatestInLine(backend) /\ LastInLine(backend)
  BY <1>1, <1>2, <1>3 DEF QueueInLine, LatestInLine, LastInLine
<1>5. OfTimelines(backend)
  BY <1>1, <1>2, <1>3 DEF OfTimelines
<1> QED
  BY <1>1, <1>4, <1>5 DEF Line

(* The history's timelines only go up, and the reader takes the current one. *)
LEMMA TimelinesRise ==
  ASSUME TypeOK, Reader, Line, [Next]_vars
  PROVE  cursor.timeline <= cursor'.timeline /\ cursor'.timeline <= history'.generation
<1>1. /\ history \in Histories /\ cursor \in CursorSet
      /\ history.generation \in Nat /\ cursor.timeline \in Nat
      /\ cursor.timeline <= history.generation
  BY Types, LineTypes DEF Line
<1>2. ASSUME cursor'.timeline = cursor.timeline, history'.generation = history.generation
      PROVE  cursor.timeline <= cursor'.timeline /\ cursor'.timeline <= history'.generation
  BY <1>1, <1>2
<1>3. CASE Push
  <2>1. \E chunk, start : history' = Appended(history, chunk, start)
    BY <1>3 DEF Push
  <2>2. history'.generation = history.generation
    BY <1>1, <2>1 DEF Appended, Histories
  <2> QED
    BY <1>2, <1>3, <2>2 DEF Push
<1>4. CASE Discontinuity
  <2>1. history'.generation = history.generation + 1 /\ cursor' = cursor
    BY <1>1, <1>4 DEF Discontinuity, Discontinued, Histories
  <2> QED
    BY <1>1, <2>1
<1>5. CASE ResetDecoder
  <2>1. history' = history
    BY <1>5 DEF ResetDecoder
  <2>2. \/ cursor' = cursor
        \/ /\ Retains(history, worker.position)
           /\ cursor' = [cursor EXCEPT !.read = worker.position.offset,
                                       !.timeline = worker.position.generation]
    BY <1>5 DEF ResetDecoder
  <2>3. \/ cursor' = cursor
        \/ cursor'.timeline = history.generation
    BY <1>1, <2>2 DEF Retains, CursorSet
  <2> QED
    BY <1>1, <2>1, <2>3
<1>6. CASE Restart \/ Drained
  BY <1>1, <1>2, <1>6 DEF Restart, Drained, CursorSet
<1>7. CASE EndSubmit
  BY <1>1, <1>2, <1>7 DEF EndSubmit, CursorSet
<1>8. CASE Poll
  BY <1>2, <1>8, PollReads DEF Poll
<1> QED
  BY <1>2, <1>3, <1>4, <1>5, <1>6, <1>7, <1>8
     DEF Next, Owner, Worker, Decoder, Controls, Finish, Stopped, CannotResume, CloseDecoder,
         Glance, TakeRequest, CheckPosition, ReadChunk, OpenDecoder, AskReopen, BeginSubmit,
         TakePicture, Present, Press, Over, vars

LEMMA LineNext ==
  ASSUME LiveInv, TypeOK', Line, [Next]_vars
  PROVE  Line'
<1>1. /\ TypeOK /\ Reader /\ Fresh /\ Fed /\ backend \in Backends
      /\ cursor.timeline <= cursor'.timeline /\ cursor'.timeline <= history'.generation
  BY Types, TimelinesRise DEF LiveInv
<1>2. ASSUME backend'.queue = backend.queue, backend'.decoding = backend.decoding,
             backend'.shown = backend.shown,
             \/ backend'.tag = backend.tag /\ backend'.last = backend.last
             \/ backend'.tag > backend.tag /\ backend'.last = NoPicture
      PROVE  Line'
  BY <1>1, <1>2, LineStands
<1>3. CASE Restart
  BY <1>1, <1>3, LineRestarted
<1>4. CASE ResetDecoder
  <2>1. /\ worker.at = "reset" /\ worker.position \in Position
        /\ Back(worker.position) \/ Kept4Another(worker.position) \/ Done(worker.position)
    BY <1>1, <1>4, ResetCases
  <2>2. worker.position.seek \in 0 .. MaxPresses
    BY <2>1 DEF Position
  <2>3. CASE Back(worker.position)
    <3>1. CASE IsOpen(backend)
      <4>1. /\ backend'.tag = backend.tag + 1 /\ backend'.queue = backend.queue
            /\ backend'.decoding = backend.decoding /\ backend'.shown = backend.shown
            /\ backend'.last = NoPicture
        BY <1>1, <2>3, <3>1, RepositionedFact DEF Back
      <4>2. backend'.tag > backend.tag
        BY <1>1, <4>1, LineTypes
      <4> QED
        BY <1>2, <4>1, <4>2
    <3>2. CASE ~IsOpen(backend)
      BY <1>1, <1>2, <2>3, <3>2, RepositionedFact DEF Back
    <3> QED
      BY <3>1, <3>2
  <2>4. CASE Kept4Another(worker.position)
    BY <1>1, <1>2, <2>2, <2>4, BothFact DEF Kept4Another
  <2>5. CASE Done(worker.position)
    BY <1>1, <1>2, <2>1, <2>5, DoneFact
  <2> QED
    BY <2>1, <2>3, <2>4, <2>5
<1>5. CASE OpenDecoder
  BY <1>1, <1>2, <1>5 DEF OpenDecoder, Backends
<1>6. CASE EndSubmit
  BY <1>1, <1>6, LineFed
<1>7. CASE TakePicture
  BY <1>1, <1>7, LineTaken
<1>8. CASE Present
  BY <1>1, <1>8, LinePresented
<1>9. CASE Poll
  BY <1>1, <1>2, <1>9, PollFact
<1> QED
  BY <1>2, <1>3, <1>4, <1>5, <1>6, <1>7, <1>8, <1>9
     DEF Next, Owner, Worker, Decoder, Controls, Push, Discontinuity, Finish, Drained,
         CannotResume, CloseDecoder, Stopped, Glance, TakeRequest, CheckPosition, ReadChunk, AskReopen,
         BeginSubmit, Press, Over, vars

(***************************************************************************)
(* The viewer sees the channel in its order, for every window, queue and   *)
(* channel: the next picture shown follows the one before, unless the      *)
(* decoder was repositioned between them, and none of a timeline the       *)
(* provider has left comes after one of the next (StreamRunner).           *)
(***************************************************************************)
THEOREM ViewerSeesInOrder == Spec => SeenInOrder
<1>1. LiveInv /\ LiveInv' /\ Line /\ [Next]_vars => Line'
  BY LineNext DEF LiveInv
<1>2. Line /\ LiveInv /\ [Next]_vars =>
        [backend'.shown \in {backend.shown, [backend.shown EXCEPT !.tag = 0]} \/
           InOrder(backend.shown, backend'.shown)]_vars
  <2> SUFFICES ASSUME Line, LiveInv, Next, backend'.shown # backend.shown
               PROVE  \/ backend'.shown = [backend.shown EXCEPT !.tag = 0]
                      \/ InOrder(backend.shown, backend'.shown)
    BY DEF vars
  <2>1. TypeOK /\ Reader /\ Fresh /\ backend \in Backends
    BY Types DEF LiveInv
  <2>2. CASE Restart
    BY <2>1, <2>2, RestartFact
  <2>3. CASE Present
    <3>1. backend'.shown = backend.decoding /\ backend.decoding # NoPicture
      BY <2>1, <2>3, PresentFact DEF Present
    <3> QED
      BY <3>1 DEF Line, LatestInLine
  <2>4. CASE ResetDecoder
    <3>1. /\ worker.at = "reset" /\ worker.position \in Position
          /\ Back(worker.position) \/ Kept4Another(worker.position) \/ Done(worker.position)
      BY <2>1, <2>4, ResetCases
    <3>2. worker.position.seek \in 0 .. MaxPresses
      BY <3>1 DEF Position
    <3>3. backend'.shown = backend.shown
      BY <2>1, <3>1, <3>2, RepositionedFact, BothFact, DoneFact DEF Back, Kept4Another
    <3> QED
      BY <3>3
  <2>5. CASE OpenDecoder
    BY <2>1, <2>5 DEF OpenDecoder, Backends
  <2>6. CASE EndSubmit
    BY <2>1, <2>6, EndSubmitFact
  <2>7. CASE TakePicture
    BY <2>1, <2>7, TakeFact
  <2>8. CASE Poll
    BY <2>1, <2>8, PollFact
  <2> QED
    BY <2>2, <2>3, <2>4, <2>5, <2>6, <2>7, <2>8
       DEF Next, Owner, Worker, Decoder, Controls, Push, Discontinuity, Finish, Drained,
           CannotResume, CloseDecoder, Stopped, Glance, TakeRequest, CheckPosition, ReadChunk, AskReopen,
           BeginSubmit, Press, Over, vars
<1> QED
  BY LineInit, LiveInvariant, <1>1, <1>2, PTL DEF Spec, SeenInOrder

--------------------------------------------------------------------------------
(***************************************************************************)
(* What is taken for granted of the history is what LiveHistory promises:  *)
(* an append slides the window, a break retires everything it covered.     *)
(***************************************************************************)
LEMMA ContentsFact ==
  /\ DOMAIN Contents = history.begin .. history.end - 1
  /\ \A o \in history.begin .. history.end - 1 : Contents[o] = ChunkAt(history, o)
  /\ DOMAIN Contents' = history'.begin .. history'.end - 1
  /\ \A o \in history'.begin .. history'.end - 1 : Contents'[o] = ChunkAt(history', o)
BY DEF Contents, ChunkAt

LEMMA AppendGoesOn ==
  ASSUME TypeOK, Kept, Push
  PROVE  Promised!GoOn
<1>1. /\ history \in Histories /\ KeptIn(history)
      /\ history' \in Histories /\ KeptIn(history') /\ Slid(history, history')
  BY ArrivalFact DEF TypeOK, Kept, KeptIn
<1>2. /\ history.begin \in Int /\ history.end \in Int /\ history'.begin \in Int
      /\ history.begin <= history'.begin /\ history'.end = history.end + 1
      /\ history'.begin <= history'.end /\ history'.end - history'.begin <= Window
  BY <1>1, Bounds DEF Histories, Offset, KeptIn, Slid
<1>3. \A o \in DOMAIN Contents \cap DOMAIN Contents' : Contents'[o] = Contents[o]
  <2> SUFFICES ASSUME NEW o \in DOMAIN Contents \cap DOMAIN Contents'
               PROVE  Contents'[o] = Contents[o]
    OBVIOUS
  <2>1. /\ o \in history.begin .. history.end - 1 /\ o \in history'.begin .. history'.end - 1
        /\ o \in history'.begin .. history.end - 1
    BY <1>2, ContentsFact
  <2>2. ChunkAt(history', o) = ChunkAt(history, o)
    BY <1>1, <2>1 DEF Slid
  <2> QED
    BY <2>1, <2>2, ContentsFact
<1>4. Promised!Slide
  <2>1. history'.marks \subseteq history'.begin .. history'.end - 1
    BY <1>1 DEF KeptIn
  <2> QED
    BY <1>2, <1>3, <2>1, ContentsFact DEF Promised!Slide
<1>5. \A m \in history.marks, k \in history'.marks \ history.marks : m < k
  <2> SUFFICES ASSUME NEW m \in history.marks, NEW k \in history'.marks \ history.marks
               PROVE  m < k
    OBVIOUS
  <2>1. k = history.end /\ m \in history.begin .. history.end - 1
    BY <1>1 DEF KeptIn, Slid
  <2> QED
    BY <1>2, <2>1
<1> QED
  BY <1>1, <1>4, <1>5 DEF Promised!GoOn, Slid

LEMMA BreakStartsAnew ==
  ASSUME TypeOK, Kept, Discontinuity
  PROVE  Promised!NewTimeline
<1>1. /\ history \in Histories /\ KeptIn(history) /\ history' = Discontinued(history)
  BY DEF TypeOK, Kept, KeptIn, Discontinuity
<1>2. /\ history'.begin = history.end /\ history'.end = history.end /\ history'.marks = {}
      /\ history'.generation = history.generation + 1
      /\ history.end \in Int /\ history.begin \in Int /\ history.begin <= history.end
  BY <1>1, Bounds DEF Discontinued, Histories, Offset, KeptIn
<1>3. DOMAIN Contents' = {} /\ history'.begin .. history'.end - 1 = {}
  BY <1>2, ContentsFact
<1>4. Promised!Slide
  BY <1>2, <1>3, Bounds DEF Promised!Slide
<1> QED
  BY <1>2, <1>4 DEF Promised!NewTimeline

(* The history this module takes for granted keeps the contract that the   *)
(* ring is shown to keep (Timeshift, HistoryImplemented): what is proved   *)
(* of the reader is proved over a history the ring can be. *)
THEOREM HistoryIsAsPromised == Spec => ImplementsHistory
<1>1. Init => Promised!Init
  <2>1. Init => DOMAIN Contents = {}
    BY ContentsFact DEF Init
  <2> QED
    BY <2>1 DEF Init, Promised!Init
<1>2. LiveInv /\ [Next]_vars => [Promised!Next]_(Promised!vars)
  <2> SUFFICES ASSUME LiveInv, [Next]_vars
               PROVE  [Promised!Next]_(Promised!vars)
    OBVIOUS
  <2>1. CASE history' = history
    BY <2>1 DEF Promised!vars, Contents
  <2>2. CASE Push
    BY <2>2, AppendGoesOn DEF LiveInv, Promised!Next
  <2>3. CASE Discontinuity
    BY <2>3, BreakStartsAnew DEF LiveInv, Promised!Next
  <2> QED
    BY <2>1, <2>2, <2>3, HistoryOwned
<1> QED
  BY <1>1, <1>2, LiveInvariant, PTL DEF Spec, ImplementsHistory, Promised!Spec
================================================================================
