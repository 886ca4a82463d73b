------------------------------- MODULE Timeshift -------------------------------
(***************************************************************************)
(* The live history ring (class Timeshift, src/src/iptv_timeshift.cpp):    *)
(* one download producer appends, a decoder and the controls thread read   *)
(* ranges, seek and reposition, all under one mutex.                       *)
(*                                                                         *)
(* Offsets count units, never bytes: a unit is one transport packet        *)
(* (packet_bytes), or one piece of a WebM record.  A cell of the ring      *)
(* holds the unit and, as a ghost, the absolute offset that wrote it.      *)
(* append() keeps the mutex through its loop; its chunks and the packets   *)
(* its indexer visits are separate steps here, and `op` says how far the   *)
(* holder has come: every other operation needs op.at = "idle".            *)
(***************************************************************************)
EXTENDS ReplayHistory

CONSTANTS
  Capacity,         \* capacity_, in units
  Duration,         \* duration_, in microseconds
  MarkLimit,        \* 32768 in trim()
  BackJump,         \* 900000 ticks: a clock falling further was reset
  ForwardJump,      \* 2700000 ticks
  WebmBackJump,     \* 10000000 us
  WebmForwardJump,  \* 30000000 us
  Lead,             \* 5000000 us of decoder lead when no flag helps
  RandomReach,      \* 10000000 us
  Modes,            \* the kinds of history a run starts
  Inputs,           \* sequences of transport units the download appends
  Blocks,           \* WebM blocks the download appends
  Pids,             \* video PIDs set_video_pid may be told
  Targets,          \* timestamps the controls seek to
  MaxOffset,        \* bound on end_ (UINT64_MAX in the code)
  MaxGeneration     \* bound on the resets that take no new offset

ASSUME RingAssumption ==
  /\ Capacity \in Nat /\ Capacity >= 2
  /\ Duration \in Nat \ {0} /\ MarkLimit \in Nat \ {0}
  /\ BackJump \in Nat /\ ForwardJump \in Nat
  /\ WebmBackJump \in Nat /\ WebmForwardJump \in Nat
  /\ Lead \in Nat /\ RandomReach \in Nat
  /\ MaxOffset \in Nat /\ MaxGeneration \in Nat
  /\ Modes \subseteq {"plain", "replay", "webm"}
  /\ Targets \subseteq Nat /\ Pids \subseteq Nat \ {0}

NoProgramme == [pid |-> 0, codec |-> "unknown"]
Slots == 0 .. Capacity - 1

\* A transport packet; pid is 0 unless the packet starts a timed video picture.
Programme == [pid : Nat, codec : {"unknown", "h264", "hevc", "vp9"}]
Packet == [sync : BOOLEAN, pid : Nat, ticks : 0 .. PtsModulus - 1, random : BOOLEAN,
           programme : Programme]
Junk == [sync |-> FALSE, pid |-> 0, ticks |-> 0, random |-> FALSE,
         programme |-> NoProgramme]
\* The pieces of a WebM record: its first unit carries the setup and the block.
Block == [video : Nat \ {0}, pts : Nat, units : 1 .. Capacity, key : BOOLEAN]
Body == [body |-> TRUE]
Unit == Packet \cup Block \cup {Body}

\* A cell of the ring, with the offset that wrote it; a picture of the index.
Cell == [at : Int, unit : Unit]
Mark == [offset : Nat, pts : Nat, random : BOOLEAN]
Parser == [history : History, time : Time, unit : Nat \cup {NoPts},
           known : BOOLEAN, programme : Programme, ok : BOOLEAN]

ASSUME InputAssumption == Inputs \subseteq Seq(Packet) /\ Blocks \subseteq Block

VARIABLES
  mode,         \* replay_enabled_, webm_enabled_
  storage, begin, end, scan, synchronized,
  generation, marks, latest,
  clock,        \* have_ticks_, ticks_, raw_ticks_
  pids,         \* video_pid_, indexed_pid_
  parser,       \* metadata_ and replay_result_
  webmVideo,    \* webm_video_; 0 before the first block
  op,           \* the holder of the mutex: where its loop is, what is left
  held          \* the position a client keeps from an earlier seek

ringVars == <<storage, begin, end, scan, synchronized>>
timeVars == <<generation, marks, latest, clock>>
vars == <<mode, storage, begin, end, scan, synchronized, generation, marks,
          latest, clock, pids, parser, webmVideo, op, held>>

NoPosition == [offset |-> 0, pts |-> NoPts, generation |-> 0]
Idle == [at |-> "idle", rest |-> <<>>, reset |-> FALSE]
NewParser == [history |-> EmptyHistory, time |-> UnseenTime, unit |-> NoPts,
              known |-> FALSE, programme |-> NoProgramme, ok |-> TRUE]

\* iptv_stream_discontinuity on the download parser, which has no backend.
Restarted(q) == [q EXCEPT !.history = EmptyHistory, !.time = UnseenTime,
                          !.unit = NoPts]

Init ==
  /\ mode \in Modes
  /\ storage = [s \in Slots |-> [at |-> -1, unit |-> Junk]]
  /\ begin = 0 /\ end = 0 /\ scan = 0 /\ synchronized = FALSE
  /\ generation = 0 /\ marks = <<>> /\ latest = 0
  /\ clock = [have |-> FALSE, ticks |-> 0, raw |-> 0]
  /\ pids = [video |-> 0, indexed |-> 0]
  /\ parser = NewParser
  /\ webmVideo = 0
  /\ op = Idle
  /\ held = NoPosition

--------------------------------------------------------------------------------
(***************************************************************************)
(* write(): copy units to the ring behind the end, and let the start       *)
(* follow when the ring is full.                                           *)
(***************************************************************************)
\* Faulty variants (Bad...) are never used by the model: each takes the place
\* of the definition below it to show that a property notices the fault.
Stored(units) ==
  [s \in Slots |->
     IF \E k \in 1 .. Len(units) : (end + k - 1) % Capacity = s
     THEN LET k == CHOOSE k \in 1 .. Len(units) : (end + k - 1) % Capacity = s
          IN  [at |-> end + k - 1, unit |-> units[k]]
     ELSE storage[s]]
BadStartStays(start, n) == start
BadStartForgetsDiscard(start, n) ==
  IF end + n > Capacity THEN end + n - Capacity ELSE 0
StartAfter(start, n) ==
  IF end + n - start > Capacity THEN end + n - Capacity ELSE start

(***************************************************************************)
(* trim(): marks leave from the front while they are overwritten, too old  *)
(* or too many.  Drops(ms, start, first, n): the loop stops after n.       *)
(***************************************************************************)
BadStaleByAge(ms, start, first, i) == ms[i].pts < first \/ Len(ms) - i + 1 > MarkLimit
Stale(ms, start, first, i) ==
  \/ ms[i].offset < start
  \/ ms[i].pts < first
  \/ Len(ms) - i + 1 > MarkLimit
Drops(ms, start, first, n) ==
  /\ \A i \in 1 .. n : Stale(ms, start, first, i)
  /\ n < Len(ms) => ~Stale(ms, start, first, n + 1)
After(ms, n) == SubSeq(ms, n + 1, Len(ms))
BadFirstTimeUnlimited(newest) ==
  IF mode = "replay" THEN ReplayStart(parser.history) ELSE 0
FirstTime(newest) ==
  Larger(IF newest > Duration THEN newest - Duration ELSE 0,
         IF mode = "replay" THEN ReplayStart(parser.history) ELSE 0)

--------------------------------------------------------------------------------
\* append(): take the mutex; refuse what would overflow the offset.
AppendInput(input) ==
  /\ op.at = "idle" /\ mode # "webm"
  /\ input # <<>>
  /\ Len(input) <= MaxOffset - end
  /\ op' = [at |-> "write", rest |-> input, reset |-> FALSE]
  /\ UNCHANGED <<mode, ringVars, timeVars, pids, parser, webmVideo, held>>

\* One chunk of append(): at most half the ring, so that what is not yet
\* indexed survives the copy.
BadWholeDownload == Len(op.rest)
ChunkSize == Smaller(Len(op.rest), Capacity \div 2)
WriteChunk ==
  /\ op.at = "write" /\ op.rest # <<>>
  /\ LET chunk == SubSeq(op.rest, 1, ChunkSize)
         start == StartAfter(begin, ChunkSize)
     IN  /\ storage' = Stored(chunk)
         /\ end' = end + ChunkSize
         /\ begin' = start
         /\ scan' = Larger(scan, start)
         /\ synchronized' = (synchronized /\ scan >= start)
         /\ op' = [op EXCEPT !.at = "index",
                             !.rest = SubSeq(@, ChunkSize + 1, Len(@))]
  /\ UNCHANGED <<mode, timeVars, pids, parser, webmVideo, held>>

AppendEnds ==
  /\ op.at = "write" /\ op.rest = <<>>
  /\ op' = Idle
  /\ UNCHANGED <<mode, ringVars, timeVars, pids, parser, webmVideo, held>>

--------------------------------------------------------------------------------
(***************************************************************************)
(* index(): the loop over the units that have arrived.                     *)
(***************************************************************************)
AtScan == storage[scan % Capacity].unit
Confirmed == synchronized \/ (scan + 1 < end /\ storage[(scan + 1) % Capacity].unit.sync)

IndexEnds ==
  /\ op.at = "index"
  /\ scan >= end \/ (AtScan.sync /\ ~synchronized /\ scan + 1 >= end)
  /\ op' = [op EXCEPT !.at = "finish"]
  /\ UNCHANGED <<mode, ringVars, timeVars, pids, parser, webmVideo, held>>

\* No sync byte here, or none where the next packet should start.
SkipUnit ==
  /\ op.at = "index" /\ scan < end
  /\ \/ ~AtScan.sync /\ synchronized' = FALSE
     \/ AtScan.sync /\ scan + 1 < end /\ ~Confirmed /\ UNCHANGED synchronized
  /\ scan' = scan + 1
  /\ UNCHANGED <<mode, storage, begin, end, timeVars, pids, parser, webmVideo,
                 op, held>>

(***************************************************************************)
(* packet(): unwrap the clock of a timed picture and mark it.  A clock     *)
(* that jumps starts a new timeline at this packet.                        *)
(***************************************************************************)
BadTimedAnyStream(p) == p.pid # 0
Timed(p) == p.pid # 0 /\ (pids.indexed = 0 \/ p.pid = pids.indexed)
ClockDelta(raw) ==
  LET ahead == (raw - clock.raw) % PtsModulus
  IN  IF ahead >= PtsModulus \div 2 THEN ahead - PtsModulus ELSE ahead
ClockJumps(raw) ==
  clock.have /\ (ClockDelta(raw) < -BackJump \/ ClockDelta(raw) > ForwardJump)
TicksOf(raw) ==
  IF clock.have /\ ~ClockJumps(raw) THEN clock.ticks + ClockDelta(raw) ELSE raw

MarkPicture(p) ==
  LET jump  == ClockJumps(p.ticks)
      ticks == TicksOf(p.ticks)
      kept  == IF jump THEN <<>> ELSE marks
      newest == IF jump THEN 0 ELSE latest
  IN  /\ begin' = IF jump THEN scan ELSE begin
      /\ generation' = IF jump THEN generation + 1 ELSE generation
      /\ clock' = [have |-> TRUE, ticks |-> ticks, raw |-> p.ticks]
      /\ pids' = [pids EXCEPT !.indexed = p.pid]
      /\ IF ticks < 0
         THEN marks' = kept /\ latest' = newest
         ELSE /\ marks' = Append(kept, [offset |-> scan, pts |-> Us(ticks),
                                        random |-> p.random])
              /\ latest' = Larger(newest, Us(ticks))

IndexPacket ==
  /\ op.at = "index" /\ scan < end
  /\ AtScan.sync /\ Confirmed
  /\ synchronized' = TRUE
  /\ IF Timed(AtScan) THEN MarkPicture(AtScan)
     ELSE UNCHANGED <<begin, generation, clock, pids, marks, latest>>
  /\ op' = [op EXCEPT
              !.at = IF mode = "replay" /\ parser.ok THEN "replay" ELSE "trim",
              !.reset = Timed(AtScan) /\ ClockJumps(AtScan.ticks)]
  /\ UNCHANGED <<mode, storage, end, scan, parser, webmVideo, held>>

(***************************************************************************)
(* The replay half of the loop: iptv_stream_scan of the same packet.  A    *)
(* programme table may choose another video stream; the start of a picture *)
(* completes the one before it, whose parameter sets are remembered.       *)
(* change: what that picture did to the parameter sets, and whether their  *)
(* copy could be allocated; the parser may also reject the packet.         *)
(***************************************************************************)
ProgrammeSeen(q, programme) ==
  IF q.programme \in {NoProgramme, programme} THEN [q EXCEPT !.programme = programme]
  ELSE [q EXCEPT !.programme = programme, !.history = EmptyHistory,
                 !.known = FALSE, !.unit = NoPts]
PictureSeen(q, raw, change) ==
  LET time   == Extended(q.time, raw)
      known  == q.known \/ change # "same"
  IN  [q EXCEPT
         !.time = time, !.unit = ExtendedUs(time), !.known = known,
         !.history = IF q.unit = NoPts THEN q.history
                     ELSE Remember(q.history, known, change # "same", change # "unsaved",
                                   IF change = "undated" THEN NoPts ELSE q.unit)]
Scanned(q, p) ==
  IF p.programme # NoProgramme THEN {ProgrammeSeen(q, p.programme)}
  ELSE IF p.pid # 0 /\ p.pid = q.programme.pid
  THEN {PictureSeen(q, p.ticks, c) : c \in {"same", "changed", "unsaved", "undated"}}
       \cup {[q EXCEPT !.ok = FALSE]}
  ELSE {q}

ScanSettings ==
  /\ op.at = "replay"
  /\ \E q \in Scanned(IF op.reset THEN Restarted(parser) ELSE parser, AtScan) :
       LET was      == parser.programme
           selected == q.programme.pid
           recoded  == was.codec # "unknown" /\ was.codec # q.programme.codec
           moved    == selected # 0 /\ (selected # pids.indexed \/ recoded)
           fresh    == moved /\ pids.indexed # 0
       IN  /\ pids' = [video |-> selected,
                       indexed |-> IF moved THEN selected ELSE pids.indexed]
           /\ marks' = IF fresh THEN <<>> ELSE marks
           /\ begin' = IF fresh THEN scan ELSE begin
           /\ latest' = IF fresh THEN 0 ELSE latest
           /\ clock' = IF fresh THEN [clock EXCEPT !.have = FALSE] ELSE clock
           /\ generation' = IF fresh THEN generation + 1 ELSE generation
           /\ parser' = IF fresh /\ q.ok THEN Restarted(q) ELSE q
  /\ op' = [op EXCEPT !.at = "trim", !.reset = FALSE]
  /\ UNCHANGED <<mode, storage, end, scan, synchronized, webmVideo, held>>

(***************************************************************************)
(* trim(), after every packet and once more when the loop has ended.       *)
(***************************************************************************)
Trim ==
  /\ op.at \in {"trim", "finish"}
  /\ \E n \in 0 .. Len(marks) :
       /\ Drops(marks, begin, FirstTime(latest), n)
       /\ marks' = After(marks, n)
       /\ begin' = IF n > 0 /\ n < Len(marks)
                   THEN Larger(begin, marks[n + 1].offset) ELSE begin
  /\ IF op.at = "trim"
     THEN scan' = scan + 1 /\ op' = [op EXCEPT !.at = "index", !.reset = FALSE]
     ELSE op' = [op EXCEPT !.at = "write"] /\ UNCHANGED scan
  /\ UNCHANGED <<mode, storage, end, synchronized, generation, latest, clock,
                 pids, parser, webmVideo, held>>

--------------------------------------------------------------------------------
(***************************************************************************)
(* append_webm(): a whole record at once.  The ring never starts with      *)
(* anything but a whole keyframe.                                          *)
(***************************************************************************)
AppendWebm(b) ==
  /\ op.at = "idle" /\ mode = "webm"
  /\ b.units <= MaxOffset - end
  /\ LET reset == \/ webmVideo # 0 /\ b.video # webmVideo
                  \/ clock.have /\ \/ b.pts < latest /\ latest - b.pts > WebmBackJump
                                   \/ b.pts > latest /\ b.pts - latest > WebmForwardJump
         kept   == IF reset THEN <<>> ELSE marks
         newest == IF reset THEN 0 ELSE latest
         bottom == IF reset THEN end ELSE begin
         filled == StartAfter(bottom, b.units)
         marked == IF b.key
                   THEN Append(kept, [offset |-> end, pts |-> b.pts, random |-> TRUE])
                   ELSE kept
     IN  /\ reset => generation < MaxGeneration
         /\ webmVideo' = b.video
         /\ clock' = [clock EXCEPT !.have = TRUE]
         /\ generation' = IF reset THEN generation + 1 ELSE generation
         /\ IF kept = <<>> /\ ~b.key
            THEN /\ marks' = kept /\ latest' = newest /\ begin' = bottom
                 /\ UNCHANGED <<storage, end>>
            ELSE /\ storage' = Stored(<<b>> \o [k \in 1 .. b.units - 1 |-> Body])
                 /\ end' = end + b.units
                 /\ latest' = Larger(newest, b.pts)
                 /\ \E n \in 0 .. Len(marked) :
                      /\ Drops(marked, filled, FirstTime(Larger(newest, b.pts)), n)
                      /\ marks' = After(marked, n)
                      /\ begin' = IF n = Len(marked) THEN end + b.units
                                  ELSE marked[n + 1].offset
  /\ UNCHANGED <<mode, scan, synchronized, pids, parser, op, held>>

--------------------------------------------------------------------------------
BadSetVideoPid(pid) ==
  /\ op.at = "idle" /\ mode = "plain"
  /\ pid # pids.video /\ pid # pids.indexed
  /\ generation < MaxGeneration
  /\ pids' = [video |-> pid, indexed |-> pid]
  /\ generation' = IF pids.indexed # 0 THEN generation + 1 ELSE generation
  /\ scan' = begin /\ synchronized' = FALSE
  /\ op' = [Idle EXCEPT !.at = "index"]
  /\ UNCHANGED <<mode, storage, begin, end, marks, latest, clock, parser, webmVideo, held>>
\* set_video_pid(): index what is retained again, under the new clock.
SetVideoPid(pid) ==
  /\ op.at = "idle" /\ mode = "plain"
  /\ pid # pids.video
  /\ IF pid = pids.indexed
     THEN /\ pids' = [pids EXCEPT !.video = pid]
          /\ UNCHANGED <<ringVars, timeVars, op>>
     ELSE /\ generation < MaxGeneration
          /\ pids' = [video |-> pid, indexed |-> pid]
          /\ generation' = IF pids.indexed # 0 THEN generation + 1 ELSE generation
          /\ marks' = <<>> /\ latest' = 0
          /\ scan' = begin /\ synchronized' = FALSE
          /\ clock' = [clock EXCEPT !.have = FALSE]
          /\ op' = [Idle EXCEPT !.at = "index"]
          /\ UNCHANGED <<storage, begin, end>>
  /\ UNCHANGED <<mode, parser, webmVideo, held>>

\* discontinuity(): a provider boundary expires everything retained.
Discontinuity ==
  /\ op.at = "idle" /\ generation < MaxGeneration
  /\ begin' = end /\ scan' = end /\ synchronized' = FALSE
  /\ marks' = <<>> /\ latest' = 0
  /\ clock' = [clock EXCEPT !.have = FALSE]
  /\ generation' = generation + 1
  /\ parser' = IF mode = "replay" /\ parser.ok THEN Restarted(parser) ELSE parser
  /\ UNCHANGED <<mode, storage, end, pids, webmVideo, op, held>>

\* discard_before(): the retention floor of a decoder, ignored when its
\* timeline is gone.
DiscardBefore(pts, gen) ==
  /\ op.at = "idle" /\ gen = generation
  /\ \E n \in 1 .. Len(marks) :
       /\ \A i \in 1 .. n : marks[i].pts < pts
       /\ n < Len(marks) => marks[n + 1].pts >= pts
       /\ marks' = After(marks, n)
       /\ begin' = Larger(begin, IF n = Len(marks) THEN end ELSE marks[n + 1].offset)
  /\ UNCHANGED <<mode, storage, end, scan, synchronized, generation, latest,
                 clock, pids, parser, webmVideo, op, held>>

--------------------------------------------------------------------------------
(***************************************************************************)
(* range_locked(), seek() and the checks of reposition().                  *)
(***************************************************************************)
Replayable == mode = "replay" => parser.ok /\ ReplayReady(parser.history)
FirstPts == IF mode = "replay" /\ ReplayReady(parser.history)
            THEN Larger(marks[1].pts, ReplayFirst(parser.history)) ELSE marks[1].pts
LastPts  == IF mode = "replay" /\ ReplayReady(parser.history)
            THEN Smaller(latest, parser.history.high) ELSE latest
RangeTimed == marks # <<>> /\ Replayable /\ (mode = "replay" => FirstPts <= LastPts)

PositionOf(i) == [offset |-> marks[i].offset, pts |-> marks[i].pts,
                  generation |-> generation]
BadEligibleAny == DOMAIN marks
Eligible == {i \in DOMAIN marks : FirstPts <= marks[i].pts /\ marks[i].pts <= LastPts}
\* The mark the loop of seek() is left with: the latest, the later on a tie.
Newest(S) == {i \in S : \A j \in S : \/ marks[j].pts < marks[i].pts
                                     \/ marks[j].pts = marks[i].pts /\ j <= i}
Oldest(S) == {i \in S : \A j \in S : i <= j}

\* seek(): the nearest random-access picture before the target or, when the
\* stream flags none near, a picture that gives the decoder some lead.
SeekTo(wanted) ==
  LET target   == Larger(FirstPts, Smaller(wanted, LastPts))
      led      == IF target > Lead THEN target - Lead ELSE 0
      early    == {i \in Eligible : /\ \A o \in Oldest(Eligible) : marks[o].pts <= marks[i].pts
                                    /\ marks[i].pts <= led}
      fallback == IF early = {} THEN Oldest(Eligible) ELSE Newest(early)
      random   == {i \in Newest({i \in Eligible : marks[i].random /\ marks[i].pts <= target}) :
                     mode = "webm" \/ target - marks[i].pts <= RandomReach}
  IN  IF ~RangeTimed \/ Eligible = {} THEN {NoPosition}
      ELSE {PositionOf(i) : i \in IF random # {} THEN random ELSE fallback}

\* seek_next(): the first retained picture from a timestamp on.
SeekNext(wanted) ==
  IF ~RangeTimed THEN {}
  ELSE {PositionOf(i) : i \in Oldest({i \in Eligible : marks[i].pts >= wanted})}

BadRetainedIfWritten(position) ==
  position # NoPosition /\ position.generation = generation /\ position.offset < end
Retained(position) ==
  /\ position # NoPosition
  /\ position.generation = generation
  /\ begin <= position.offset /\ position.offset < end
\* reposition() accepts the position, and so does the settings history.
CanReposition(position) ==
  /\ mode = "replay" /\ parser.ok /\ RangeTimed
  /\ Retained(position)
  /\ FirstPts <= position.pts /\ position.pts <= LastPts
  /\ Accepts(parser.history, position.pts)

\* seek() by the controls; the position is used later, without the mutex.
Seek(target) ==
  /\ op.at = "idle"
  /\ held' \in SeekTo(target)
  /\ UNCHANGED <<mode, ringVars, timeVars, pids, parser, webmVideo, op>>

Next ==
  \/ \E input \in Inputs : AppendInput(input)
  \/ WriteChunk \/ AppendEnds
  \/ IndexEnds \/ SkipUnit \/ IndexPacket \/ ScanSettings \/ Trim
  \/ \E b \in Blocks : AppendWebm(b)
  \/ \E pid \in Pids : SetVideoPid(pid)
  \/ Discontinuity
  \/ \E pts \in Targets, gen \in 0 .. generation : DiscardBefore(pts, gen)
  \/ \E target \in Targets : Seek(target)

Spec == Init /\ [][Next]_vars

--------------------------------------------------------------------------------
TypeOK ==
  /\ mode \in Modes
  /\ storage \in [Slots -> Cell]
  /\ begin \in Nat /\ end \in Nat /\ scan \in Nat /\ synchronized \in BOOLEAN
  /\ generation \in Nat /\ latest \in Nat
  /\ marks \in Seq(Mark)
  /\ clock \in [have : BOOLEAN, ticks : Int, raw : Nat]
  /\ pids \in [video : Nat, indexed : Nat]
  /\ parser \in Parser
  /\ webmVideo \in Nat
  /\ op \in [at : {"idle", "write", "index", "replay", "trim", "finish"},
             rest : Seq(Packet), reset : BOOLEAN]
  /\ held \in [offset : Nat, pts : Nat \cup {NoPts}, generation : Nat]

\* Every offset a reader may ask for still holds the unit written at that
\* offset: a copy made under the mutex is never a mixture of two laps.
RingIntact ==
  /\ begin <= end /\ end - begin <= Capacity
  /\ \A o \in begin .. end - 1 : storage[o % Capacity].at = o

\* The picture a mark describes: the unit at its offset starts a picture whose
\* clock is the mark's, whole wraps apart.
Describes(unit, pts) ==
  IF mode = "webm" THEN unit \in Block /\ unit.key /\ unit.pts = pts
  ELSE /\ unit \in Packet /\ unit.pid # 0
       /\ \E wraps \in 0 .. MaxOffset : pts = Us(unit.ticks + wraps * PtsModulus)

\* Outside the mutex the index only offers whole, retained pictures, in the
\* order of the download, and only of the video stream it follows.
MarksDescribeRetained ==
  op.at = "idle" =>
    \A i \in DOMAIN marks :
      /\ begin <= marks[i].offset /\ marks[i].offset < end
      /\ i > 1 => marks[i - 1].offset < marks[i].offset
      /\ marks[i].pts <= latest
      /\ Describes(storage[marks[i].offset % Capacity].unit, marks[i].pts)
      /\ mode # "webm" => storage[marks[i].offset % Capacity].unit.pid = pids.indexed

\* "It indexes one selected video clock, handles timestamp wrap and provider
\* timeline resets" (docs/ROADMAP_REMAINING.md:177): the settings parser never
\* places a picture later than the newest one the index knows.
OneVideoClock ==
  op.at = "idle" /\ mode = "replay" /\ parser.ok => parser.history.high <= latest

\* What the controls are offered can be used: the range never spans more than
\* the duration ("a five-minute transport ring"), whichever limit cut the
\* history, and a position seek() finds in it is accepted at once by the checks
\* of reposition() and of the settings history.
WindowBounded == RangeTimed => LastPts - FirstPts <= Duration
SeekLands ==
  mode = "replay" =>
    \A t \in Targets :
      /\ SeekTo(t) # {}
      /\ \A found \in SeekTo(t) \ {NoPosition} : CanReposition(found)
      /\ \A found \in SeekNext(t) : CanReposition(found)
SeekIsUsable == op.at = "idle" => WindowBounded /\ SeekLands

\* A position kept while the download went on is either refused or still
\* leads to the picture that was sought.
HeldIsExactOrRefused ==
  op.at = "idle" /\ Retained(held)
    => Describes(storage[held.offset % Capacity].unit, held.pts)

\* "The first remaining record must be a whole keyframe": a WebM history is
\* empty or a chain of whole records that starts with a keyframe.
WholeRecords ==
  mode = "webm" /\ begin < end =>
    /\ marks # <<>> /\ marks[1].offset = begin
    /\ \A o \in begin .. end - 1 :
         LET unit == storage[o % Capacity].unit
         IN  unit \in Block =>
               /\ o + unit.units <= end
               /\ \A k \in 1 .. unit.units - 1 : storage[(o + k) % Capacity].unit = Body
               /\ o + unit.units < end => storage[(o + unit.units) % Capacity].unit \in Block

(***************************************************************************)
(* The readers' view: the ring, the copy of every step under the mutex and *)
(* the index are a history as LiveHistory promises it, for whoever keeps   *)
(* an offset across any number of appends (read, seek, reposition).  Marks *)
(* that the start has passed are those trim() is about to drop.            *)
(***************************************************************************)
Offered == {marks[i].offset : i \in {j \in DOMAIN marks : begin <= marks[j].offset}}
Contents == [o \in begin .. end - 1 |-> storage[o % Capacity].unit]
Promised == INSTANCE LiveHistory WITH marks <- Offered, data <- Contents
ImplementsHistory == Promised!Spec

\* Retention and timelines only move forward, so an expired position or a
\* position of an earlier timeline never comes back to life.
ExpiredStaysExpired ==
  [][held' = held /\ held # NoPosition /\ ~Retained(held) => ~Retained(held)']_vars

\* A download larger than the ring is indexed before it overwrites itself.
IndexedBeforeOverwritten ==
  [][mode # "webm" /\ end' # end => begin' <= Larger(scan, begin)]_vars
================================================================================
