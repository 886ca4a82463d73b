------------------------- MODULE NativeQueues_proofs -------------------------
(***************************************************************************)
(* Proofs about NativeQueues, for any input, limits and number of keys:    *)
(* its types, among them that the queues keep within their limits; that    *)
(* the threads never mix the timelines before and after a seek; and that   *)
(* what the player reads back never returns to an earlier one.             *)
(***************************************************************************)
EXTENDS NativeQueues, TLAPS, SequenceTheorems

Queued == [pts : Pts, gen : Generation]
Place == {"next", "video", "audio", "boundary", "drain", "joinVideo", "joinAudio", "closed"}
Producers == [at : Place, next : 1 .. Len(stream) + 1, gen : Generation]
VideoPlace == {"top", "take", "gate", "decode", "done", "failed"}
Videos == [at : VideoPlace, gen : Generation, seek : BOOLEAN, show : Pts, refill : 0 .. Refill]
AudioPlace == {"top", "clear", "done", "failed"}
Audios == [at : AudioPlace, gen : Generation]
Stops == [all : BOOLEAN, video : BOOLEAN, audio : BOOLEAN]
Viewers == [paused : BOOLEAN, seeking : BOOLEAN, presses : 0 .. MaxPresses]

(* TypeOK, with the sets named.                                            *)
Shape ==
  /\ stream \in Streams /\ producer \in Producers
  /\ vq \in Seq(Queued) /\ Len(vq) <= VideoLimit
  /\ aq \in Seq(Queued) /\ Len(aq) <= AudioLimit
  /\ gen \in Generation
  /\ discard \in BOOLEAN /\ paused \in BOOLEAN /\ started \in BOOLEAN
  /\ draining \in BOOLEAN /\ sync \in BOOLEAN /\ sounding \in BOOLEAN
  /\ stopping \in Stops /\ hint \in [gen : Generation, from : Pts]
  /\ video \in Videos /\ audio \in Audios
  /\ presented \in Queued /\ inHand \in Queued /\ viewer \in Viewers
(* A thread past the look at its queue still finds a unit in it: nobody    *)
(* else takes one.                                                         *)
Heads ==
  /\ video.at \in {"gate", "decode"} => vq # <<>>
  /\ audio.at = "clear" => aq # <<>>
(* A submission under way is of a unit of the input.                       *)
Reading == producer.at \in {"video", "audio", "boundary"} => producer.next <= Len(stream)
(* A seek counts twice, the second time when the player resets.            *)
Counted == gen + (IF viewer.seeking THEN 1 ELSE 0) <= 1 + 2 * viewer.presses

QueuesInv == Shape /\ Heads /\ Reading /\ Counted

--------------------------------------------------------------------------------
(* The inputs and the bounds.                                              *)
LEMMA Inputs ==
  ASSUME Shape
  PROVE  /\ Len(stream) \in Nat
         /\ \A i \in 1 .. Len(stream) : stream[i].pts \in Pts
         /\ MaxPresses \in Nat /\ gen \in Nat /\ viewer.presses \in 0 .. MaxPresses
         /\ 0 \in Pts /\ 0 \in Generation /\ 1 \in Generation
<1>1. stream \in Seq([kind : Kinds, pts : Pts])
  BY QueuesAssumption DEF Shape, Pts
<1>2. Len(stream) \in Nat /\ \A i \in 1 .. Len(stream) : stream[i] \in [kind : Kinds, pts : Pts]
  BY <1>1, LenProperties, ElementOfSeq
<1>3. \A i \in 1 .. Len(stream) : stream[i].pts \in Pts
  BY <1>2
<1>4. MaxPresses \in Nat /\ 0 \in Pts /\ 0 \in Generation /\ 1 \in Generation
  BY QueuesAssumption DEF Pts, Generation
<1>5. gen \in Nat /\ viewer.presses \in 0 .. MaxPresses
  BY <1>4 DEF Shape, Generation, Viewers
<1> QED
  BY <1>2, <1>3, <1>4, <1>5

(* What becomes of the producer, and of the audio and the video thread.    *)
LEMMA ProducerMoves ==
  ASSUME Shape, NEW p \in Place, NEW g \in Generation
  PROVE  /\ [producer EXCEPT !.at = p] \in Producers
         /\ [producer EXCEPT !.at = p].at = p
         /\ [producer EXCEPT !.at = p].next = producer.next
         /\ [producer EXCEPT !.at = p, !.gen = g] \in Producers
         /\ [producer EXCEPT !.at = p, !.gen = g].at = p
         /\ [producer EXCEPT !.at = p, !.gen = g].next = producer.next
  BY DEF Shape, Producers

LEMMA ProducerReads ==
  ASSUME Shape, NEW p \in Place, NEW n \in 1 .. Len(stream) + 1, NEW g \in Generation
  PROVE  /\ [at |-> p, next |-> n, gen |-> g] \in Producers
         /\ [producer EXCEPT !.next = n] \in Producers
         /\ [producer EXCEPT !.next = n].at = producer.at
  BY DEF Shape, Producers

LEMMA ProducerIs ==
  ASSUME Shape
  PROVE  /\ producer.next \in 1 .. Len(stream) + 1 /\ producer.gen \in Generation
         /\ producer.next \in Nat /\ Len(stream) \in Nat
         /\ producer.next <= Len(stream) =>
              producer.next + 1 \in 1 .. Len(stream) + 1 /\ Passed \in Producers
         /\ Passed.at = "next" /\ Failed \in Producers /\ Failed.at = "drain"
<1>1. producer.next \in 1 .. Len(stream) + 1 /\ producer.gen \in Generation
  BY DEF Shape, Producers
<1>2. Len(stream) \in Nat /\ 0 \in Generation
  BY Inputs
<1>3. producer.next <= Len(stream) => producer.next + 1 \in 1 .. Len(stream) + 1
  BY <1>1, <1>2
<1>4. "next" \in Place /\ "drain" \in Place
  BY DEF Place
<1>5. /\ producer.next <= Len(stream) => Passed \in Producers
      /\ Passed.at = "next" /\ Failed \in Producers /\ Failed.at = "drain"
  BY <1>1, <1>2, <1>3, <1>4, ProducerReads, ProducerMoves DEF Passed, Failed
<1> QED
  BY <1>1, <1>2, <1>3, <1>5

LEMMA VideoMoves ==
  ASSUME Shape, NEW p \in VideoPlace
  PROVE  /\ [video EXCEPT !.at = p] \in Videos /\ [video EXCEPT !.at = p].at = p
         /\ [video EXCEPT !.refill = Refill] \in Videos
         /\ [video EXCEPT !.refill = Refill].at = video.at
<1>1. Refill \in 0 .. Refill
  BY QueuesAssumption
<1> QED
  BY <1>1 DEF Shape, Videos

LEMMA AudioMoves ==
  ASSUME Shape, NEW p \in AudioPlace
  PROVE  /\ [audio EXCEPT !.at = p] \in Audios /\ [audio EXCEPT !.at = p].at = p
         /\ [audio EXCEPT !.gen = gen] \in Audios
         /\ [audio EXCEPT !.gen = gen].at = audio.at
         /\ [at |-> p, gen |-> gen] \in Audios
  BY DEF Shape, Audios

LEMMA Pressed ==
  ASSUME Shape, viewer.presses < MaxPresses
  PROVE  /\ viewer.presses + 1 \in 0 .. MaxPresses
         /\ [viewer EXCEPT !.presses = @ + 1] \in Viewers
         /\ [viewer EXCEPT !.presses = @ + 1].presses = viewer.presses + 1
         /\ [viewer EXCEPT !.presses = @ + 1].seeking = viewer.seeking
         /\ [viewer EXCEPT !.paused = ~@, !.presses = @ + 1] \in Viewers
         /\ [viewer EXCEPT !.paused = ~@, !.presses = @ + 1].presses = viewer.presses + 1
         /\ [viewer EXCEPT !.paused = ~@, !.presses = @ + 1].seeking = viewer.seeking
<1>1. viewer.presses + 1 \in 0 .. MaxPresses
  BY Inputs
<1> QED
  BY <1>1 DEF Shape, Viewers

(* What a queue is after its first unit was taken, or one was added.       *)
LEMMA Taken ==
  ASSUME NEW q \in Seq(Queued), q # <<>>
  PROVE  /\ q[1] \in Queued /\ q[1].pts \in Pts /\ q[1].gen \in Generation
         /\ Tail(q) \in Seq(Queued) /\ Len(Tail(q)) = Len(q) - 1 /\ Len(q) \in Nat
<1>1. q[1] \in Queued
  BY EmptySeq, LenProperties, ElementOfSeq
<1> QED
  BY <1>1, HeadTailProperties, LenProperties DEF Queued

LEMMA Added ==
  ASSUME NEW q \in Seq(Queued), NEW pts \in Pts, NEW g \in Generation
  PROVE  /\ Append(q, Unit(pts, g)) \in Seq(Queued) /\ Append(q, Unit(pts, g)) # <<>>
         /\ Len(Append(q, Unit(pts, g))) = Len(q) + 1 /\ Len(q) \in Nat
<1>1. Unit(pts, g) \in Queued
  BY DEF Unit, Queued
<1>2. /\ Append(q, Unit(pts, g)) \in Seq(Queued)
      /\ Len(Append(q, Unit(pts, g))) = Len(q) + 1 /\ Len(q) \in Nat
  BY <1>1, AppendProperties, LenProperties
<1> QED
  BY <1>2, EmptySeq

LEMMA Empty == <<>> \in Seq(Queued) /\ Len(<<>>) = 0
  BY EmptySeq

LEMMA UnitTyped ==
  ASSUME NEW pts \in Pts, NEW g \in Generation
  PROVE  Unit(pts, g) \in Queued
  BY DEF Unit, Queued

(* The start.                                                              *)
LEMMA QueuesInit == Init => QueuesInv
<1> SUFFICES ASSUME Init PROVE QueuesInv
  OBVIOUS
<1>1. stream \in Seq([kind : Kinds, pts : Pts]) /\ Len(stream) \in Nat
  BY QueuesAssumption, LenProperties DEF Init, Pts
<1>2. 0 \in Pts /\ 0 \in Generation /\ 1 \in Generation /\ Refill \in 0 .. Refill
  BY QueuesAssumption DEF Pts, Generation
<1>3. presented \in Queued /\ inHand \in Queued
  BY <1>2 DEF Init, NoPicture, Queued
<1>4. Shape
  <2>1. producer \in Producers /\ hint \in [gen : Generation, from : Pts]
    BY <1>1, <1>2 DEF Init, Producers, Place
  <2>2. video \in Videos /\ audio \in Audios
    BY <1>2 DEF Init, Videos, VideoPlace, Audios, AudioPlace
  <2>3. stopping \in Stops /\ viewer \in Viewers
    BY QueuesAssumption DEF Init, Stops, Viewers
  <2>4. /\ vq \in Seq(Queued) /\ Len(vq) <= VideoLimit
        /\ aq \in Seq(Queued) /\ Len(aq) <= AudioLimit
    BY Empty, QueuesAssumption DEF Init
  <2> QED
    BY <1>2, <1>3, <2>1, <2>2, <2>3, <2>4 DEF Init, Shape
<1>5. Heads /\ Reading /\ Counted
  BY DEF Init, Heads, Reading, Counted
<1> QED
  BY <1>4, <1>5 DEF QueuesInv

--------------------------------------------------------------------------------
(* The demultiplexing thread begins a submission, or its end.              *)
LEMMA StartsSubmission ==
  ASSUME QueuesInv, SubmitVideo \/ BeginBoundary \/ EndInput \/ EndBoundary
                    \/ BoundaryTimesOut \/ Drain
  PROVE  QueuesInv'
<1>1. /\ producer' \in Producers
      /\ producer'.at \in {"next", "video", "boundary", "drain", "joinVideo"}
      /\ producer'.at \in {"video", "boundary"} => producer'.next <= Len(stream)
  <2>1. Shape /\ gen \in Generation 
        /\ "video" \in Place /\ "boundary" \in Place /\ "joinVideo" \in Place
    BY DEF QueuesInv, Shape, Place
  <2>2. CASE SubmitVideo \/ BeginBoundary
    <3>1. producer.next <= Len(stream)
      BY <2>1, <2>2, ProducerIs DEF SubmitVideo, BeginBoundary, NextIs, Ended
    <3>2. CASE SubmitVideo
      BY <2>1, <3>1, <3>2, ProducerMoves DEF SubmitVideo
    <3>3. CASE BeginBoundary
      BY <2>1, <3>1, <3>3, ProducerMoves DEF BeginBoundary
    <3> QED
      BY <2>2, <3>2, <3>3
  <2>3. CASE EndInput \/ BoundaryTimesOut
    BY <2>1, <2>3, ProducerIs DEF EndInput, BoundaryTimesOut
  <2>4. CASE EndBoundary
    BY <2>1, <2>4, ProducerIs DEF EndBoundary, QueuesInv, Reading
  <2>5. CASE Drain
    BY <2>1, <2>5, ProducerIs, ProducerMoves DEF Drain
  <2> QED
    BY <2>2, <2>3, <2>4, <2>5
<1>2. /\ UNCHANGED <<stream, queues, gen, discard, paused, hint, viewer, sync, sounding,
                     video, audio, presented, inHand>>
      /\ started' \in BOOLEAN /\ draining' \in BOOLEAN
      /\ stopping' \in Stops
  BY DEF QueuesInv, Shape, SubmitVideo, BeginBoundary, EndInput, EndBoundary,
         BoundaryTimesOut, Drain, queues, controls, gate, Stops
<1>3. Shape'
  BY <1>1, <1>2 DEF QueuesInv, Shape, Producers, queues
<1>4. Heads' /\ Reading' /\ Counted'
  BY <1>1, <1>2 DEF QueuesInv, Heads, Reading, Counted, queues
<1> QED
  BY <1>3, <1>4 DEF QueuesInv

LEMMA QueuesVideo ==
  ASSUME QueuesInv, QueueVideo
  PROVE  QueuesInv'
<1>1. /\ producer' \in Producers
      /\ producer'.at \in {"next", "drain"}
  BY ProducerIs DEF QueuesInv, Reading, QueueVideo
<1>2. vq' \in Seq(Queued) /\ Len(vq') <= VideoLimit /\ (vq # <<>> => vq' # <<>>)
  <2>1. CASE vq' = vq
    BY <2>1 DEF QueuesInv, Shape, Queued
  <2>2. CASE VideoRoom /\ vq' = Append(vq, Unit(Here, producer.gen))
    <3>1. Here \in Pts /\ producer.gen \in Generation /\ vq \in Seq(Queued)
      BY ProducerIs, Inputs DEF QueuesInv, Shape, Reading, QueueVideo, Here
    <3> QED
      BY <2>2, <3>1, Added, QueuesAssumption DEF VideoRoom
  <2> QED
    BY <2>1, <2>2 DEF QueueVideo
<1>3. UNCHANGED <<stream, aq, controls, gate, video, audio, presented, inHand>>
  BY DEF QueueVideo
<1>4. Shape'
  BY <1>1, <1>2, <1>3 DEF QueuesInv, Shape, Producers, controls, gate, Queued
<1>5. Heads' /\ Reading' /\ Counted'
  BY <1>1, <1>2, <1>3 DEF QueuesInv, Heads, Reading, Counted, controls, gate
<1> QED
  BY <1>4, <1>5 DEF QueuesInv

LEMMA SubmitsAudio ==
  ASSUME QueuesInv, SubmitAudio \/ QueueAudio
  PROVE  QueuesInv'
<1>1. /\ producer' \in Producers
      /\ producer'.at \in {"next", "audio"}
      /\ producer'.at = "audio" => producer'.next <= Len(stream)
  <2>1. Shape /\ gen \in Generation /\ "audio" \in Place
    BY DEF QueuesInv, Shape, Place
  <2>2. producer.next <= Len(stream)
    BY <2>1, ProducerIs DEF QueuesInv, Reading, SubmitAudio, QueueAudio, NextIs, Ended
  <2>3. Passed \in Producers /\ Passed.at = "next"
    BY <2>1, <2>2, ProducerIs
  <2>4. CASE producer' = Passed
    BY <2>3, <2>4
  <2>5. CASE producer' = [producer EXCEPT !.at = "audio", !.gen = gen]
    BY <2>1, <2>2, <2>5, ProducerMoves
  <2> QED
    BY <2>4, <2>5 DEF SubmitAudio, QueueAudio
<1>2. /\ aq' \in Seq(Queued) /\ Len(aq') <= AudioLimit
      /\ audio.at = "clear" => aq' # <<>>
  <2>1. CASE aq' = aq
    BY <2>1 DEF QueuesInv, Shape, Heads, Queued
  <2>2. CASE producer.at = "audio" /\ AudioRoom /\ aq' = Append(aq, Unit(Here, producer.gen))
    <3>1. Here \in Pts /\ producer.gen \in Generation /\ aq \in Seq(Queued)
      BY <2>2, ProducerIs, Inputs DEF QueuesInv, Shape, Reading, Here
    <3> QED
      BY <2>2, <3>1, Added, QueuesAssumption DEF AudioRoom
  <2>3. CASE aq' = <<>> /\ audio.at = "failed"
    BY <2>3, Empty, QueuesAssumption
  <2> QED
    BY <2>1, <2>2, <2>3 DEF SubmitAudio, QueueAudio, Silence
<1>3. /\ UNCHANGED <<stream, vq, gen, discard, paused, hint, viewer, started, draining, sync,
                     video, audio, presented, inHand>>
      /\ sounding' \in BOOLEAN
      /\ stopping' \in Stops
  BY DEF QueuesInv, Shape, SubmitAudio, QueueAudio, Silence, Stops
<1>4. Shape'
  BY <1>1, <1>2, <1>3 DEF QueuesInv, Shape, Producers, Queued
<1>5. Heads' /\ Reading' /\ Counted'
  BY <1>1, <1>2, <1>3 DEF QueuesInv, Heads, Reading, Counted
<1> QED
  BY <1>4, <1>5 DEF QueuesInv

LEMMA ResetsTimeline ==
  ASSUME QueuesInv, ResetTimeline
  PROVE  QueuesInv'
<1>1. gen + 1 \in Generation /\ gen + 1 <= 1 + 2 * viewer.presses
  <2>1. viewer.seeking /\ gen + 1 <= 1 + 2 * viewer.presses
    BY DEF QueuesInv, Counted, ResetTimeline
  <2> QED
    BY <2>1, Inputs DEF QueuesInv, Generation
<1>2. PICK start \in Pictures, shown \in Pictures :
        /\ producer' = [producer EXCEPT !.next = start]
        /\ hint' \in {hint, [gen |-> gen + 1, from |-> stream[shown].pts]}
  BY DEF ResetTimeline
<1>3. start \in 1 .. Len(stream) /\ stream[shown].pts \in Pts
  BY Inputs DEF QueuesInv, Pictures
<1>4. hint' \in [gen : Generation, from : Pts]
  BY <1>1, <1>2, <1>3 DEF QueuesInv, Shape
<1>5. /\ producer' \in Producers
      /\ producer'.at = "next"
  <2>1. start \in 1 .. Len(stream) + 1 /\ producer.at = "next" /\ "next" \in Place
    BY <1>3, Inputs DEF QueuesInv, ResetTimeline, Place
  <2> QED
    BY <1>2, <2>1, Inputs, ProducerReads DEF QueuesInv
<1>6. /\ viewer' \in Viewers
      /\ ~viewer'.seeking /\ viewer'.presses = viewer.presses
      /\ discard' \in BOOLEAN /\ paused' \in BOOLEAN /\ sync' \in BOOLEAN /\ gen' = gen + 1
      /\ UNCHANGED <<stream, queues, stopping, started, draining, sounding, video, audio,
                     presented, inHand>>
  BY DEF QueuesInv, Shape, ResetTimeline, Viewers
<1>7. Shape'
  BY <1>1, <1>4, <1>5, <1>6 DEF QueuesInv, Shape, Producers, queues
<1>8. Heads' /\ Reading' /\ Counted'
  BY <1>1, <1>5, <1>6, Inputs DEF QueuesInv, Heads, Reading, Counted, queues
<1> QED
  BY <1>7, <1>8 DEF QueuesInv

LEMMA SelectsAudio ==
  ASSUME QueuesInv, SelectAudio
  PROVE  QueuesInv'
<1>1. /\ viewer' \in Viewers
      /\ viewer'.seeking = viewer.seeking /\ viewer'.presses = viewer.presses + 1
  BY Pressed DEF QueuesInv, SelectAudio
<1>2. /\ audio' \in Audios
      /\ audio'.at # "clear" /\ aq' = <<>>
      /\ sync' \in BOOLEAN /\ sounding' \in BOOLEAN
      /\ stopping' \in Stops
      /\ UNCHANGED <<stream, producer, vq, gen, discard, paused, hint, started, draining,
                     video, presented, inHand>>
  <2>1. Shape /\ {"top", "done"} \subseteq AudioPlace
    BY DEF QueuesInv, AudioPlace
  <2>2. PICK on \in BOOLEAN :
          /\ sounding' = on /\ sync' = on
          /\ audio' = [at |-> IF on THEN "top" ELSE "done", gen |-> gen]
          /\ stopping' = [stopping EXCEPT !.audio = ~on]
    BY DEF SelectAudio
  <2>3. audio' \in Audios /\ audio'.at # "clear"
    BY <2>1, <2>2, AudioMoves
  <2>4. stopping' \in Stops
    BY <2>1, <2>2 DEF Shape, Stops
  <2> QED
    BY <2>2, <2>3, <2>4 DEF SelectAudio
<1>3. Shape'
  BY <1>1, <1>2, Empty, QueuesAssumption DEF QueuesInv, Shape, Producers, Queued
<1>4. Heads' /\ Reading' /\ Counted'
  BY <1>1, <1>2, Inputs DEF QueuesInv, Heads, Reading, Counted
<1> QED
  BY <1>3, <1>4 DEF QueuesInv

LEMMA Joins ==
  ASSUME QueuesInv, JoinVideo \/ JoinAudio
  PROVE  QueuesInv'
<1>1. /\ producer' \in Producers
      /\ producer'.at \in {"joinAudio", "closed"}
  <2>1. Shape /\ gen \in Generation /\ "joinAudio" \in Place /\ "closed" \in Place
    BY DEF QueuesInv, Shape, Place
  <2>2. CASE JoinVideo
    BY <2>1, <2>2, ProducerMoves DEF JoinVideo
  <2>3. CASE JoinAudio
    BY <2>1, <2>3, ProducerMoves DEF JoinAudio
  <2> QED
    BY <2>2, <2>3
<1>2. /\ vq' = vq \/ (vq' = <<>> /\ video.at \in {"done", "failed"})
      /\ aq' = aq \/ (aq' = <<>> /\ audio.at \in {"done", "failed"})
  BY DEF JoinVideo, JoinAudio, Finished
<1>3. /\ presented' \in Queued /\ inHand' \in Queued /\ stopping' \in Stops
      /\ UNCHANGED <<stream, gen, discard, paused, hint, viewer, gate, video, audio>>
  <2>1. NoPicture \in Queued /\ presented \in Queued /\ inHand \in Queued /\ stopping \in Stops
    BY Inputs DEF QueuesInv, Shape, NoPicture, Queued
  <2>2. [stopping EXCEPT !.audio = TRUE] \in Stops
    BY <2>1 DEF Stops
  <2> QED
    BY <2>1, <2>2 DEF JoinVideo, JoinAudio, controls
<1>4. Shape'
  <2>1. /\ vq' \in Seq(Queued) /\ Len(vq') <= VideoLimit
        /\ aq' \in Seq(Queued) /\ Len(aq') <= AudioLimit
    <3>1. /\ vq \in Seq(Queued) /\ Len(vq) <= VideoLimit /\ 0 <= VideoLimit
          /\ aq \in Seq(Queued) /\ Len(aq) <= AudioLimit /\ 0 <= AudioLimit
      BY QueuesAssumption DEF QueuesInv, Shape
    <3> QED
      BY <1>2, <3>1, Empty
  <2> QED
    BY <1>1, <1>3, <2>1 DEF QueuesInv, Shape, Producers, gate
<1>5. Heads' /\ Reading' /\ Counted'
  BY <1>1, <1>2, <1>3 DEF QueuesInv, Heads, Reading, Counted, gate
<1> QED
  BY <1>4, <1>5 DEF QueuesInv

--------------------------------------------------------------------------------
(* The video thread.                                                       *)
LEMMA ShowFromTyped ==
  ASSUME Shape, NEW first \in Pts
  PROVE  ShowFrom(first) \in Pts
  BY Inputs DEF Shape, ShowFrom

LEMMA VideoLooks ==
  ASSUME QueuesInv, \/ Freeze \/ GoOn \/ Idle \/ SameTimeline \/ PassGate \/ WaitAtGate
                    \/ OpenGate(FALSE) \/ OpenGate(TRUE) \/ Underrun
  PROVE  QueuesInv'
<1>1. /\ video' \in Videos
      /\ video'.at \in {"gate", "decode"} => vq # <<>>
  <2>1. /\ Shape /\ video \in Videos /\ "top" \in VideoPlace /\ "take" \in VideoPlace
        /\ "gate" \in VideoPlace /\ "decode" \in VideoPlace /\ "done" \in VideoPlace
    BY DEF QueuesInv, Shape, VideoPlace
  <2>2. CASE Freeze \/ Underrun
    BY <2>1, <2>2, VideoMoves DEF QueuesInv, Heads, Freeze, Underrun
  <2>3. CASE GoOn \/ Idle \/ WaitAtGate
    BY <2>1, <2>3, VideoMoves DEF GoOn, Idle, WaitAtGate
  <2>4. CASE SameTimeline
    BY <2>1, <2>4, VideoMoves DEF SameTimeline
  <2>5. CASE PassGate \/ OpenGate(FALSE) \/ OpenGate(TRUE)
    BY <2>1, <2>5, VideoMoves DEF QueuesInv, Heads, PassGate, OpenGate, GateApplies
  <2> QED
    BY <2>2, <2>3, <2>4, <2>5
<1>2. /\ started' \in BOOLEAN /\ sync' \in BOOLEAN
      /\ presented' \in Queued /\ inHand' \in Queued
      /\ UNCHANGED <<stream, producer, vq, aq, controls, draining, sounding, audio>>
  <2>1. /\ NoPicture \in Queued /\ presented \in Queued /\ inHand \in Queued
        /\ started \in BOOLEAN /\ sync \in BOOLEAN /\ sounding \in BOOLEAN
    BY Inputs DEF QueuesInv, Shape, NoPicture, Queued
  <2>2. CASE Freeze \/ GoOn \/ Idle \/ SameTimeline \/ PassGate \/ WaitAtGate
    BY <2>1, <2>2 DEF Freeze, GoOn, Idle, SameTimeline, PassGate, WaitAtGate, Outside, gate
  <2>3. CASE OpenGate(FALSE) \/ OpenGate(TRUE) \/ Underrun
    BY <2>1, <2>3 DEF OpenGate, Underrun, Outside
  <2> QED
    BY <2>2, <2>3
<1>3. Shape'
  BY <1>1, <1>2 DEF QueuesInv, Shape, Producers, Queued, controls
<1>4. Heads' /\ Reading' /\ Counted'
  BY <1>1, <1>2 DEF QueuesInv, Heads, Reading, Counted, controls
<1> QED
  BY <1>3, <1>4 DEF QueuesInv

LEMMA VideoBegins ==
  ASSUME QueuesInv, BeginTimeline
  PROVE  QueuesInv'
<1>1. vq # <<>> /\ vq[1].pts \in Pts /\ gen \in Generation
  BY Taken DEF QueuesInv, Shape, BeginTimeline, Queued
<1>2. /\ video' \in Videos
      /\ video'.at = "gate"
  <2>1. ShowFrom(vq[1].pts) \in Pts
    BY <1>1, ShowFromTyped DEF QueuesInv
  <2> QED
    BY <1>1, <2>1, QueuesAssumption DEF BeginTimeline, Videos, VideoPlace
<1>3. /\ started' \in BOOLEAN /\ presented' \in Queued /\ inHand' \in Queued
      /\ UNCHANGED <<stream, producer, vq, aq, controls, draining, sync, sounding, audio>>
  BY Inputs DEF QueuesInv, Shape, BeginTimeline, Outside, NoPicture, Queued
<1>4. Shape'
  BY <1>2, <1>3 DEF QueuesInv, Shape, Producers, Queued, controls
<1>5. Heads' /\ Reading' /\ Counted'
  BY <1>1, <1>2, <1>3 DEF QueuesInv, Heads, Reading, Counted, controls
<1> QED
  BY <1>4, <1>5 DEF QueuesInv

LEMMA VideoTakes ==
  ASSUME QueuesInv, DropStaleVideo \/ Decode \/ DecodeFails
  PROVE  QueuesInv'
<1>1. vq \in Seq(Queued) /\ vq # <<>> /\ vq' = Tail(vq)
  BY DEF QueuesInv, Shape, Heads, DropStaleVideo, Decode, DecodeFails, Queued
<1>2. vq' \in Seq(Queued) /\ Len(vq') <= VideoLimit /\ vq[1].pts \in Pts
  <2>1. Len(vq) <= VideoLimit
    BY DEF QueuesInv, Shape
  <2> QED
    BY <1>1, <2>1, Taken, QueuesAssumption
<1>3. Picture \in Queued
  BY <1>2, UnitTyped DEF QueuesInv, Shape, Picture, Videos
<1>4. /\ video' \in Videos
      /\ video'.at \in {"top", "failed"}
  <2>1. "top" \in VideoPlace /\ "failed" \in VideoPlace
    BY DEF VideoPlace
  <2> QED
    BY <2>1, VideoMoves DEF QueuesInv, DropStaleVideo, Decode, DecodeFails
<1>5. /\ presented' \in Queued /\ inHand' \in Queued
      /\ UNCHANGED <<stream, producer, aq, controls, gate, audio>>
  <2>1. presented \in Queued /\ inHand \in Queued /\ NoPicture \in Queued
    BY Inputs DEF QueuesInv, Shape, NoPicture, Queued
  <2> QED
    BY <1>3, <2>1 DEF DropStaleVideo, Decode, DecodeFails, Outside
<1>6. Shape'
  BY <1>2, <1>4, <1>5 DEF QueuesInv, Shape, Producers, Queued, controls, gate
<1>7. Heads' /\ Reading' /\ Counted'
  BY <1>4, <1>5 DEF QueuesInv, Heads, Reading, Counted, controls, gate
<1> QED
  BY <1>6, <1>7 DEF QueuesInv

--------------------------------------------------------------------------------
(* The audio thread.                                                       *)
LEMMA AudioTakes ==
  ASSUME QueuesInv, DropStaleAudio \/ DiscardSound \/ Play("top") \/ Play("failed")
  PROVE  QueuesInv'
<1>1. aq \in Seq(Queued) /\ aq # <<>> /\ aq' = Tail(aq)
  BY DEF QueuesInv, Shape, Heads, DropStaleAudio, DiscardSound, Play, ToPlay, AtSound, Queued
<1>2. aq' \in Seq(Queued) /\ Len(aq') <= AudioLimit
  <2>1. Len(aq) <= AudioLimit
    BY DEF QueuesInv, Shape
  <2> QED
    BY <1>1, <2>1, Taken, QueuesAssumption
<1>3. /\ audio' \in Audios
      /\ audio'.at # "clear" /\ sync' \in BOOLEAN
  <2>1. "top" \in AudioPlace /\ "failed" \in AudioPlace
    BY DEF AudioPlace
  <2> QED
    BY <2>1, AudioMoves DEF QueuesInv, Shape, DropStaleAudio, DiscardSound, Play, AtSound, Awake
<1>4. Elsewhere
  BY DEF DropStaleAudio, DiscardSound, Play
<1>5. Shape'
  BY <1>2, <1>3, <1>4 DEF QueuesInv, Shape, Producers, Queued, Elsewhere, controls
<1>6. Heads' /\ Reading' /\ Counted'
  BY <1>3, <1>4 DEF QueuesInv, Heads, Reading, Counted, Elsewhere, controls
<1> QED
  BY <1>5, <1>6 DEF QueuesInv

LEMMA AudioLooks ==
  ASSUME QueuesInv, EndAudio \/ AdoptGeneration \/ Align \/ AlignTimesOut
  PROVE  QueuesInv'
<1>1. /\ audio' \in Audios
      /\ audio'.at = "clear" => aq # <<>>
  <2>1. "done" \in AudioPlace /\ "clear" \in AudioPlace
    BY DEF AudioPlace
  <2> QED
    BY <2>1, AudioMoves DEF QueuesInv, EndAudio, AdoptGeneration, Align, AlignTimesOut, AtSound,
                            Awake
<1>2. Elsewhere /\ UNCHANGED <<aq, sync>>
  BY DEF EndAudio, AdoptGeneration, Align, AlignTimesOut
<1>3. Shape'
  BY <1>1, <1>2 DEF QueuesInv, Shape, Producers, Elsewhere, controls
<1>4. Heads' /\ Reading' /\ Counted'
  BY <1>1, <1>2 DEF QueuesInv, Heads, Reading, Counted, Elsewhere, controls
<1> QED
  BY <1>3, <1>4 DEF QueuesInv

--------------------------------------------------------------------------------
(* The viewer.                                                             *)
LEMMA ViewerPresses ==
  ASSUME QueuesInv, Pause \/ Seek \/ Leave
  PROVE  QueuesInv'
<1>1. /\ UNCHANGED <<stream, producer, queues, gate, hint, video, audio, presented, inHand>>
      /\ viewer.presses + 1 \in 0 .. MaxPresses
  BY Pressed DEF QueuesInv, Pause, Seek, Leave, Press
<1>2. /\ viewer' \in Viewers /\ viewer'.presses = viewer.presses + 1
      /\ discard' \in BOOLEAN /\ paused' \in BOOLEAN /\ stopping' \in Stops
      /\ \/ gen' = gen /\ viewer'.seeking = viewer.seeking
         \/ gen' = gen + 1 /\ viewer'.seeking
  <2>1. /\ Shape /\ viewer.presses < MaxPresses /\ viewer.paused \in BOOLEAN
        /\ discard \in BOOLEAN /\ paused \in BOOLEAN /\ stopping \in Stops
    BY DEF QueuesInv, Shape, Pause, Seek, Leave, Press, Viewers
  <2>2. CASE Pause
    <3>1. paused' \in BOOLEAN
      BY <2>1, <2>2, Zenon DEF Pause
    <3>2. /\ viewer' \in Viewers /\ viewer'.presses = viewer.presses + 1
          /\ viewer'.seeking = viewer.seeking
      BY <2>1, <2>2, Pressed DEF Pause
    <3> QED
      BY <2>1, <2>2, <3>1, <3>2 DEF Pause
  <2>3. CASE Seek
    <3>1. PICK still \in {viewer.paused, FALSE} :
            viewer' = [paused |-> still, seeking |-> TRUE, presses |-> viewer.presses + 1]
      BY <2>3 DEF Seek
    <3>2. still \in BOOLEAN
      BY <2>1
    <3>3. /\ viewer' \in Viewers /\ viewer'.presses = viewer.presses + 1
          /\ viewer'.seeking
      BY <1>1, <3>1, <3>2 DEF Viewers
    <3> QED
      BY <2>1, <2>3, <3>3 DEF Seek
  <2>4. CASE Leave
    BY <2>1, <2>4, Pressed DEF Leave, Stops
  <2> QED
    BY <2>2, <2>3, <2>4
<1>3. Counted'
  <2>1. viewer.seeking \in BOOLEAN /\ gen \in Nat /\ viewer.presses \in Nat
    BY Inputs DEF QueuesInv, Shape, Viewers
  <2>2. gen + (IF viewer.seeking THEN 1 ELSE 0) <= 1 + 2 * viewer.presses
    BY DEF QueuesInv, Counted
  <2> QED
    BY <1>2, <2>1, <2>2 DEF Counted
<1>4. gen' \in Generation
  <2>1. gen' \in Nat /\ gen' <= 1 + 2 * viewer'.presses
    BY <1>2, <1>3, Inputs DEF QueuesInv, Counted
  <2>2. viewer'.presses \in 0 .. MaxPresses /\ MaxPresses \in Nat
    BY <1>1, <1>2, Inputs DEF QueuesInv
  <2> QED
    BY <2>1, <2>2 DEF Generation
<1>5. Shape'
  BY <1>1, <1>2, <1>4 DEF QueuesInv, Shape, Producers, queues, gate
<1>6. Heads' /\ Reading'
  BY <1>1 DEF QueuesInv, Heads, Reading, queues, gate
<1> QED
  BY <1>3, <1>5, <1>6 DEF QueuesInv

--------------------------------------------------------------------------------
LEMMA QueuesStep == QueuesInv /\ [Next]_vars => QueuesInv'
<1> SUFFICES ASSUME QueuesInv, [Next]_vars PROVE QueuesInv'
  OBVIOUS
<1>1. CASE Input
  BY <1>1, StartsSubmission, SubmitsAudio, ResetsTimeline, SelectsAudio DEF Input
<1>2. CASE Submission
  BY <1>2, QueuesVideo, SubmitsAudio, StartsSubmission, Joins DEF Submission
<1>3. CASE VideoThread
  BY <1>3, VideoLooks, VideoBegins, VideoTakes DEF VideoThread
<1>4. CASE AudioThread \/ AlignTimesOut
  BY <1>4, AudioTakes, AudioLooks DEF AudioThread
<1>5. CASE Faults \/ Clock
  BY <1>5, VideoTakes, AudioTakes, StartsSubmission, VideoLooks DEF Faults, Clock
<1>6. CASE Pause \/ Seek \/ Leave
  BY <1>6, ViewerPresses
<1>7. CASE UNCHANGED vars
  BY <1>7 DEF QueuesInv, Shape, Producers, Heads, Reading, Counted, vars
<1> QED
  BY <1>1, <1>2, <1>3, <1>4, <1>5, <1>6, <1>7 DEF Next

(* A thread past its look at a queue finds a unit there, and the player's  *)
(* generations are bounded by the keys pressed.                            *)
THEOREM QueuesInvariant == Spec => []QueuesInv
<1> QED
  BY QueuesInit, QueuesStep, PTL DEF Spec

(* Shape: every field holds what it can hold, and the queues stay within  *)
(* VIDEO_QUEUE_CAPACITY and AUDIO_QUEUE_CAPACITY.                          *)
THEOREM QueuesTyped == Spec => []TypeOK
<1>1. QueuesInv => TypeOK
  BY DEF QueuesInv, Shape, TypeOK, Queued, Producers, Place, Videos, VideoPlace, Audios,
         AudioPlace, Stops, Viewers
<1> QED
  BY <1>1, QueuesInvariant, PTL

--------------------------------------------------------------------------------
(***************************************************************************)
(* The timelines: TimelinesApart, with what it rests on.  No generation    *)
(* that is kept anywhere is ahead of the current one, and the video thread *)
(* adopts none that is asked for and not yet carried out.                  *)
(***************************************************************************)
Past(q) ==
  /\ Ordered(q)
  /\ \A i \in 1 .. Len(q) : q[i].gen <= gen
  /\ discard => Earlier(q)
Behind ==
  /\ Past(vq) /\ Past(aq)
  /\ hint.gen <= gen
  /\ discard => video.gen < gen
ApartInv == TimelinesApart /\ Behind

(* A queue keeps its order and its past when a unit is taken, and when the *)
(* unit of a submission that no seek overtook is added.                    *)
LEMMA PastTaken ==
  ASSUME QueuesInv, NEW q \in Seq(Queued), q # <<>>, Past(q)
  PROVE  Past(Tail(q))
<1>1. /\ Len(Tail(q)) = Len(q) - 1 /\ Len(q) \in Nat
      /\ \A i \in 1 .. Len(Tail(q)) : Tail(q)[i] = q[i + 1] /\ i + 1 \in 1 .. Len(q)
  BY HeadTailProperties, LenProperties, EmptySeq
<1> QED
  BY <1>1 DEF Past, Ordered, Earlier

LEMMA PastAdded ==
  ASSUME QueuesInv, NEW q \in Seq(Queued), NEW pts \in Pts, Past(q), ~discard
  PROVE  /\ Past(Append(q, Unit(pts, gen)))
         /\ q # <<>> => Append(q, Unit(pts, gen))[1] = q[1]
<1> DEFINE r == Append(q, Unit(pts, gen))
<1>1. gen \in Nat /\ gen \in Generation /\ Unit(pts, gen) \in Queued /\ Unit(pts, gen).gen = gen
  BY UnitTyped, Inputs DEF QueuesInv, Shape, Unit
<1>2. /\ Len(r) = Len(q) + 1 /\ Len(q) \in Nat
      /\ \A i \in 1 .. Len(q) : r[i] = q[i]
      /\ r[Len(q) + 1] = Unit(pts, gen)
  BY <1>1, AppendProperties, LenProperties
<1>3. \A i \in 1 .. Len(r) : i \in 1 .. Len(q) \/ i = Len(q) + 1
  BY <1>2
<1>4. \A i \in 1 .. Len(r) : r[i].gen <= gen
  BY <1>1, <1>2, <1>3 DEF Past
<1>5. Ordered(r)
  BY <1>1, <1>2, <1>3, <1>4 DEF Past, Ordered
<1>6. q # <<>> => r[1] = q[1]
  BY <1>2, EmptySeq
<1> QED
  BY <1>4, <1>5, <1>6 DEF Past

LEMMA PastEmpty == Past(<<>>)
  BY Empty DEF Past, Ordered, Earlier

LEMMA PastFirst ==
  ASSUME NEW q \in Seq(Queued), q # <<>>, Past(q)
  PROVE  q[1].gen <= gen /\ (discard => q[1].gen < gen)
<1>1. 1 \in 1 .. Len(q)
  BY EmptySeq, LenProperties
<1> QED
  BY <1>1 DEF Past, Earlier

(* The generations are numbers.                                            *)
LEMMA Numbers ==
  ASSUME QueuesInv
  PROVE  /\ gen \in Nat /\ video.gen \in Nat /\ audio.gen \in Nat /\ hint.gen \in Nat
         /\ presented.gen \in Nat /\ inHand.gen \in Nat
         /\ vq \in Seq(Queued) /\ aq \in Seq(Queued)
         /\ discard \in BOOLEAN /\ viewer.seeking \in BOOLEAN
<1>1. MaxPresses \in Nat
  BY QueuesAssumption
<1> QED
  BY <1>1 DEF QueuesInv, Shape, Generation, Videos, Audios, Queued, Viewers

(* A step that begins and ends no timeline and completes no picture.       *)
LEMMA Steady ==
  ASSUME QueuesInv, ApartInv,
         UNCHANGED <<gen, discard, hint, presented, inHand>>,
         viewer'.seeking = viewer.seeking,
         Past(vq)', Past(aq)',
         producer'.at \in {"video", "audio"} => producer' = producer \/ producer'.gen = gen,
         video'.gen = video.gen, video'.seek = video.seek,
         video'.at \in {"gate", "decode"} => vq'[1].gen = video.gen,
         audio'.at = "clear" => aq'[1].gen = audio'.gen
  PROVE  ApartInv'
<1>1. Asked'
  BY DEF ApartInv, TimelinesApart, Asked, Past, Earlier
<1>2. Submitted'
  BY DEF ApartInv, TimelinesApart, Submitted, Blocked, Past
<1>3. UnderWay' /\ Accounted'
  BY DEF ApartInv, TimelinesApart, UnderWay, Accounted, AtOnce, SeekStillPending
<1>4. Behind'
  BY DEF ApartInv, Behind
<1> QED
  BY <1>1, <1>2, <1>3, <1>4 DEF ApartInv, TimelinesApart

(* What the invariant says of the queues as they are.                      *)
LEMMA AsTheyAre ==
  ASSUME QueuesInv, ApartInv
  PROVE  /\ Past(vq) /\ Past(aq)
         /\ video.at \in {"gate", "decode"} => vq[1].gen = video.gen
         /\ audio.at = "clear" => aq[1].gen = audio.gen
         /\ producer.at \in {"video", "audio"} => discard \/ producer.gen = gen
  BY DEF ApartInv, TimelinesApart, Behind, UnderWay, Submitted, Blocked

LEMMA ApartInit == Init => ApartInv
<1> SUFFICES ASSUME Init PROVE ApartInv
  OBVIOUS
<1>1. Past(<<>>)
  BY Empty DEF Past, Ordered, Earlier
<1>2. Past(vq) /\ Past(aq) /\ Ordered(vq) /\ Ordered(aq)
  BY <1>1 DEF Init, Past
<1>3. Asked /\ UnderWay /\ Accounted
  BY DEF Init, Asked, UnderWay, Accounted, NoPicture
<1>4. Submitted /\ hint.gen <= gen /\ (discard => video.gen < gen)
  BY <1>2 DEF Init, Submitted, Blocked
<1> QED
  BY <1>2, <1>3, <1>4 DEF ApartInv, TimelinesApart, Behind

--------------------------------------------------------------------------------
(* The demultiplexing thread.                                              *)
LEMMA SubmitsApart ==
  ASSUME QueuesInv, ApartInv,
         SubmitVideo \/ BeginBoundary \/ EndInput \/ EndBoundary \/ BoundaryTimesOut \/ Drain
  PROVE  ApartInv'
<1>1. UNCHANGED <<vq, aq, gen, discard, hint, presented, inHand, viewer, video, audio>>
  BY DEF SubmitVideo, BeginBoundary, EndInput, EndBoundary, BoundaryTimesOut, Drain, queues,
         controls
<1>2. producer'.at \in {"video", "audio"} => producer'.gen = gen
  <2>1. producer \in Producers /\ Passed.at = "next" /\ Failed.at = "drain"
    BY ProducerIs DEF QueuesInv, Shape
  <2>2. CASE SubmitVideo \/ BeginBoundary \/ Drain
    BY <2>1, <2>2 DEF Producers, SubmitVideo, BeginBoundary, Drain
  <2>3. CASE EndInput \/ EndBoundary \/ BoundaryTimesOut
    BY <2>1, <2>3 DEF EndInput, EndBoundary, BoundaryTimesOut
  <2> QED
    BY <2>2, <2>3
<1>3. Past(vq)' /\ Past(aq)'
  BY <1>1, AsTheyAre DEF Past, Ordered, Earlier
<1> QED
  BY <1>1, <1>2, <1>3, AsTheyAre, Steady

LEMMA QueuesVideoApart ==
  ASSUME QueuesInv, ApartInv, QueueVideo
  PROVE  ApartInv'
<1>1. UNCHANGED <<aq, gen, discard, hint, presented, inHand, viewer, video, audio>>
  BY DEF QueueVideo, controls
<1>2. producer'.at \notin {"video", "audio"}
  BY ProducerIs DEF QueuesInv, QueueVideo
<1>3. Past(vq)' /\ (vq # <<>> => vq'[1] = vq[1])
  <2>1. CASE vq' = vq
    BY <1>1, <2>1, AsTheyAre DEF Past, Ordered, Earlier
  <2>2. CASE ~discard /\ vq' = Append(vq, Unit(Here, producer.gen))
    <3>1. Here \in Pts /\ producer.gen = gen
      BY <2>2, Inputs, AsTheyAre, ProducerIs DEF QueuesInv, Reading, QueueVideo, Here
    <3>2. Past(Append(vq, Unit(Here, gen))) /\ (vq # <<>> => vq'[1] = vq[1])
      BY <2>2, <3>1, AsTheyAre, Numbers, PastAdded
    <3> QED
      BY <1>1, <2>2, <3>1, <3>2 DEF Past, Ordered, Earlier
  <2> QED
    BY <2>1, <2>2 DEF QueueVideo
<1>4. Past(aq)'
  BY <1>1, AsTheyAre DEF Past, Ordered, Earlier
<1>5. video.at \in {"gate", "decode"} => vq'[1].gen = video.gen
  BY <1>3, AsTheyAre DEF QueuesInv, Heads
<1> QED
  BY <1>1, <1>2, <1>3, <1>4, <1>5, AsTheyAre, Steady

LEMMA SubmitsAudioApart ==
  ASSUME QueuesInv, ApartInv, SubmitAudio \/ QueueAudio
  PROVE  ApartInv'
<1>1. UNCHANGED <<vq, gen, discard, hint, presented, inHand, viewer, video, audio>>
  BY DEF SubmitAudio, QueueAudio
<1>2. producer'.at \in {"video", "audio"} => producer'.gen = gen
  <2>1. producer \in Producers /\ Passed.at = "next"
    BY ProducerIs DEF QueuesInv, Shape
  <2>2. producer' = Passed \/ producer' = [producer EXCEPT !.at = "audio", !.gen = gen]
    BY DEF SubmitAudio, QueueAudio
  <2> QED
    BY <2>1, <2>2 DEF Producers
<1>3. Past(aq)' /\ (audio.at = "clear" => aq'[1] = aq[1])
  <2>1. CASE aq' = aq
    BY <1>1, <2>1, AsTheyAre DEF Past, Ordered, Earlier
  <2>2. CASE producer.at = "audio" /\ ~discard /\ aq' = Append(aq, Unit(Here, producer.gen))
    <3>1. Here \in Pts /\ producer.gen = gen
      BY <2>2, Inputs, AsTheyAre, ProducerIs DEF QueuesInv, Reading, Here
    <3>2. Past(Append(aq, Unit(Here, gen))) /\ (aq # <<>> => aq'[1] = aq[1])
      BY <2>2, <3>1, AsTheyAre, Numbers, PastAdded
    <3>3. audio.at = "clear" => aq # <<>>
      BY DEF QueuesInv, Heads
    <3> QED
      BY <1>1, <2>2, <3>1, <3>2, <3>3 DEF Past, Ordered, Earlier
  <2>3. CASE aq' = <<>> /\ audio.at = "failed"
    BY <1>1, <2>3, PastEmpty DEF Past, Ordered, Earlier
  <2> QED
    BY <2>1, <2>2, <2>3 DEF SubmitAudio, QueueAudio, Silence
<1>4. Past(vq)'
  BY <1>1, AsTheyAre DEF Past, Ordered, Earlier
<1>5. audio.at = "clear" => aq'[1].gen = audio.gen
  BY <1>3, AsTheyAre
<1> QED
  BY <1>1, <1>2, <1>3, <1>4, <1>5, AsTheyAre, Steady

LEMMA SelectsApart ==
  ASSUME QueuesInv, ApartInv, SelectAudio
  PROVE  ApartInv'
<1>1. UNCHANGED <<producer, vq, gen, discard, hint, presented, inHand, video>> /\ aq' = <<>>
  BY DEF SelectAudio
<1>2. viewer'.seeking = viewer.seeking /\ audio'.at # "clear"
  BY DEF QueuesInv, Shape, Viewers, SelectAudio
<1>3. Past(vq)' /\ Past(aq)'
  BY <1>1, AsTheyAre, PastEmpty DEF Past, Ordered, Earlier
<1> QED
  BY <1>1, <1>2, <1>3, AsTheyAre, Steady

(* No submission is under way when the player resets, so none is queued    *)
(* with the generation of the timeline it read from.                       *)
LEMMA ResetsApart ==
  ASSUME QueuesInv, ApartInv, ResetTimeline
  PROVE  ApartInv'
<1>1. /\ gen' = gen + 1 /\ ~discard' /\ ~viewer'.seeking
      /\ UNCHANGED <<vq, aq, presented, inHand, video, audio>>
      /\ hint' = hint \/ hint'.gen = gen + 1
  BY DEF QueuesInv, Shape, Viewers, ResetTimeline, queues
<1>2. producer'.at = "next"
  BY DEF QueuesInv, Shape, Producers, ResetTimeline
<1>3. Past(vq)' /\ Past(aq)'
  <2>1. \A i \in 1 .. Len(vq) : vq[i].gen \in Nat
    <3>1. \A i \in 1 .. Len(vq) : vq[i] \in Queued
      BY Numbers, ElementOfSeq
    <3> QED
      BY <3>1, QueuesAssumption DEF Queued, Generation
  <2>2. \A i \in 1 .. Len(aq) : aq[i].gen \in Nat
    <3>1. \A i \in 1 .. Len(aq) : aq[i] \in Queued
      BY Numbers, ElementOfSeq
    <3> QED
      BY <3>1, QueuesAssumption DEF Queued, Generation
  <2> QED
    BY <1>1, <2>1, <2>2, AsTheyAre, Numbers DEF Past, Ordered
<1>4. Asked' /\ Submitted'
  BY <1>1, <1>2, <1>3 DEF Asked, Submitted, Blocked, Past
<1>5. UnderWay' /\ Accounted'
  BY <1>1, Numbers DEF ApartInv, TimelinesApart, UnderWay, Accounted, AtOnce, SeekStillPending
<1>6. Behind'
  BY <1>1, <1>3, Numbers DEF ApartInv, Behind
<1> QED
  BY <1>4, <1>5, <1>6 DEF ApartInv, TimelinesApart

--------------------------------------------------------------------------------
(* The video thread.                                                       *)
LEMMA VideoLooksApart ==
  ASSUME QueuesInv, ApartInv,
         \/ GoOn \/ Idle \/ SameTimeline \/ PassGate \/ WaitAtGate \/ OpenGate(FALSE)
         \/ OpenGate(TRUE) \/ Underrun \/ DropStaleVideo \/ DecodeFails
  PROVE  ApartInv'
<1>1. /\ UNCHANGED <<producer, aq, gen, discard, hint, presented, inHand, viewer, audio>>
      /\ vq' = vq \/ (vq # <<>> /\ vq' = Tail(vq) /\ video'.at \in {"top", "failed"})
  BY DEF QueuesInv, Shape, Videos, Heads, GoOn, Idle, SameTimeline, PassGate, WaitAtGate,
         OpenGate, Underrun, DropStaleVideo, DecodeFails, Outside, controls, gate
<1>2. video'.gen = video.gen /\ video'.seek = video.seek
  BY DEF QueuesInv, Shape, Videos, GoOn, Idle, SameTimeline, PassGate, WaitAtGate, OpenGate,
         Underrun, DropStaleVideo, DecodeFails
<1>3. video'.at \in {"gate", "decode"} => vq' = vq /\ vq[1].gen = video.gen
  <2>1. CASE SameTimeline
    BY <2>1 DEF SameTimeline
  <2>2. CASE PassGate \/ OpenGate(FALSE) \/ OpenGate(TRUE)
    BY <1>1, <2>2, AsTheyAre DEF QueuesInv, Shape, Videos, PassGate, OpenGate, GateApplies,
                                 Outside
  <2>3. CASE GoOn \/ Idle \/ WaitAtGate \/ Underrun \/ DropStaleVideo \/ DecodeFails
    BY <2>3 DEF QueuesInv, Shape, Videos, GoOn, Idle, WaitAtGate, Underrun, DropStaleVideo,
                DecodeFails
  <2> QED
    BY <2>1, <2>2, <2>3
<1>4. Past(vq)' /\ Past(aq)'
  BY <1>1, AsTheyAre, Numbers, PastTaken DEF Past, Ordered, Earlier
<1> QED
  BY <1>1, <1>2, <1>3, <1>4, AsTheyAre, Steady

(* The picture in hand is accounted for.                                   *)
LEMMA Completes ==
  ASSUME QueuesInv, ApartInv, Freeze \/ JoinVideo
  PROVE  ApartInv'
<1>1. /\ UNCHANGED <<aq, gen, discard, hint, viewer, video, audio>>
      /\ vq' = vq \/ (vq' = <<>> /\ video.at \notin {"gate", "decode"})
      /\ inHand' = NoPicture
      /\ presented' = presented \/ (inHand # NoPicture /\ presented' = inHand)
      /\ producer' = producer \/ producer'.at = "joinAudio"
  BY DEF QueuesInv, Shape, Producers, Freeze, JoinVideo, Outside, controls, Finished
<1>2. Past(vq)' /\ Past(aq)'
  BY <1>1, AsTheyAre, PastEmpty DEF Past, Ordered, Earlier
<1>3. presented'.gen <= video.gen /\ (discard => presented'.gen < gen)
  BY <1>1, Numbers DEF ApartInv, TimelinesApart, Accounted, Asked, Behind
<1>4. Asked' /\ Submitted'
  BY <1>1, <1>2, <1>3 DEF ApartInv, TimelinesApart, Asked, Submitted, Blocked, Past
<1>5. UnderWay' /\ Accounted'
  BY <1>1, <1>3 DEF ApartInv, TimelinesApart, UnderWay, Accounted
<1>6. Behind'
  BY <1>1, <1>2 DEF ApartInv, Behind
<1> QED
  BY <1>4, <1>5, <1>6 DEF ApartInv, TimelinesApart

LEMMA BeginsApart ==
  ASSUME QueuesInv, ApartInv, BeginTimeline
  PROVE  ApartInv'
<1>1. /\ UNCHANGED <<producer, vq, aq, gen, discard, hint, viewer, audio>>
      /\ inHand' = NoPicture /\ video'.gen = gen
      /\ presented' = presented \/ (inHand # NoPicture /\ presented' = inHand)
      /\ vq # <<>> /\ vq[1].gen = gen
  BY DEF BeginTimeline, Outside, controls
<1>2. ~discard
  BY <1>1, AsTheyAre, PastFirst, Numbers
<1>3. Past(vq)' /\ Past(aq)'
  BY <1>1, AsTheyAre DEF Past, Ordered, Earlier
<1>4. presented'.gen <= gen
  BY <1>1, Numbers DEF ApartInv, TimelinesApart, Accounted
<1>5. Asked' /\ Submitted'
  BY <1>1, <1>2, <1>3 DEF ApartInv, TimelinesApart, Asked, Submitted, Blocked, Past
<1>6. UnderWay' /\ Accounted'
  BY <1>1, <1>4, Numbers DEF ApartInv, TimelinesApart, UnderWay, Accounted
<1>7. Behind'
  BY <1>1, <1>2, <1>3 DEF ApartInv, Behind
<1> QED
  BY <1>5, <1>6, <1>7 DEF ApartInv, TimelinesApart

(* A picture bears the generation of its thread, which may be left behind  *)
(* by a seek between the look at the queue and the end of decoding.        *)
LEMMA DecodesApart ==
  ASSUME QueuesInv, ApartInv, Decode
  PROVE  ApartInv'
<1>1. /\ UNCHANGED <<producer, aq, gen, discard, hint, viewer, audio>>
      /\ vq # <<>> /\ vq' = Tail(vq)
      /\ video'.at = "top" /\ video'.gen = video.gen /\ video'.seek = video.seek
  BY DEF QueuesInv, Shape, Videos, Heads, Decode, Outside, controls, gate
<1>2. Past(vq)' /\ Past(aq)'
  BY <1>1, AsTheyAre, Numbers, PastTaken DEF Past, Ordered, Earlier
<1>3. Picture.gen = video.gen
  BY DEF Picture, Unit
<1>4. \/ UNCHANGED <<presented, inHand>>
      \/ AtOnce /\ presented' = Picture /\ inHand' = NoPicture
      \/ ~AtOnce /\ presented' = presented /\ inHand = NoPicture /\ inHand' = Picture
      \/ ~AtOnce /\ presented' = inHand /\ inHand # NoPicture /\ inHand' = Picture
  BY DEF Decode
<1>5. presented'.gen <= video.gen /\ (discard => presented'.gen < gen)
  BY <1>3, <1>4, Numbers DEF ApartInv, TimelinesApart, Accounted, Asked, Behind
<1>6. inHand' # NoPicture => ~AtOnce' /\ inHand'.gen = video.gen
  <2>1. inHand # NoPicture => ~AtOnce /\ inHand.gen = video.gen
    BY DEF ApartInv, TimelinesApart, Accounted
  <2> QED
    BY <1>1, <1>3, <1>4, <2>1 DEF AtOnce, SeekStillPending
<1>7. Asked' /\ Submitted'
  BY <1>1, <1>2, <1>5 DEF ApartInv, TimelinesApart, Asked, Submitted, Blocked, Past
<1>8. UnderWay' /\ Accounted'
  BY <1>1, <1>5, <1>6 DEF ApartInv, TimelinesApart, UnderWay, Accounted
<1>9. Behind'
  BY <1>1, <1>2 DEF ApartInv, Behind
<1> QED
  BY <1>7, <1>8, <1>9 DEF ApartInv, TimelinesApart

--------------------------------------------------------------------------------
(* The audio thread and the viewer.                                        *)
LEMMA AudioApart ==
  ASSUME QueuesInv, ApartInv, AudioThread \/ AlignTimesOut \/ Play("failed")
  PROVE  ApartInv'
<1>1. /\ UNCHANGED <<producer, vq, gen, discard, hint, presented, inHand, viewer, video>>
      /\ aq' = aq \/ (aq # <<>> /\ aq' = Tail(aq) /\ audio'.at # "clear")
  BY DEF QueuesInv, Shape, Audios, Heads, AudioThread, EndAudio, DropStaleAudio,
         AdoptGeneration, DiscardSound, Align, AlignTimesOut, Play, ToPlay, AtSound, Awake,
         Elsewhere, controls
<1>2. audio'.at = "clear" => aq' = aq /\ aq[1].gen = audio'.gen
  BY AsTheyAre DEF QueuesInv, Shape, Audios, AudioThread, EndAudio, DropStaleAudio,
         AdoptGeneration, DiscardSound, Align, AlignTimesOut, Play, AtSound, Awake
<1>3. Past(vq)' /\ Past(aq)'
  BY <1>1, AsTheyAre, Numbers, PastTaken DEF Past, Ordered, Earlier
<1> QED
  BY <1>1, <1>2, <1>3, AsTheyAre, Steady

LEMMA PressApart ==
  ASSUME QueuesInv, ApartInv, Pause \/ Leave
  PROVE  ApartInv'
<1>1. /\ UNCHANGED <<producer, vq, aq, gen, discard, hint, presented, inHand, video, audio>>
      /\ viewer'.seeking = viewer.seeking
  BY DEF QueuesInv, Shape, Viewers, Pause, Leave, Press, queues
<1>2. Past(vq)' /\ Past(aq)'
  BY <1>1, AsTheyAre DEF Past, Ordered, Earlier
<1> QED
  BY <1>1, <1>2, AsTheyAre, Steady

LEMMA SeekApart ==
  ASSUME QueuesInv, ApartInv, Seek
  PROVE  ApartInv'
<1>1. /\ UNCHANGED <<producer, vq, aq, hint, presented, inHand, video, audio>>
      /\ viewer'.seeking = TRUE /\ gen' = gen + 1 /\ discard' = TRUE
  BY DEF Seek, Press, queues
<1>2. /\ \A i \in 1 .. Len(vq) : vq[i].gen \in Nat
      /\ \A i \in 1 .. Len(aq) : aq[i].gen \in Nat
  <2>1. /\ \A i \in 1 .. Len(vq) : vq[i] \in Queued
        /\ \A i \in 1 .. Len(aq) : aq[i] \in Queued
    BY Numbers, ElementOfSeq
  <2> QED
    BY <2>1, QueuesAssumption DEF Queued, Generation
<1>3. Past(vq)' /\ Past(aq)'
  BY <1>1, <1>2, AsTheyAre, Numbers DEF Past, Ordered, Earlier
<1>4. presented.gen < gen' /\ hint.gen < gen' /\ video.gen < gen'
  BY <1>1, Numbers DEF ApartInv, TimelinesApart, Accounted, Behind
<1>5. Asked' /\ Submitted'
  BY <1>1, <1>3, <1>4 DEF Asked, Submitted, Past
<1>6. UnderWay' /\ Accounted'
  BY <1>1, <1>4, Numbers DEF ApartInv, TimelinesApart, UnderWay, Accounted, AtOnce,
                             SeekStillPending
<1>7. Behind'
  BY <1>1, <1>3, <1>4, Numbers DEF Behind
<1> QED
  BY <1>5, <1>6, <1>7 DEF ApartInv, TimelinesApart

--------------------------------------------------------------------------------
LEMMA ApartStep == QueuesInv /\ ApartInv /\ [Next]_vars => ApartInv'
<1> SUFFICES ASSUME QueuesInv, ApartInv, [Next]_vars PROVE ApartInv'
  OBVIOUS
<1>1. CASE Input
  BY <1>1, SubmitsApart, SubmitsAudioApart, ResetsApart, SelectsApart DEF Input
<1>2. CASE Submission
  <2>1. CASE JoinAudio
    <3>1. /\ UNCHANGED <<vq, gen, discard, hint, presented, inHand, viewer, video, audio>>
          /\ producer'.at = "closed" /\ aq' = <<>> /\ audio.at # "clear"
      BY <2>1 DEF QueuesInv, Shape, Producers, JoinAudio, controls, Finished
    <3>2. Past(vq)' /\ Past(aq)'
      BY <3>1, AsTheyAre, PastEmpty DEF Past, Ordered, Earlier
    <3> QED
      BY <3>1, <3>2, AsTheyAre, Steady
  <2> QED
    BY <1>2, <2>1, QueuesVideoApart, SubmitsAudioApart, SubmitsApart, Completes DEF Submission
<1>3. CASE VideoThread
  BY <1>3, VideoLooksApart, Completes, BeginsApart, DecodesApart DEF VideoThread
<1>4. CASE AudioThread \/ AlignTimesOut
  BY <1>4, AudioApart
<1>5. CASE Faults \/ Clock
  BY <1>5, VideoLooksApart, AudioApart, SubmitsApart DEF Faults, Clock
<1>6. CASE Pause \/ Seek \/ Leave
  BY <1>6, PressApart, SeekApart
<1>7. CASE UNCHANGED vars
  <2>1. UNCHANGED <<producer, vq, aq, gen, discard, hint, presented, inHand, viewer, video,
                    audio>>
    BY <1>7 DEF vars
  <2>2. Past(vq)' /\ Past(aq)'
    BY <2>1, AsTheyAre DEF Past, Ordered, Earlier
  <2> QED
    BY <2>1, <2>2, AsTheyAre, Steady
<1> QED
  BY <1>1, <1>2, <1>3, <1>4, <1>5, <1>6, <1>7 DEF Next

(* Whatever the threads do between a seek and its reset, no unit and no    *)
(* picture of the old timeline passes for one of the new (discard_input,   *)
(* stream_generation and the threads' own generations).                    *)
THEOREM SeekKeepsTimelinesApart == Spec => []TimelinesApart
<1>1. Init => QueuesInv /\ ApartInv
  BY QueuesInit, ApartInit
<1>2. QueuesInv /\ ApartInv /\ [Next]_vars => (QueuesInv /\ ApartInv)'
  BY QueuesStep, ApartStep
<1>3. QueuesInv /\ ApartInv => TimelinesApart
  BY DEF ApartInv
<1> QED
  BY <1>1, <1>2, <1>3, PTL DEF Spec

(* What a step does to the picture the player reads back: it keeps it, or  *)
(* completes the one in hand, or shows the one just decoded.               *)
LEMMA PresentedMoves ==
  ASSUME QueuesInv, [Next]_vars
  PROVE  \/ presented' = presented
         \/ inHand # NoPicture /\ presented' = inHand
         \/ presented'.gen = video.gen
<1>1. CASE Input
  BY <1>1 DEF Input, SubmitVideo, SubmitAudio, BeginBoundary, ResetTimeline, SelectAudio,
              EndInput
<1>2. CASE Submission
  BY <1>2 DEF Submission, QueueVideo, QueueAudio, EndBoundary, Drain, JoinVideo, JoinAudio
<1>3. CASE VideoThread \/ DecodeFails
  <2>1. Picture.gen = video.gen
    BY DEF Picture, Unit
  <2> QED
    BY <1>3, <2>1 DEF VideoThread, Freeze, GoOn, Idle, DropStaleVideo, BeginTimeline,
         SameTimeline, PassGate, OpenGate, WaitAtGate, Decode, DecodeFails
<1>4. CASE AudioThread \/ AlignTimesOut \/ Play("failed")
  BY <1>4 DEF AudioThread, EndAudio, DropStaleAudio, AdoptGeneration, DiscardSound, Align,
              AlignTimesOut, Play, Elsewhere
<1>5. CASE Clock
  BY <1>5 DEF Clock, BoundaryTimesOut, Underrun, OpenGate
<1>6. CASE Pause \/ Seek \/ Leave
  BY <1>6 DEF Pause, Seek, Leave, Press
<1>7. CASE UNCHANGED vars
  BY <1>7 DEF vars
<1> QED
  BY <1>1, <1>2, <1>3, <1>4, <1>5, <1>6, <1>7 DEF Next, Faults

(* presented_generation never goes back to an earlier timeline, although   *)
(* pictures complete one after they were handed over.                      *)
THEOREM PresentedNeverBack == Spec => NeverBack
<1>1. QueuesInv /\ ApartInv /\ [Next]_vars => [presented'.gen >= presented.gen]_vars
  <2> SUFFICES ASSUME QueuesInv, ApartInv, [Next]_vars
               PROVE  presented'.gen >= presented.gen
    OBVIOUS
  <2>1. presented.gen <= video.gen /\ (inHand # NoPicture => inHand.gen = video.gen)
    BY DEF ApartInv, TimelinesApart, Accounted
  <2> QED
    BY <2>1, PresentedMoves, Numbers
<1>2. Init => QueuesInv /\ ApartInv
  BY QueuesInit, ApartInit
<1>3. QueuesInv /\ ApartInv /\ [Next]_vars => (QueuesInv /\ ApartInv)'
  BY QueuesStep, ApartStep
<1> QED
  BY <1>1, <1>2, <1>3, PTL DEF Spec, NeverBack
=============================================================================
