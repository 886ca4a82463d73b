----------------------------- MODULE NativeQueues -----------------------------
(***************************************************************************)
(* The decoder's two bounded queues (src/src/iptv_native_backend.c).  One  *)
(* demultiplexing thread fills both and sleeps while either is full; a     *)
(* video thread and an audio thread empty them.  Both threads wait at one  *)
(* gate, playback_started, which the video thread opens when enough is     *)
(* queued and closes when something ran out.  The viewer pauses, seeks and *)
(* leaves meanwhile; a seek gives what is queued from then on a new        *)
(* generation.                                                             *)
(*                                                                         *)
(* Time is a number of units longer than every tolerance of the code; a    *)
(* picture or a piece of sound is its time.  The decoder returns the       *)
(* picture of each unit at once, and the byte limit, pictures left out     *)
(* because they are late, and units without a time are not told apart.     *)
(***************************************************************************)
EXTENDS Integers, Sequences

CONSTANTS
  Streams,      \* inputs: sequences of [kind, pts]
  VideoLimit,   \* VIDEO_QUEUE_CAPACITY, in units
  AudioLimit,   \* AUDIO_QUEUE_CAPACITY, in units
  DemuxSpan,    \* DEMUX_BUFFER_US: time the video queue may hold
  Refill,       \* PLAYBACK_BUFFER_US: time queued before playback starts
  SeekRefill,   \* kSeekRefillUs: the same after a seek in a file
  ExactWithin,  \* SEEK_EXACT_WITHIN_US: pictures a seek decodes without showing
  MaxPts,       \* bound on the times of an input
  MaxPresses    \* bound on the viewer's keys in one run

Kinds == {"video", "audio", "boundary"}
ASSUME QueuesAssumption ==
  /\ Streams \subseteq Seq([kind : Kinds, pts : 0 .. MaxPts])
  /\ VideoLimit \in Nat \ {0, 1} /\ AudioLimit \in Nat \ {0, 1}
  /\ DemuxSpan \in Nat /\ Refill \in Nat /\ SeekRefill \in 1 .. Refill
  /\ ExactWithin \in Nat /\ MaxPts \in Nat /\ MaxPresses \in Nat

VARIABLES
  stream,      \* the input of this run
  producer,    \* the demultiplexing thread: its place, its position, its local generation
  vq, aq,      \* what is queued: sequences of [pts, gen]
  gen,         \* stream_generation
  discard,     \* discard_input
  paused,      \* paused
  stopping,    \* stop_requested, video_worker_stop, audio_worker_stop
  started,     \* playback_started
  draining,    \* programme_draining
  sync,        \* audio_sync_pending
  sounding,    \* enable_audio and audio_buffer_type
  hint,        \* seek_hint_generation and seek_hint_show_from_us
  video,       \* the video thread: its place, generation and timeline
  audio,       \* the audio thread: its place and generation
  presented,   \* presented_pts_us and presented_generation
  inHand,      \* the picture handed to the screen and not yet accounted for
  viewer       \* the player's own paused_, a seek under way, keys pressed

vars == <<stream, producer, vq, aq, gen, discard, paused, stopping, started, draining,
          sync, sounding, hint, video, audio, presented, inHand, viewer>>
queues == <<vq, aq>>
controls == <<gen, discard, paused, stopping, hint, viewer>>
gate == <<started, draining, sync, sounding>>

Pts == 0 .. MaxPts
Generation == 0 .. 1 + 2 * MaxPresses     \* a seek counts twice: asked, reset
NoPicture == [pts |-> 0, gen |-> 0]       \* generation 0 is nobody's
Unit(pts, g) == [pts |-> pts, gen |-> g]

Init ==
  /\ stream \in Streams
  /\ producer = [at |-> "next", next |-> 1, gen |-> 0]
  /\ vq = <<>> /\ aq = <<>>
  /\ gen = 1 /\ discard = FALSE /\ paused = FALSE
  /\ stopping = [all |-> FALSE, video |-> FALSE, audio |-> FALSE]
  /\ started = FALSE /\ draining = FALSE /\ sync = FALSE
  /\ sounding = TRUE
  /\ hint = [gen |-> 0, from |-> 0]
  /\ video = [at |-> "top", gen |-> 1, seek |-> FALSE, show |-> 0, refill |-> Refill]
  /\ audio = [at |-> IF sounding THEN "top" ELSE "done", gen |-> 1]
  /\ presented = NoPicture /\ inHand = NoPicture
  /\ viewer = [paused |-> FALSE, seeking |-> FALSE, presses |-> 0]

--------------------------------------------------------------------------------
(***************************************************************************)
(* The conditions the threads read.                                        *)
(***************************************************************************)
\* media_span_ready, of a queue whose first shown unit has time `first`.
SpanReady(q, first, minimum) ==
  /\ Len(q) > 1
  /\ q[Len(q)].pts - first >= minimum /\ q[Len(q)].pts >= first
AtTimeLimit == vq # <<>> /\ SpanReady(vq, vq[1].pts, DemuxSpan)
VideoRoom == Len(vq) < VideoLimit /\ ~AtTimeLimit
AudioRoom == Len(aq) < AudioLimit

Hidden(unit) == unit.pts < video.show                     \* seek_hides_picture
FirstShown == IF video.show > vq[1].pts THEN video.show ELSE vq[1].pts
SeekStillPending == video.seek /\ presented.gen # video.gen
BadSeekStillWantedAdopted == vq # <<>> /\ video.gen = gen /\ SeekStillPending
SeekStillWanted ==
  /\ vq # <<>>
  /\ IF video.gen = gen THEN SeekStillPending
     ELSE vq[1].gen = gen /\ hint.gen = gen

CurrentAudio == aq # <<>> /\ audio.gen = gen
BadPressure == FALSE
Pressure ==
  \/ AtTimeLimit
  \/ Len(vq) >= VideoLimit - 1
  \/ CurrentAudio /\ Len(aq) >= AudioLimit - 1

\* playback_queues_ready, with the start's time-out as a parameter.
BadQueuesReadyBoundary(late) ==
  /\ vq # <<>> /\ vq[1].gen = gen
  /\ late \/ Pressure \/ SpanReady(vq, FirstShown, video.refill)
  /\ ~sounding \/ sync \/ late \/ Pressure \/ (CurrentAudio /\ Len(aq) >= video.refill)
QueuesReady(late) ==
  \/ draining
  \/ /\ vq # <<>> /\ vq[1].gen = gen
     /\ late \/ Pressure \/ SpanReady(vq, FirstShown, video.refill)
     /\ ~sounding \/ sync \/ late \/ Pressure \/ (CurrentAudio /\ Len(aq) >= video.refill)

\* audio_sync_action of the first piece of sound.
SyncGoes ==
  \/ stopping.audio
  \/ presented.gen = gen /\ aq[1].pts = presented.pts
SyncDiscards ==
  ~stopping.audio /\ presented.gen = gen /\ presented.pts > aq[1].pts

Finished(thread) == thread.at \in {"done", "failed"}

--------------------------------------------------------------------------------
(***************************************************************************)
(* The demultiplexing thread: iptv_native_backend_submit_video,            *)
(* submit_audio, programme_boundary, disable_audio, select_audio,          *)
(* discontinuity and drain.                                                *)
(***************************************************************************)
Ended == producer.next > Len(stream)
NextIs(kind) == producer.at = "next" /\ ~Ended /\ stream[producer.next].kind = kind
Here == stream[producer.next].pts
Passed == [at |-> "next", next |-> producer.next + 1, gen |-> 0]
Failed == [producer EXCEPT !.at = "drain", !.gen = 0]

\* The generation is read once, before the wait for room.
SubmitVideo ==
  /\ NextIs("video")
  /\ producer' = [producer EXCEPT !.at = "video", !.gen = gen]
  /\ UNCHANGED <<stream, queues, controls, gate, video, audio, presented, inHand>>

QueueVideo ==
  /\ producer.at = "video"
  /\ \/ /\ discard \/ (stopping.all /\ video.at # "failed")
        /\ producer' = Passed /\ vq' = vq
     \/ /\ ~discard /\ video.at = "failed"
        /\ producer' = Failed /\ vq' = vq
     \/ /\ ~discard /\ video.at # "failed" /\ ~stopping.all /\ VideoRoom
        /\ producer' = Passed /\ vq' = Append(vq, Unit(Here, producer.gen))
  /\ UNCHANGED <<stream, aq, controls, gate, video, audio, presented, inHand>>

\* disable_audio_internal: the audio thread has ended, its queue is released.
Silence ==
  /\ sounding' = FALSE /\ aq' = <<>>
  /\ stopping' = [stopping EXCEPT !.audio = TRUE]

SubmitAudio ==
  /\ NextIs("audio")
  /\ \/ /\ discard \/ ~sounding \/ (stopping.all /\ audio.at # "failed")
        /\ producer' = Passed
        /\ UNCHANGED <<aq, sounding, stopping>>
     \/ /\ ~discard /\ sounding /\ audio.at = "failed"
        /\ producer' = Passed
        /\ Silence
     \/ /\ ~discard /\ sounding /\ audio.at # "failed" /\ ~stopping.all
        /\ producer' = [producer EXCEPT !.at = "audio", !.gen = gen]
        /\ UNCHANGED <<aq, sounding, stopping>>
  /\ UNCHANGED <<stream, vq, gen, discard, paused, hint, viewer, started, draining, sync,
                 video, audio, presented, inHand>>

QueueAudio ==
  /\ producer.at = "audio"
  /\ \/ /\ discard \/ (~AudioRoom /\ stopping.all)
        /\ UNCHANGED <<aq, sounding, stopping>>
     \/ /\ ~discard /\ AudioRoom
        /\ aq' = Append(aq, Unit(Here, producer.gen))
        /\ UNCHANGED <<sounding, stopping>>
     \/ /\ ~discard /\ ~AudioRoom /\ ~stopping.all /\ audio.at = "failed"
        /\ Silence
  /\ producer' = Passed
  /\ UNCHANGED <<stream, vq, gen, discard, paused, hint, viewer, started, draining, sync,
                 video, audio, presented, inHand>>

BeginBoundary ==
  /\ NextIs("boundary")
  /\ producer' = [producer EXCEPT !.at = "boundary"]
  /\ draining' = TRUE
  /\ UNCHANGED <<stream, queues, controls, started, sync, sounding, video, audio,
                 presented, inHand>>

QueuesEmpty == vq = <<>> /\ (sounding => aq = <<>>)
EndBoundary ==
  /\ producer.at = "boundary"
  /\ \/ /\ QueuesEmpty \/ discard \/ stopping.all
        /\ producer' = Passed
     \/ /\ ~QueuesEmpty /\ ~discard /\ ~stopping.all
        /\ video.at = "failed" \/ (sounding /\ audio.at = "failed")
        /\ producer' = Failed
  /\ draining' = FALSE
  /\ UNCHANGED <<stream, queues, controls, started, sync, sounding, video, audio,
                 presented, inHand>>
\* Thirty seconds without a pause.
BoundaryTimesOut ==
  /\ producer.at = "boundary"
  /\ ~QueuesEmpty /\ ~discard /\ ~stopping.all /\ ~paused
  /\ producer' = Failed /\ draining' = FALSE
  /\ UNCHANGED <<stream, queues, controls, started, sync, sounding, video, audio,
                 presented, inHand>>

\* RestartMediaTimeline (with a hint) and ReadHistory (without): the seek the
\* viewer asked for, once no submission is under way.  Reading goes on at a
\* picture; the one asked for may come a little later.
Pictures == {i \in 1 .. Len(stream) : stream[i].kind = "video"}
ResetTimeline ==
  /\ producer.at = "next" /\ viewer.seeking
  /\ \E start, shown \in Pictures :
       /\ producer' = [producer EXCEPT !.next = start]
       /\ shown >= start
       /\ hint' \in {hint, [gen |-> gen + 1, from |-> stream[shown].pts]}
  /\ gen' = gen + 1 /\ discard' = FALSE /\ sync' = sounding
  /\ paused' = viewer.paused
  /\ viewer' = [viewer EXCEPT !.seeking = FALSE]
  /\ UNCHANGED <<stream, queues, stopping, started, draining, sounding, video, audio,
                 presented, inHand>>

\* Another language, or none: the audio thread is stopped and a new one starts.
SelectAudio ==
  /\ producer.at = "next" /\ audio.at # "clear" /\ ~stopping.all
  /\ viewer.presses < MaxPresses
  /\ \E on \in BOOLEAN :
       /\ sounding' = on /\ sync' = on
       /\ audio' = [at |-> IF on THEN "top" ELSE "done", gen |-> gen]
       /\ stopping' = [stopping EXCEPT !.audio = ~on]
  /\ aq' = <<>>
  /\ viewer' = [viewer EXCEPT !.presses = @ + 1]
  /\ UNCHANGED <<stream, producer, vq, gen, discard, paused, hint, started, draining,
                 video, presented, inHand>>

\* The input ended, or the viewer left: iptv_native_backend_drain.
EndInput ==
  /\ producer.at = "next"
  /\ stopping.all \/ (Ended /\ ~viewer.paused /\ ~viewer.seeking)
  /\ producer' = Failed
  /\ UNCHANGED <<stream, queues, controls, gate, video, audio, presented, inHand>>
\* stop_video_worker
Drain ==
  /\ producer.at = "drain"
  /\ producer' = [producer EXCEPT !.at = "joinVideo"]
  /\ started' = TRUE
  /\ stopping' = [stopping EXCEPT !.video = TRUE]
  /\ UNCHANGED <<stream, queues, gen, discard, paused, hint, viewer, draining, sync,
                 sounding, video, audio, presented, inHand>>
\* The picture in hand completes, then stop_audio_worker.
JoinVideo ==
  /\ producer.at = "joinVideo" /\ Finished(video)
  /\ producer' = [producer EXCEPT !.at = "joinAudio"]
  /\ vq' = <<>>
  /\ presented' = IF inHand = NoPicture THEN presented ELSE inHand
  /\ inHand' = NoPicture
  /\ stopping' = [stopping EXCEPT !.audio = TRUE]
  /\ UNCHANGED <<stream, aq, gen, discard, paused, hint, viewer, gate, video, audio>>
JoinAudio ==
  /\ producer.at = "joinAudio" /\ Finished(audio)
  /\ producer' = [producer EXCEPT !.at = "closed"]
  /\ aq' = <<>>
  /\ UNCHANGED <<stream, vq, controls, gate, video, audio, presented, inHand>>

--------------------------------------------------------------------------------
(***************************************************************************)
(* The video thread: video_worker_entry.                                   *)
(***************************************************************************)
Outside == UNCHANGED <<stream, producer, aq, controls, audio>>

\* pause_video: the picture in hand completes, then the thread waits.
Freeze ==
  /\ video.at = "top" /\ paused /\ inHand # NoPicture
  /\ presented' = inHand /\ inHand' = NoPicture
  /\ Outside /\ UNCHANGED <<vq, gate, video>>
BadGoOnPaused ==
  /\ video.at = "top"
  /\ paused => inHand = NoPicture /\ (stopping.all \/ SeekStillWanted)
  /\ video' = [video EXCEPT !.at = "take"]
  /\ Outside /\ UNCHANGED <<vq, gate, presented, inHand>>
GoOn ==
  /\ video.at = "top"
  /\ paused => inHand = NoPicture /\ (stopping.all \/ stopping.video \/ SeekStillWanted)
  /\ video' = [video EXCEPT !.at = "take"]
  /\ Outside /\ UNCHANGED <<vq, gate, presented, inHand>>

\* restart_after_underrun: a quarter of a second without pictures or sound.
Underrun ==
  /\ video.at = "take"
  /\ started /\ ~stopping.video /\ ~stopping.all /\ ~draining
  /\ \/ vq = <<>>
     \/ sounding /\ ~sync /\ ~stopping.audio /\ audio.at # "failed" /\ aq = <<>>
  /\ started' = FALSE
  /\ video' = [video EXCEPT !.refill = Refill]
  /\ Outside /\ UNCHANGED <<vq, draining, sync, sounding, presented, inHand>>

Idle ==
  /\ video.at = "take" /\ vq = <<>>
  /\ video' = [video EXCEPT !.at = IF stopping.video \/ stopping.all THEN "done" ELSE "top"]
  /\ Outside /\ UNCHANGED <<vq, gate, presented, inHand>>
DropStaleVideo ==
  /\ video.at = "take" /\ vq # <<>> /\ vq[1].gen # gen
  /\ vq' = Tail(vq)
  /\ video' = [video EXCEPT !.at = "top"]
  /\ Outside /\ UNCHANGED <<gate, presented, inHand>>

\* begin_playback_timeline
ShowFrom(first) ==
  IF hint.gen # gen THEN 0
  ELSE IF hint.from \in first .. first + ExactWithin THEN hint.from ELSE first
\* The first unit of a new timeline resets the decoder and closes the gate.
BeginTimeline ==
  /\ video.at = "take" /\ vq # <<>> /\ vq[1].gen = gen /\ video.gen # gen
  /\ presented' = IF inHand = NoPicture THEN presented ELSE inHand
  /\ inHand' = NoPicture
  /\ video' = [at |-> "gate", gen |-> gen, seek |-> hint.gen = gen,
               show |-> ShowFrom(vq[1].pts),
               refill |-> IF hint.gen = gen THEN SeekRefill ELSE Refill]
  /\ started' = FALSE
  /\ Outside /\ UNCHANGED <<vq, draining, sync, sounding>>
SameTimeline ==
  /\ video.at = "take" /\ vq # <<>> /\ vq[1].gen = gen /\ video.gen = gen
  /\ video' = [video EXCEPT !.at = "gate"]
  /\ Outside /\ UNCHANGED <<vq, gate, presented, inHand>>

GateApplies ==
  /\ video.at = "gate" /\ ~started /\ ~stopping.video /\ ~stopping.all
  /\ ~(video.seek /\ Hidden(vq[1])) /\ ~SeekStillPending
PassGate ==
  /\ video.at = "gate" /\ ~GateApplies
  /\ video' = [video EXCEPT !.at = "decode"]
  /\ Outside /\ UNCHANGED <<vq, gate, presented, inHand>>
OpenGate(late) ==
  /\ GateApplies /\ QueuesReady(late)
  /\ video' = [video EXCEPT !.at = "decode"]
  /\ started' = TRUE /\ sync' = (sync \/ sounding)
  /\ Outside /\ UNCHANGED <<vq, draining, sounding, presented, inHand>>
WaitAtGate ==
  /\ GateApplies /\ ~QueuesReady(FALSE)
  /\ video' = [video EXCEPT !.at = "top"]
  /\ Outside /\ UNCHANGED <<vq, gate, presented, inHand>>

\* submit_coded_frame and present_video_output.  A picture completes when the
\* next one is handed over, the first of all and the first of a seek at once.
BadPicture == Unit(vq[1].pts, gen)
Picture == Unit(vq[1].pts, video.gen)
AtOnce == presented = NoPicture \/ SeekStillPending
Decode ==
  /\ video.at = "decode"
  /\ vq' = Tail(vq)
  /\ video' = [video EXCEPT !.at = "top"]
  /\ IF Hidden(vq[1]) THEN UNCHANGED <<presented, inHand>>
     ELSE /\ presented' = IF AtOnce THEN Picture
                          ELSE IF inHand = NoPicture THEN presented ELSE inHand
          /\ inHand' = IF AtOnce THEN NoPicture ELSE Picture
  /\ Outside /\ UNCHANGED gate
DecodeFails ==
  /\ video.at = "decode"
  /\ vq' = Tail(vq)
  /\ video' = [video EXCEPT !.at = "failed"]
  /\ Outside /\ UNCHANGED <<gate, presented, inHand>>

VideoThread ==
  \/ Freeze \/ GoOn \/ Idle \/ DropStaleVideo \/ BeginTimeline \/ SameTimeline
  \/ PassGate \/ OpenGate(FALSE) \/ WaitAtGate \/ Decode

--------------------------------------------------------------------------------
(***************************************************************************)
(* The audio thread: audio_worker_entry.                                   *)
(***************************************************************************)
Elsewhere == UNCHANGED <<stream, producer, vq, controls, started, draining, sounding,
                         video, presented, inHand>>
Awake == audio.at = "top" /\ ~stopping.all /\ (paused => stopping.audio)

EndAudio ==
  /\ audio.at = "top"
  /\ stopping.all \/ (stopping.audio /\ aq = <<>>)
  /\ audio' = [audio EXCEPT !.at = "done"]
  /\ Elsewhere /\ UNCHANGED <<aq, sync>>
DropStaleAudio ==
  /\ Awake /\ aq # <<>> /\ aq[1].gen # gen
  /\ aq' = Tail(aq)
  /\ Elsewhere /\ UNCHANGED <<sync, audio>>
AdoptGeneration ==
  /\ Awake /\ aq # <<>> /\ aq[1].gen = gen /\ audio.gen # gen
  /\ audio' = [audio EXCEPT !.gen = gen]
  /\ Elsewhere /\ UNCHANGED <<aq, sync>>
AtSound ==
  /\ Awake /\ aq # <<>> /\ aq[1].gen = gen /\ audio.gen = gen
  /\ started \/ draining \/ stopping.audio
DiscardSound ==
  /\ AtSound /\ sync /\ SyncDiscards
  /\ aq' = Tail(aq)
  /\ Elsewhere /\ UNCHANGED <<sync, audio>>
\* The decision and the store that clears the flag are two steps.
Align ==
  /\ AtSound /\ sync /\ SyncGoes
  /\ audio' = [audio EXCEPT !.at = "clear"]
  /\ Elsewhere /\ UNCHANGED <<aq, sync>>
\* Thirty seconds of waiting for the picture.
AlignTimesOut ==
  /\ AtSound /\ sync /\ ~SyncGoes /\ ~SyncDiscards
  /\ audio' = [audio EXCEPT !.at = "clear"]
  /\ Elsewhere /\ UNCHANGED <<aq, sync>>
ToPlay == audio.at = "clear" \/ (AtSound /\ ~sync)
Play(at) ==
  /\ ToPlay
  /\ sync' = FALSE
  /\ aq' = Tail(aq)
  /\ audio' = [audio EXCEPT !.at = at]
  /\ Elsewhere

AudioThread ==
  EndAudio \/ DropStaleAudio \/ AdoptGeneration \/ DiscardSound \/ Align \/ Play("top")

--------------------------------------------------------------------------------
(***************************************************************************)
(* The viewer: iptv_native_backend_set_paused, request_reposition and      *)
(* request_stop, as UpdateMediaControls and UpdateLiveControls call them.  *)
(***************************************************************************)
Press ==
  /\ viewer.presses < MaxPresses /\ producer.at # "closed" /\ ~stopping.all
  /\ UNCHANGED <<stream, producer, queues, gate, hint, video, audio, presented, inHand>>
Pause ==
  /\ Press
  /\ viewer' = [viewer EXCEPT !.paused = ~@, !.presses = @ + 1]
  /\ paused' = ~viewer.paused
  /\ UNCHANGED <<gen, discard, stopping>>
\* A seek in a file keeps the player's paused_, a seek in the history clears it.
Seek ==
  /\ Press
  /\ \E still \in {viewer.paused, FALSE} :
       viewer' = [paused |-> still, seeking |-> TRUE, presses |-> viewer.presses + 1]
  /\ gen' = gen + 1 /\ discard' = TRUE /\ paused' = FALSE
  /\ UNCHANGED stopping
Leave ==
  /\ Press
  /\ viewer' = [viewer EXCEPT !.presses = @ + 1]
  /\ stopping' = [all |-> TRUE, video |-> TRUE, audio |-> TRUE]
  /\ UNCHANGED <<gen, discard, paused>>

--------------------------------------------------------------------------------
Input == SubmitVideo \/ SubmitAudio \/ BeginBoundary \/ ResetTimeline \/ SelectAudio \/ EndInput
Submission == QueueVideo \/ QueueAudio \/ EndBoundary \/ Drain \/ JoinVideo \/ JoinAudio
Faults == DecodeFails \/ Play("failed")
Clock == BoundaryTimesOut \/ Underrun \/ OpenGate(TRUE)

Next ==
  \/ Input \/ Submission \/ VideoThread \/ AudioThread \/ AlignTimesOut
  \/ Faults \/ Clock \/ Pause \/ Seek \/ Leave

\* The threads poll, so each goes on; the audio thread's wait ends by its clock.
\* Neither the input, the viewer nor the start's time-out is relied on.
Fairness ==
  /\ WF_vars(Submission) /\ WF_vars(VideoThread) /\ WF_vars(AudioThread)
  /\ WF_vars(AlignTimesOut)
Spec == Init /\ [][Next]_vars /\ Fairness

--------------------------------------------------------------------------------
\* Every variable holds what its field in backend_state_t can hold, and the
\* queues keep within the limits submit_video and submit_audio wait for.
TypeOK ==
  /\ stream \in Streams
  /\ producer \in [at : {"next", "video", "audio", "boundary", "drain", "joinVideo",
                         "joinAudio", "closed"},
                   next : 1 .. Len(stream) + 1, gen : Generation]
  /\ vq \in Seq([pts : Pts, gen : Generation]) /\ Len(vq) <= VideoLimit
  /\ aq \in Seq([pts : Pts, gen : Generation]) /\ Len(aq) <= AudioLimit
  /\ gen \in Generation
  /\ {discard, paused, started, draining, sync, sounding} \subseteq BOOLEAN
  /\ stopping \in [all : BOOLEAN, video : BOOLEAN, audio : BOOLEAN]
  /\ hint \in [gen : Generation, from : Pts]
  /\ video \in [at : {"top", "take", "gate", "decode", "done", "failed"}, gen : Generation,
                seek : BOOLEAN, show : Pts, refill : 0 .. Refill]
  /\ audio \in [at : {"top", "clear", "done", "failed"}, gen : Generation]
  /\ presented \in [pts : Pts, gen : Generation]
  /\ inHand \in [pts : Pts, gen : Generation]
  /\ viewer \in [paused : BOOLEAN, seeking : BOOLEAN, presses : 0 .. MaxPresses]

\* A submission that waits for room.
Blocked == producer.at \in {"video", "audio"}

\* A seek is asked for while submissions, decoding and presentation of the old
\* timeline go on; the threads never mix the two timelines.  No picture and no
\* unit already bears the generation of a seek not yet carried out, a
\* submission that waited for room queues nothing of a timeline left behind,
\* and a unit under decoding heads its queue and is of its thread's timeline.
Ordered(q) == \A i, j \in 1 .. Len(q) : i <= j => q[i].gen <= q[j].gen
Earlier(q) == \A i \in 1 .. Len(q) : q[i].gen < gen
Asked ==
  /\ discard <=> viewer.seeking
  /\ discard => Earlier(vq) /\ Earlier(aq) /\ presented.gen < gen /\ hint.gen < gen
Submitted ==
  /\ Ordered(vq) /\ Ordered(aq)
  /\ Blocked => discard \/ producer.gen = gen
UnderWay ==
  /\ video.at \in {"gate", "decode"} => vq[1].gen = video.gen
  /\ audio.at = "clear" => aq[1].gen = audio.gen
\* The picture in hand is never overwritten by one that completes at once.
Accounted ==
  /\ presented.gen <= video.gen /\ video.gen <= gen
  /\ inHand # NoPicture => ~AtOnce /\ inHand.gen = video.gen
TimelinesApart == Asked /\ Submitted /\ UnderWay /\ Accounted

\* What the player reads back of a seek never returns to an earlier timeline.
NeverBack == [][presented'.gen >= presented.gen]_vars
\* The gate is closed and no picture is left to open it.
OnlySound == ~started /\ (vq = <<>> \/ video.at = "failed")

\* The producer is not left waiting for room: whatever the order of pictures
\* and sound, with no help from the start's time-out, a full queue opens the
\* gate ("the single demux producer may be blocked before it can deliver the
\* other track"), unless the viewer paused or only sound is left to play.
SubmissionReturns == []<>(~Blocked \/ paused \/ OnlySound)

\* The same without the last escape, as the comment on the gate says it.
NoImpossibleFill == []<>(~Blocked \/ paused \/ video.at = "failed")

\* A seek in a file shows its picture although the viewer holds the film
\* paused: once a unit of the new timeline heads the queue, the video thread
\* does not sleep on until the viewer goes on.
SeekAtHead ==
  /\ vq # <<>> /\ vq[1].gen = gen /\ hint.gen = gen
  /\ presented.gen # gen /\ video.at # "failed"
PausedSeekShows == SeekAtHead ~> ~SeekAtHead

\* A programme boundary ends without its time-out: what is queued plays to its
\* last unit although no further input can fill the start's cushion.
BoundaryEnds == (producer.at = "boundary") ~> (producer.at # "boundary" \/ paused)

\* The end of the input closes the decoder, paused or not: the threads leave
\* their waits at the pause, at the gate and for alignment.
DrainReturns == (producer.at = "drain") ~> (producer.at = "closed")
=============================================================================
