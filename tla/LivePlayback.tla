----------------------------- MODULE LivePlayback -----------------------------
(***************************************************************************)
(* Playing a live channel through its history (class StreamRunner with     *)
(* history_, src/src/iptv_player.cpp).  Four parties share it: the         *)
(* download thread, which owns the runner and appends what arrives; the    *)
(* demultiplexing thread (ReadAheadLoop), which reads the history and      *)
(* feeds the decoder; the decoder's own thread, which presents pictures;   *)
(* and the controls, polled under control_mutex_ by whoever waits.         *)
(*                                                                         *)
(* The history counts chunks: an offset is the chunk that one read()       *)
(* returns, and the time of a chunk is its offset.  Module Timeshift has   *)
(* the ring in detail; here it is what that class tells its callers, one   *)
(* mutex section per step.                                                 *)
(***************************************************************************)
EXTENDS Integers, Sequences, FiniteSetsExt

CONSTANTS
  Window,         \* chunks the history keeps
  Formats,        \* decoder setups the channel switches between
  QueueLimit,     \* the decoder's bounded input, in chunks
  Steps,          \* relative seeks, in chunks
  Channels,       \* what a provider sends: sequences of [format, start], where
                  \* `start` says that a reader can start at the chunk
  MaxOffset,      \* bound on the chunks of one run
  MaxGeneration,  \* bound on the timelines of one run
  MaxPresses      \* bound on the keys pressed in one run

ASSUME LiveAssumption ==
  /\ Window \in Nat \ {0} /\ QueueLimit \in Nat \ {0}
  /\ Steps \subseteq Int
  /\ Channels \subseteq Seq([format : Formats, start : BOOLEAN])
  /\ \A channel \in Channels : Len(channel) <= MaxOffset
  /\ MaxOffset \in Nat /\ MaxGeneration \in Nat /\ MaxPresses \in Nat

Closed == "closed"       \* the decoder is not open
ASSUME FormatAssumption == Formats \subseteq STRING /\ Closed \notin Formats
Unset == -1               \* an absent time or key

VARIABLES
  channel,    \* what the provider sends in this run
  history,    \* what Timeshift keeps
  keys,       \* gLiveSeekRequest and gLivePauseRequest
  cursor,     \* read_ahead_read_, history_generation_, paused_
  request,    \* history_request_
  reopen,     \* history_reopen_ and history_reopen_pts_
  result,     \* read_ahead_result_
  finished,   \* read_ahead_finished_
  worker,     \* the demultiplexing thread: its place and its locals
  owner,      \* the download thread
  backend,    \* the decoder: iptv_native_backend_t
  asked       \* ghosts: presses, seeks taken, seeks the decoder was told about,
              \* and whether a resume met a submission

vars == <<channel, history, keys, cursor, request, reopen, result, finished, worker,
          owner, backend, asked>>

Offset == 0 .. MaxOffset
Chunk == [at : Offset, format : Formats, generation : 0 .. MaxGeneration]
\* A position, with the number of the seek it answers.
Position == [offset : Offset, generation : 0 .. MaxGeneration, seek : 0 .. MaxPresses]
NoPosition == [offset |-> Unset, generation |-> Unset, seek |-> Unset]
Picture == [at : Offset, generation : 0 .. MaxGeneration, tag : Nat,
            seek : 0 .. MaxPresses]

--------------------------------------------------------------------------------
(***************************************************************************)
(* The history as its callers see it (Timeshift::range, seek, seek_next,   *)
(* read, reposition).  `marks` are the pictures a reader can start at.     *)
(***************************************************************************)
Timed(h) == h.marks # {}
SeekTo(h, t, n) ==
  LET time == IF t < Min(h.marks) THEN Min(h.marks)
              ELSE IF t > Max(h.marks) THEN Max(h.marks) ELSE t
  IN  [offset |-> Max({m \in h.marks : m <= time}),
       generation |-> h.generation, seek |-> n]
Retains(h, p) ==
  /\ Timed(h) /\ p.generation = h.generation
  /\ p.offset \in h.begin .. h.end - 1
  /\ p.offset \in Min(h.marks) .. Max(h.marks)
Readable(h, offset) == offset \in h.begin .. h.end - 1

\* append(): the ring overwrites its oldest chunk, trim() drops its mark and
\* lets the window start at the next one.
Appended(h, chunk, start) ==
  LET bottom == Max({h.begin, h.end + 1 - Window})
      all    == h.marks \cup (IF start THEN {h.end} ELSE {})
      marks  == {m \in all : m >= bottom}
      begin  == IF marks # all /\ marks # {} THEN Min(marks) ELSE bottom
      chunks == Append(h.chunks, chunk)
  IN  [h EXCEPT !.end = @ + 1, !.marks = marks, !.begin = begin,
                !.chunks = SubSeq(chunks, begin - h.begin + 1, Len(chunks))]
BadDiscontinued(h) ==
  [h EXCEPT !.begin = h.end, !.generation = @ + 1, !.chunks = <<>>]
Discontinued(h) ==
  [h EXCEPT !.begin = h.end, !.marks = {}, !.generation = @ + 1, !.chunks = <<>>]
ChunkAt(h, offset) == h.chunks[offset - h.begin + 1]

--------------------------------------------------------------------------------
(***************************************************************************)
(* The decoder.  Every queued picture carries the stream generation that   *)
(* was current when its submission began.                                  *)
(***************************************************************************)
NoPicture == [at |-> 0, generation |-> 0, tag |-> 0, seek |-> 0]
\* As a ghost, `last` is what the current timeline was fed last.
NewBackend == [format |-> Closed, tag |-> 1, discard |-> FALSE, paused |-> FALSE,
               queue |-> <<>>, decoding |-> NoPicture, shown |-> NoPicture,
               last |-> NoPicture, seek |-> 0]
IsOpen(b) == b.format # Closed

\* iptv_native_backend_request_reposition
Repositioned(b) ==
  IF IsOpen(b)
  THEN [b EXCEPT !.discard = TRUE, !.tag = @ + 1, !.paused = FALSE, !.last = NoPicture]
  ELSE b
\* reset_transport: iptv_native_backend_discontinuity, when a decoder is open.
BadResetKeepsDiscarding(b, n) == [b EXCEPT !.tag = @ + 1, !.seek = n]
Reset(b, n) ==
  IF IsOpen(b)
  THEN [b EXCEPT !.tag = @ + 1, !.discard = FALSE, !.seek = n, !.last = NoPicture]
  ELSE [b EXCEPT !.seek = n]
\* iptv_native_backend_presented_pts: a picture of the current timeline, or none.
HasCurrentPicture(b) == b.shown.tag = b.tag /\ ~b.discard

--------------------------------------------------------------------------------
\* What the demultiplexing thread has in its locals.
Snapshot(h) == [begin |-> h.begin, generation |-> h.generation,
             first |-> IF Timed(h) THEN Min(h.marks) ELSE 0]
NoChunk == [at |-> Unset, format |-> Closed, generation |-> Unset]
NewWorker == [at |-> "top", write |-> 0, finished |-> FALSE,
              range |-> [begin |-> 0, generation |-> 0, first |-> 0],
              position |-> NoPosition, chunk |-> NoChunk, tag |-> 0]
\* Between its first and last step ReadHistory owns control_mutex_.
Reading == {"check", "reset", "read"}
ControlsFree == worker.at \notin Reading
\* Nobody polls once the history has been given up.
ControlsRun == ControlsFree /\ owner \notin {"stop", "ended"}
\* video_worker_stop: the decoder plays out what it holds and is closed.
Closing == owner \in {"close", "close_drain", "stop"}

Init ==
  /\ channel \in Channels
  /\ history = [begin |-> 0, end |-> 0, generation |-> 0, marks |-> {}, chunks |-> <<>>]
  /\ keys = [target |-> Unset, pending |-> FALSE, pause |-> Unset]
  /\ cursor = [read |-> 0, timeline |-> 0, paused |-> FALSE]
  /\ request = NoPosition
  /\ reopen = [position |-> NoPosition, time |-> Unset]
  /\ result = "ok"
  /\ finished = FALSE
  /\ worker = NewWorker
  /\ owner = "feed"
  /\ backend = NewBackend
  /\ asked = [seeks |-> 0, told |-> 0, presses |-> 0, raced |-> FALSE]

--------------------------------------------------------------------------------
(***************************************************************************)
(* Keys: iptv_player_seek_live, iptv_player_go_live and                    *)
(* iptv_player_pause_live, called by the on-screen controls while a poll   *)
(* owns control_mutex_.  They need a history that can be searched and a    *)
(* picture already shown (gLiveState.available).                           *)
(***************************************************************************)
Available == Timed(history) /\ backend.shown # NoPicture
Clamped(t) == IF t < Min(history.marks) THEN Min(history.marks)
              ELSE IF t > Max(history.marks) THEN Max(history.marks) ELSE t
Pressed == asked' = [asked EXCEPT !.presses = @ + 1]
Press ==
  /\ ControlsRun
  /\ Available /\ asked.presses < MaxPresses
  /\ \/ \E step \in Steps :
          keys' = [target |-> Clamped(Clamped(IF keys.target # Unset THEN keys.target
                                              ELSE backend.shown.at) + step),
                   pending |-> TRUE, pause |-> Unset]
     \/ keys' = [target |-> Max(history.marks), pending |-> TRUE, pause |-> Unset]
     \/ keys' = [keys EXCEPT !.pause = IF cursor.paused THEN 0 ELSE 1]
  /\ Pressed
  /\ UNCHANGED <<channel, history, cursor, request, reopen, result, finished, worker, owner, backend>>

(***************************************************************************)
(* UpdateLiveControls, under control_mutex_: take the seek and the pause,  *)
(* move the request on, and acknowledge the seek when the decoder shows a  *)
(* picture of its current timeline.  Taken seeks of an untimed history are *)
(* dropped.                                                                *)
(***************************************************************************)
TakesSeek == keys.pending /\ Timed(history)
AfterSeek == IF TakesSeek THEN Repositioned(backend) ELSE backend
Resumes == keys.pause = 0
\* Resuming where the history has moved on releases what the decoder blocks.
Retired == cursor.read < history.begin \/ cursor.timeline # history.generation
AfterPause ==
  IF keys.pause = Unset THEN AfterSeek
  ELSE IF Resumes /\ Retired THEN Repositioned([AfterSeek EXCEPT !.paused = FALSE])
  ELSE [AfterSeek EXCEPT !.paused = (keys.pause = 1)]

\* A chunk that is still being submitted counts as unread, and as read once a
\* reposition has released it.
Submitting == worker.at \in {"push", "submit"}
ResumeMeetsPush == Resumes /\ Retired /\ Submitting

Poll ==
  /\ ControlsRun
  /\ LET taken == asked.seeks + (IF TakesSeek THEN 1 ELSE 0)
     IN  /\ asked' = [asked EXCEPT !.seeks = taken,
                                   !.told = IF TakesSeek /\ IsOpen(backend) THEN taken ELSE @,
                                   !.raced = @ \/ ResumeMeetsPush]
         /\ request' = IF TakesSeek THEN SeekTo(history, keys.target, taken) ELSE request
  /\ backend' = AfterPause
  /\ cursor' = [cursor EXCEPT
                  !.paused = IF keys.pause # Unset THEN keys.pause = 1
                             ELSE @ /\ ~TakesSeek]
  /\ keys' = [target |-> IF HasCurrentPicture(backend') THEN Unset ELSE keys.target,
              pending |-> FALSE, pause |-> Unset]
  /\ UNCHANGED <<channel, history, reopen, result, finished, worker, owner>>

--------------------------------------------------------------------------------
(***************************************************************************)
(* ReadAheadLoop and ReadHistory.  Each access to the history is a step of *)
(* its own: the download thread appends in between.                        *)
(***************************************************************************)
Goes(place) == worker' = [NewWorker EXCEPT !.at = place]
WorkerRuns == owner # "ended"

\* The loads at the top of the loop: the end of the input before `finished`.
Glance ==
  /\ WorkerRuns /\ worker.at = "top"
  /\ worker' = [NewWorker EXCEPT !.at = "lock", !.write = history.end, !.finished = finished]
  /\ UNCHANGED <<channel, history, keys, cursor, request, reopen, result, finished, owner, backend, asked>>

\* Take control_mutex_, the range and the request.
TakeRequest ==
  /\ WorkerRuns /\ worker.at = "lock"
  /\ worker' = [worker EXCEPT !.at = "check", !.range = Snapshot(history),
                              !.position = request]
  /\ request' = NoPosition
  /\ UNCHANGED <<channel, history, keys, cursor, reopen, result, finished, owner, backend, asked>>

\* Nothing to feed: the loop ends when the input has, or asks again.
BadWaitForMore == "top"
Nothing ==
  IF worker.finished /\ ~cursor.paused /\ cursor.read = worker.write THEN "ended" ELSE "top"

Outdated(p) ==
  \/ p.offset < worker.range.begin
  \/ p.generation # worker.range.generation
  \/ p.offset < worker.range.first
Behind == cursor.read < worker.range.begin \/ cursor.timeline # worker.range.generation
FirstKept(n) == IF Timed(history) THEN SeekTo(history, worker.range.first, n) ELSE NoPosition
\* A request that cannot be sought any more is dropped.
Forgotten == [asked EXCEPT !.told = IF backend.seek < @ THEN backend.seek ELSE @]
\* While paused only a request moves the reader; a reader the window has left
\* behind starts again at its first picture, or waits until there is one.
CheckPosition ==
  /\ WorkerRuns /\ worker.at = "check"
  /\ LET wanted == IF worker.position # NoPosition /\ Outdated(worker.position)
                   THEN FirstKept(worker.position.seek) ELSE worker.position
         moved  == IF wanted = NoPosition /\ Behind /\ ~cursor.paused
                   THEN FirstKept(asked.seeks) ELSE wanted
     IN  /\ IF moved # NoPosition
            THEN worker' = [worker EXCEPT !.at = "reset", !.position = moved]
            ELSE IF cursor.paused \/ Behind THEN Goes(Nothing)
            ELSE worker' = [worker EXCEPT !.at = "read"]
         /\ asked' = IF worker.position # NoPosition /\ moved = NoPosition THEN Forgotten ELSE asked
  /\ UNCHANGED <<channel, history, keys, cursor, request, reopen, result, finished, owner, backend>>

(***************************************************************************)
(* Reset the decoder for the position.  The producer may have retired it   *)
(* since the snapshot: then it is asked for again.  A position of another  *)
(* format needs another decoder, which the owner opens.                    *)
(***************************************************************************)
BadPauseForgotten(b) == b
PausedAsAsked(b) == [b EXCEPT !.paused = cursor.paused]
ResetDecoder ==
  /\ WorkerRuns /\ worker.at = "reset"
  /\ LET p == worker.position
         b == Repositioned(backend)
         same == ~IsOpen(b) \/ b.format = ChunkAt(history, p.offset).format
     IN  \/ /\ ~Retains(history, p)
            /\ request' = p
            /\ backend' = b
            /\ Goes(Nothing)
            /\ UNCHANGED <<channel, cursor, reopen, result>>
         \/ /\ Retains(history, p) /\ ~same
            /\ backend' = Reset(b, p.seek)
            /\ reopen' = [reopen EXCEPT !.position = p]
            /\ result' = "reopen"
            /\ Goes("ended")
            /\ UNCHANGED <<channel, cursor, request>>
         \/ /\ Retains(history, p) /\ same
            /\ backend' = PausedAsAsked(Reset(b, p.seek))
            /\ cursor' = [cursor EXCEPT !.read = p.offset, !.timeline = p.generation]
            /\ worker' = [worker EXCEPT !.at = "read"]
            /\ UNCHANGED <<channel, request, reopen, result>>
  /\ UNCHANGED <<channel, history, keys, finished, owner, asked>>

\* read(): a chunk of the timeline being played, or none this time.
BadOfAnyTimeline == TRUE
OfTimeline == cursor.timeline = history.generation
ReadChunk ==
  /\ WorkerRuns /\ worker.at = "read"
  /\ IF Readable(history, cursor.read) /\ OfTimeline
     THEN worker' = [NewWorker EXCEPT !.at = "push", !.chunk = ChunkAt(history, cursor.read)]
     ELSE Goes(Nothing)
  /\ UNCHANGED <<channel, history, keys, cursor, request, reopen, result, finished, owner, backend, asked>>

(***************************************************************************)
(* iptv_stream_push of the chunk.  The first picture opens the decoder,    *)
(* which polls the controls meanwhile; a picture of another format asks    *)
(* for another decoder.  A submission takes the stream generation first    *)
(* and waits for room; a reposition lets it return without queueing.       *)
(***************************************************************************)
OpenDecoder ==
  /\ WorkerRuns /\ worker.at = "push" /\ ~IsOpen(backend)
  /\ backend' = [backend EXCEPT !.format = worker.chunk.format]
  /\ UNCHANGED <<channel, history, keys, cursor, request, reopen, result, finished, worker, owner, asked>>

AskReopen ==
  /\ WorkerRuns /\ worker.at = "push" /\ IsOpen(backend)
  /\ backend.format # worker.chunk.format
  /\ reopen' = [reopen EXCEPT !.time = cursor.read]
  /\ result' = "reopen"
  /\ Goes("ended")
  /\ UNCHANGED <<channel, history, keys, cursor, request, finished, owner, backend, asked>>

BeginSubmit ==
  /\ WorkerRuns /\ worker.at = "push" /\ IsOpen(backend)
  /\ backend.format = worker.chunk.format
  /\ worker' = [worker EXCEPT !.at = "submit", !.tag = backend.tag]
  /\ UNCHANGED <<channel, history, keys, cursor, request, reopen, result, finished, owner, backend, asked>>

Submitted == [at |-> worker.chunk.at, generation |-> worker.chunk.generation,
              tag |-> worker.tag, seek |-> backend.seek]
HasRoom == Len(backend.queue) < QueueLimit
\* A submission that gives up when there is no room, and counts as read.
BadEndSubmit ==
  /\ WorkerRuns /\ worker.at = "submit"
  /\ backend' = IF backend.discard \/ ~HasRoom THEN backend
                ELSE [backend EXCEPT !.queue = Append(@, Submitted), !.last = Submitted]
  /\ cursor' = [cursor EXCEPT !.read = @ + 1]
  /\ Goes("top")
  /\ UNCHANGED <<channel, history, keys, request, reopen, result, finished, owner, asked>>
EndSubmit ==
  /\ WorkerRuns /\ worker.at = "submit"
  /\ backend.discard \/ HasRoom
  /\ backend' = IF backend.discard THEN backend
                ELSE [backend EXCEPT !.queue = Append(@, Submitted), !.last = Submitted]
  /\ cursor' = [cursor EXCEPT !.read = @ + 1]
  /\ Goes("top")
  /\ UNCHANGED <<channel, history, keys, request, reopen, result, finished, owner, asked>>

--------------------------------------------------------------------------------
(***************************************************************************)
(* The decoder's thread: pictures of an older stream generation are        *)
(* dropped, the others decoded and presented.  A pause lets the picture    *)
(* in hand be presented and takes no other, but no pause stops a decoder   *)
(* that is being closed (pause_video).  The look at the pause and the      *)
(* taking are one step: one that comes between them lets a picture more    *)
(* through.                                                                *)
(***************************************************************************)
DecoderRuns == owner # "ended" /\ IsOpen(backend)
IsCurrent(p) == p.tag = backend.tag
TakePicture ==
  /\ DecoderRuns
  /\ ~backend.paused \/ Closing
  /\ backend.queue # <<>> /\ backend.decoding = NoPicture
  /\ backend' = [backend EXCEPT
                   !.queue = Tail(@),
                   !.decoding = IF IsCurrent(Head(backend.queue)) THEN Head(backend.queue) ELSE @]
  /\ UNCHANGED <<channel, history, keys, cursor, request, reopen, result, finished, worker, owner, asked>>

Present ==
  /\ DecoderRuns /\ backend.decoding # NoPicture
  /\ backend' = [backend EXCEPT !.shown = backend.decoding, !.decoding = NoPicture]
  /\ UNCHANGED <<channel, history, keys, cursor, request, reopen, result, finished, worker, owner, asked>>

--------------------------------------------------------------------------------
(***************************************************************************)
(* The download thread.  Push appends even while the viewer is paused or   *)
(* another decoder is due, then tries to recover.                          *)
(***************************************************************************)
Push ==
  /\ owner = "feed" /\ history.end < Len(channel)
  /\ LET next == channel[history.end + 1]
     IN  history' = Appended(history, [at |-> history.end, format |-> next.format,
                                       generation |-> history.generation], next.start)
  /\ owner' = IF result = "reopen" THEN "recover" ELSE "feed"
  /\ UNCHANGED <<channel, keys, cursor, request, reopen, result, finished, worker, backend, asked>>

\* Discontinuity and NextTimeline: a provider's break retires all it sent.
Discontinuity ==
  /\ owner = "feed" /\ history.generation < MaxGeneration
  /\ history' = Discontinued(history)
  /\ UNCHANGED <<channel, keys, cursor, request, reopen, result, finished, worker, owner, backend, asked>>

(***************************************************************************)
(* RecoverHistory: where the changed picture asked for another decoder,    *)
(* playback resumes at the first picture from there; it may still be       *)
(* downloading.  Start(true) joins the demultiplexing thread, lets the old *)
(* decoder play out what it holds, polling the controls meanwhile, and     *)
(* replaces it, keeping the history.  A newer seek goes first.             *)
(***************************************************************************)
FromTime(t) == {m \in history.marks : m >= t}
ResumePosition ==
  IF reopen.position # NoPosition THEN reopen.position
  ELSE IF FromTime(reopen.time) = {} THEN NoPosition
  ELSE [offset |-> Min(FromTime(reopen.time)), generation |-> history.generation,
        seek |-> backend.seek]
PlayedOut == backend.queue = <<>> /\ backend.decoding = NoPicture
BadReopenFirst == reopen.position
StartsAt == IF request # NoPosition THEN request ELSE reopen.position

CannotResume ==
  /\ owner \in {"recover", "recover_drain"} /\ ResumePosition = NoPosition
  /\ owner' = IF owner = "recover" THEN "feed" ELSE "ended"
  /\ UNCHANGED <<channel, history, keys, cursor, request, reopen, result, finished, worker, backend, asked>>

CloseDecoder ==
  /\ owner \in {"recover", "recover_drain"} /\ worker.at = "ended"
  /\ ResumePosition # NoPosition
  /\ reopen' = [reopen EXCEPT !.position = ResumePosition]
  /\ owner' = IF owner = "recover" THEN "close" ELSE "close_drain"
  /\ UNCHANGED <<channel, history, keys, cursor, request, result, finished, worker, backend, asked>>

Restart ==
  /\ owner \in {"close", "close_drain"} /\ PlayedOut
  /\ request' = StartsAt
  /\ reopen' = [position |-> NoPosition, time |-> Unset]
  /\ cursor' = [cursor EXCEPT !.read = history.begin]
  /\ result' = "ok"
  /\ backend' = [NewBackend EXCEPT !.shown = [backend.shown EXCEPT !.tag = 0]]
  /\ worker' = NewWorker
  /\ finished' = (owner = "close_drain")
  /\ owner' = IF owner = "close" THEN "feed" ELSE "drain"
  /\ UNCHANGED <<channel, history, keys, asked>>

\* Finish: the input has ended; what is left is drained before the stop.
Finish ==
  /\ owner = "feed"
  /\ finished' = TRUE /\ owner' = "drain"
  /\ UNCHANGED <<channel, history, keys, cursor, request, reopen, result, worker, backend, asked>>
\* StopReadAhead gives up the history, and the pause with it (ResetHistory),
\* unless another decoder is due.
Drained ==
  /\ owner = "drain" /\ worker.at = "ended"
  /\ \/ result = "reopen" /\ owner' = "recover_drain" /\ UNCHANGED cursor
     \/ /\ result # "reopen" /\ owner' = "stop"
        /\ cursor' = [cursor EXCEPT !.paused = FALSE]
  /\ UNCHANGED <<channel, history, keys, request, reopen, result, finished, worker, backend, asked>>
Stopped ==
  /\ owner = "stop" /\ PlayedOut
  /\ owner' = "ended"
  /\ UNCHANGED <<channel, history, keys, cursor, request, reopen, result, finished, worker, backend, asked>>

Over == owner = "ended" /\ UNCHANGED vars

Owner ==
  \/ Push \/ Discontinuity \/ Finish \/ Drained \/ Stopped
  \/ CannotResume \/ CloseDecoder \/ Restart
Worker ==
  \/ Glance \/ TakeRequest \/ CheckPosition \/ ResetDecoder \/ ReadChunk
  \/ OpenDecoder \/ AskReopen \/ BeginSubmit \/ EndSubmit
Decoder == TakePicture \/ Present
Controls == Press \/ Poll
Next == Owner \/ Worker \/ Decoder \/ Controls \/ Over

(***************************************************************************)
(* The threads run; control_mutex_ is handed over in the end (Poll waits   *)
(* for it again and again).  Nothing makes the channel send or the viewer  *)
(* press.  The viewer may leave in any state, which ends the run there.    *)
(***************************************************************************)
Fairness ==
  /\ WF_vars(Worker) /\ WF_vars(Decoder) /\ SF_vars(Poll)
  /\ WF_vars(Drained) /\ WF_vars(Stopped)
  /\ WF_vars(CannotResume) /\ WF_vars(CloseDecoder) /\ WF_vars(Restart)
Spec == Init /\ [][Next]_vars /\ Fairness

--------------------------------------------------------------------------------
Places == {"top", "lock", "check", "reset", "read", "push", "submit", "ended"}
Histories == [begin : Offset, end : Offset, generation : 0 .. MaxGeneration,
              marks : SUBSET Offset, chunks : Seq(Chunk)]
Workers == [at : Places, write : Offset, finished : BOOLEAN,
            range : [begin : Offset, generation : 0 .. MaxGeneration, first : Offset],
            position : Position \cup {NoPosition}, chunk : Chunk \cup {NoChunk}, tag : Nat]
Backends == [format : Formats \cup {Closed}, tag : Nat, discard : BOOLEAN,
             paused : BOOLEAN, queue : Seq(Picture), decoding : Picture,
             shown : Picture, last : Picture, seek : 0 .. MaxPresses]
TypeOK ==
  /\ channel \in Channels
  /\ history \in Histories
  /\ keys \in [target : Offset \cup {Unset}, pending : BOOLEAN, pause : {Unset, 0, 1}]
  /\ cursor \in [read : Offset, timeline : 0 .. MaxGeneration, paused : BOOLEAN]
  /\ request \in Position \cup {NoPosition}
  /\ reopen \in [position : Position \cup {NoPosition}, time : Offset \cup {Unset}]
  /\ result \in {"ok", "reopen"} /\ finished \in BOOLEAN
  /\ worker \in Workers
  /\ owner \in {"feed", "recover", "close", "drain", "recover_drain", "close_drain",
                "stop", "ended"}
  /\ backend \in Backends /\ Len(backend.queue) <= QueueLimit
  /\ asked \in [seeks : 0 .. MaxPresses, told : 0 .. MaxPresses,
                presses : 0 .. MaxPresses, raced : BOOLEAN]

(***************************************************************************)
(* A seek is acknowledged only by a picture of the timeline it began, or   *)
(* of a later one: no picture of before it lets the controls count from    *)
(* the wrong place (UpdateLiveControls, ReadHistory).  A seek taken while  *)
(* no decoder was open, and one dropped because nothing could be sought    *)
(* any more, are not held to it.                                           *)
(***************************************************************************)
AckIsOfNewTimeline ==
  [][keys.target # Unset /\ keys'.target = Unset => backend.shown.seek >= asked'.told]_vars

(***************************************************************************)
(* What the decoder is fed is one piece of the history: within a timeline  *)
(* of the decoder every chunk follows the one before, all of one provider  *)
(* timeline, and none comes from overwritten storage (ReadHistory).        *)
(***************************************************************************)
Follows(p, q) == q.at = p.at + 1 /\ q.generation = p.generation
FedInOrder ==
  [][backend'.last \notin {backend.last, NoPicture} =>
       \/ backend.last = NoPicture /\ backend'.last.generation = cursor.timeline
       \/ backend'.last.tag = backend.last.tag /\ Follows(backend.last, backend'.last)]_vars

(***************************************************************************)
(* The viewer sees the channel in its order: the picture that is shown     *)
(* follows the one before in the same provider timeline, or the decoder    *)
(* was repositioned between them (a seek, a resume, a window that moved    *)
(* on), and even then none of a timeline the provider has left comes after *)
(* one of the next.  A new decoder has shown nothing (tag 0).              *)
(***************************************************************************)
InOrder(p, q) ==
  /\ p.tag <= q.tag /\ p.generation <= q.generation
  /\ p.tag = q.tag => Follows(p, q)
SeenInOrder ==
  [][backend'.shown \in {backend.shown, [backend.shown EXCEPT !.tag = 0]} \/
       InOrder(backend.shown, backend'.shown)]_vars

(***************************************************************************)
(* The history as it is taken here is one that LiveHistory promises, the   *)
(* contract Timeshift implements in detail: what this module shows of the  *)
(* reader is shown over a history that the ring can be.                    *)
(***************************************************************************)
Contents == [o \in history.begin .. history.end - 1 |-> ChunkAt(history, o)]
Promised == INSTANCE LiveHistory WITH
              Capacity <- Window, begin <- history.begin, end <- history.end,
              generation <- history.generation, marks <- history.marks, data <- Contents
ImplementsHistory == Promised!Spec

(***************************************************************************)
(* A pause asked for after a seek outlives the seek's reset: while the     *)
(* viewer has paused, the decoder takes no picture, whatever repositions,  *)
(* expiries and new decoders come between (UpdateLiveControls,             *)
(* ReadHistory).  Only a decoder that is being closed plays out what it    *)
(* still holds; the one that follows is paused as asked.                   *)
(***************************************************************************)
PauseIsKept ==
  [][backend'.decoding # backend.decoding /\ backend'.decoding # NoPicture =>
       ~cursor.paused \/ Closing]_vars

(***************************************************************************)
(* A decoder told to throw its input away for a new position gets one: it  *)
(* takes input again, unless the viewer pauses, nothing can be sought, or  *)
(* another decoder has to be opened first (iptv_native_backend_request_    *)
(* reposition, ReadHistory).  A resume that meets a submission is left to  *)
(* OwnerResetsTimeline.                                                    *)
(***************************************************************************)
Excused == cursor.paused \/ ~Timed(history) \/ result = "reopen" \/ owner = "ended"
InputIsTakenAgain == backend.discard ~> ~backend.discard \/ Excused \/ asked.raced

(***************************************************************************)
(* The same without the exception: include/iptv_native_backend.h says of   *)
(* request_reposition that the stream owner must then reset its timeline.  *)
(* A resume polled while a retired chunk is still being submitted asks for *)
(* a reposition that ReadHistory, finding the next chunk retained, never   *)
(* makes: the rest of the history is thrown away unseen.                   *)
(***************************************************************************)
OwnerResetsTimeline == backend.discard ~> ~backend.discard \/ Excused

(***************************************************************************)
(* Draining at the end of the input ends, unless the viewer has paused or  *)
(* what is left cannot be sought (ReadAheadLoop, StopReadAhead).           *)
(***************************************************************************)
DrainEnds ==
  owner = "drain" ~> owner # "drain" \/ cursor.paused \/ ~Timed(history)

================================================================================
