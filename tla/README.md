# ProsperoTV in TLA+

ProsperoTV is an IPTV player for a game console: it downloads channel lists
from providers, keeps them in a catalogue, plays live and recorded streams
with pause and seek, records programmes and updates itself. This directory
models the parts of it where threads, files and timelines meet, checks them
with TLC and proves their main invariants with TLAPS.

## 1. Inventory

Paths are relative to `src/`. "Engine" is `src/*.cpp`, "front end" is
`opengl-ui/src/tv/*.cpp`, "console" is `opengl-ui/ps5/`.

| Component | State it keeps | Operations | Talks to |
| --- | --- | --- | --- |
| live history ring (`src/iptv_timeshift.cpp`) | a byte ring, `begin_`/`end_`/`scan_`, picture marks, one video clock, a timeline generation | append, append_webm, set_video_pid, discontinuity, discard_before; read, seek, seek_next, reposition, range | filled by the download thread, read by the playback thread, sought by the controls; one mutex |
| demultiplexer (`src/iptv_stream.cpp`) | packet and PES buffers, programme, wrapping clocks, the history of parameter sets | push, scan, flush, discontinuity, reposition_from | called by playback and, without a decoder, by the ring |
| player (`src/iptv_player.cpp`) | the runner, read-ahead ring, pending seek, pause, reopen target | Start, Push, ReadHistory, controls, StopReadAhead, Close | owner thread, read-ahead worker, controls' thread, native backend |
| native backend (`src/iptv_native_backend.c`) | bounded audio and video queues, generations, the presentation clock | submit, pause, discontinuity, request_reposition, stop | demultiplexing thread, two workers, presentation |
| HLS and containers (`src/iptv_hls.cpp`, `iptv_media.cpp`, `iptv_webm.cpp`) | playlist position, segment list, quality | reload, next segment, change quality | HTTP client, player |
| HTTP client (`src/iptv_http.cpp`, console curl) | network contexts, the tracked request | init, shutdown, fetch, cancel | every worker; cancelled from the frame loop |
| catalogue store (`src/iptv_store.cpp`) | `<path>`, `<path>.bak`, `<path>.new` | SaveCatalog, LoadCatalog, InspectCatalog | refresh thread, frame loop, search thread |
| catalogue refresh (front end `model*.cpp`) | selected source, list in memory, refresh thread and its result, queued flag, forms, search | open, close, poll, refresh, consume_refresh, use_saved_source, commit_source, search | store, HTTP client, library |
| On Demand, guide, home (front end `vod*.cpp`, `guide*.cpp`, `model_home.cpp`) | further downloads and their caches | select, poll, stop | as the catalogue refresh |
| library (`library*.cpp`, `profiles.cpp`, `backup.cpp`) | SQLite records | save, remove, restore | the frame loop |
| state files (`src/iptv_user_state.cpp`, `iptv_source_state.cpp`) | small checked files | save, load | the frame loop |
| recordings (`recording.cpp`, `model_recording.cpp`) | the database of programme jobs, a partial file, a recorder thread | schedule, cancel, toggle, poll; start, stop, join | frame loop, HTTP client, the USB drive |
| self-update (console `update_kit/`, `update_helper/`) | the job's phase, the helper's work folder, the installed entries | check, start, cancel, apply, swap_entries | two processes over one connection |
| remote and sharing (`src/iptv_remote.cpp`, `share_*.cpp`) | an HTTP server's inbox | request, answer | server thread, frame loop |
| source checks, parental controls | probes in flight, the code's delays | start, cancel, poll | HTTP client |
| parsing, drawing, platform | none beyond a call, or the console's | | |

### What makes it correct, and what makes it hard

* **Ring.** What a reader may ask for must still be there, whole, and of the
  timeline it was found on. The download overwrites while a reader holds a
  position; a programme change, a jump of the clock or a reconnect retires
  the timeline half-way through one append; timestamps wrap and arrive in
  decoding order.
* **Store.** A save replaces the list in one step or not at all. It is a
  sequence of removes and renames, several of whose results are ignored, and
  the app may be killed between any two.
* **Refresh.** The list on screen is of the account the selected source has;
  no thread reads files another is replacing; nothing that was asked for is
  forgotten; close returns. The frame loop owns everything, but its guards
  are spread over screens, forms and callbacks, and a download's result is
  installed many frames after it was asked for.
* **Player and backend.** A seek must not be acknowledged by a picture of the
  old timeline, a drain must end, and one thread that fills two bounded
  queues must not wait on one for the other.
* **Self-update.** The installed application is replaced whole or not at all,
  and a cancel that wins the race with "staged" must win.
* **Recordings.** A job's row, the recorder's thread and the file on the drive
  are three records of one thing. Any write of the row may be refused, the
  recorder ends by itself, by the clock, by a lock or by a key, the app may be killed at any time, and a
  restored backup brings an older table back: the list of jobs must say what
  is on the drive.

`PROJECT.json` lists every hazard at its line, with the property that covers
it or the module planned for it.

## 2. Modules

| Module | Models | State and actions |
| --- | --- | --- |
| `ReplayHistory` | the parser's clock extension and parameter-set history | operators only: `Extended`, `Remember`, `ReplayReady`, `Accepts` |
| `LiveHistory` | what a live history promises whoever keeps an offset while the download goes on: a bounded window that only moves forward, contents that stay while they are covered, pictures that leave oldest first | `GoOn`, `NewTimeline` |
| `Timeshift` | class `Timeshift`, in its plain, replay and WebM modes | `storage`, `begin`, `end`, `scan`, `marks`, `generation`, ... are the members of the same names; `op` is the place inside `append`, which is split into its loop's steps (`WriteChunk`, `SkipUnit`, `IndexPacket`, `ScanSettings`, `Trim`, `IndexEnds`, `AppendEnds`); the other operations are one action each |
| `MCTimeshift` | instances: inputs of one to five packets, WebM records | |
| `AtomicStore` | what `iptv_store.h` promises: one stored list, replaced in one step; and how far two failures of the storage weaken that | `BeginSave`, `Replace`, `SaveOk`, `SaveFailed`, `Load`, `Forget`; `Expose` and `Lose` after an undo that was refused, `Misread` and `Relapse` after a good file that could not be read |
| `CatalogStore` | `SaveCatalog` and `LoadCatalog` on three files | one action per file operation, each of which may be refused, and `Crash`; `stranded` remembers a refusal that left the only good list in `<path>.bak` |
| `MCCatalogStore` | an instance: three saves, every operation refusable | |
| `CatalogRefresh` | `Model`'s frame loop, refresh thread and search thread | `worker` is the refresh thread with the source and account it copied, `queued`, `stopping`, `form`, `searching`, `discovery` the flags and threads of the class, `load` a `LoadCatalog` on the frame loop beside which a save may run (`CommitForm`, `ReadForJob`, then `FinishLoad`), `cache` what the store holds |
| `MCCatalogRefresh` | an instance: one playlist and one portal, two accounts | |
| `LivePlayback` | `StreamRunner` playing a live channel through its history: `Push`, `Discontinuity`, `Finish`, `RecoverHistory`; `ReadAheadLoop` and `ReadHistory`; `UpdateLiveControls` and the keys | `history` is what `Timeshift` tells its callers, `keys` the two requests of the controls, `cursor` the reader, `request` and `reopen` what waits for it, `worker` the demultiplexing thread with the place inside `ReadHistory` (one access to the history per action), `owner` the download thread with its place in `RecoverHistory`, `Close` and `Finish` (`CloseDecoder`, `Restart`, `Stopped`), `backend` the decoder as these two see it |
| `MCLivePlayback` | three channels: one setup, a new one at a picture to start at, a new one before such a picture | |
| `NativeQueues` | the decoder's queues: `submit_video`, `submit_audio`, `programme_boundary`, `select_audio`, `disable_audio`, `discontinuity`, `drain`; `video_worker_entry`, `audio_worker_entry`; pause, seek and stop | `vq`, `aq` are the queues, `gen` is `stream_generation`, `started` the gate `playback_started`, `sync` is `audio_sync_pending`; `producer`, `video`, `audio` are the three threads with their places and locals, `viewer` what the player itself remembers |
| `MCNativeQueues` | four orders of pictures, sound and a boundary | |
| `AppUpdate` | what the update promises the user over all attempts: one moment at which the installed version changes, and what may be said of an attempt | `Begin`, `Replace`, `Cancel`, `Fail`; `Doubt` and `Break` after a fault that is not survived |
| `SelfUpdate` | the update's sheet, its job, the connection and the helper | `stage` is `UpdateSheet::stage_`, `job` the `self_update_job` with the place of its thread in `run_job` (`JobStep`), `helper` the `Session` with the place of `run` (`HelperStep`), `Listen` and `Report` its other threads, `link`, `up` and `down` the connection, `target` and `work` the installed and the work folder; `HAside`, `HPlace` and `HUndo` are single renames of `swap_entries` |
| `MCSelfUpdate` | an instance: an entry the release drops, two it replaces, one it adds | |
| `JobLife` | what becomes of a programme job: it waits, is recorded at most once and alone, and is on the drive or over, until a restore puts all jobs back | `Accept`, `Start`, `Keep`, `End`; `Backup`, `Restore` |
| `Recording` | `ProgrammeJobs`, `Recorder` and the frame loop's `poll_programme_jobs` | `jobs` are the rows, `recorder` the class with the place inside `Recorder::run` (`Create`, `Receive`, `StreamEnds`, `Close`), `recordingJob` is `recording_job_`, `files` the drive; `frame` is the place inside a poll, which is `Begin` and one `HandleJob` for each job due; `CloseForStorage` and `Joined` are `close_for_storage`, `Backup` and `Restore` the two storage operations that copy and replace the table (`backups`), `Die` the end of the app |
| `MCRecording` | an instance: a programme, its second half on another channel, a reminder | |
| `*_proofs` | theorems about the module each extends | |

`Timeshift` uses `ReplayHistory` as the code's ring embeds a parser session.
`CatalogStore` is shown to implement `AtomicStore`, `SelfUpdate` to implement
`AppUpdate` and `Recording` to implement `JobLife`; both `Timeshift` and the
history that `LivePlayback` takes for granted are shown to implement
`LiveHistory`. `CatalogRefresh` takes a
save as the single step `AtomicStore` allows (`Save`: done or not; what its
two storage failures may cost beyond that is left to `CatalogStore`), so the
two compose: `NoReaderMeetsSave` is what makes the unlocked store safe to use
from two threads. Its one exception, a form's load beside a scheduled download,
is not taken as one step: `Outcomes` is what such a load may find and leave. `LivePlayback` takes of `Timeshift` what its callers rely
on and `Timeshift`'s properties grant: a position is exact or refused
(`HeldIsExactOrRefused`), a window that can be searched has a picture to start
at (`SeekIsUsable`), what is retained is intact (`RingIntact`). Of the decoder
it takes a bounded queue, a generation and a flag; `NativeQueues` has that
decoder in detail, and takes of the player the seek, the reset and the pause.
`SelfUpdate` stands alone: app and helper share only the connection and the
installed folder; so does `Recording`, whose table is written by nothing else
but the restore of a backup (`opengl-ui/src/tv/backup.cpp`), an action of it.

### How the code is abstracted

* The ring's unit is a transport packet (a block of equal size) instead of a
  byte; a WebM record takes one or more units. A picture carries its raw
  clock, its stream and whether it is random access; parameter sets are
  "changed" or not. Ticks are converted to microseconds as the code rounds.
* The scan of a packet may find changed parameter sets, may fail to allocate
  their copy, may find no timestamp, and may be rejected: the choice is free.
* A catalogue is the number of the save that wrote it; a damaged file is
  `Unreadable`. SQLite's own atomicity and `quick_check` are taken as given. A
  good file may fail to be read as well (`readPrimary`, `readBackup`: no
  memory, an input error, too large). A crash is a killed process, which
  leaves every file as it was written; after a loss of power it need not be,
  since staging files are written with `synchronous=OFF` and renamed without
  an `fsync` (section 5).
* An account is a model value, a list is the account it came from and the
  provider's revision of it.
* A load of a list is one step where nothing else can use its files, and two
  (`BeginLoad`, `FinishLoad`) where a save may come between; `load.met` says
  that one did. Then any of the lists before and after it, or none, is found,
  and the saved one may be the old one again or gone.
* `metForm` remembers that a download started while the selected source's
  form was open, the one case in which the list on screen may be another
  account's.
* In `LivePlayback` an offset is a chunk of the history (what one `read`
  returns) and its time is its offset; a chunk has a decoder setup and may
  be one a reader can start at. Every seek has a number and every picture
  the number of the last seek the decoder was told about (`asked`, `seek`,
  `last` are ghosts; `Forgotten` takes back a seek whose request was dropped). `UpdateLiveControls` is one action: it runs under
  `control_mutex_`. So is the decoder's look at the pause with the taking of
  the next picture (`src/iptv_native_backend.c:2593` and `2647`-`2709`): a
  pause that comes between the two lets one picture more through. A reopened
  decoder is closed first (`CloseDecoder`): it plays out what it holds,
  whatever is pressed meanwhile, and then the new one is opened (`Restart`). A decoder that cannot be opened, an allocation that
  fails, the watchdogs and the viewer leaving end the run and are left out.
* `asked.raced` remembers that a resume met a submission, the defect
  `live_playback_resume` shows; `InputIsTakenAgain` excepts that case only.
* In `NativeQueues` time is counted in units longer than every tolerance of
  the code, and a picture or piece of sound is its time. The byte limit, the
  decoder's delay, pacing, late and field pictures, units without a time,
  malformed sound and allocation failures are left out. An underrun may happen
  at any moment a queue is empty, which includes the code's 250 ms. The start's
  time-out (`OpenGate(TRUE)`) may fire at any time and is never relied on.
* Of the update's archive the model keeps whether it is complete; a download,
  an unpacking or a preparation either works or fails. A line of the protocol
  is a value, one unread progress report stands for any number. What the app
  has sent may be lost with its end of the connection, what the helper has
  sent is still read.
* A helper is started only when the one of the attempt before has ended. In
  the code nothing waits for that: a retry while the first helper is still
  removing its work folder would share the folder with it (listed under
  hazards).
* `harm` remembers three faults that the code does not survive: the answer to
  the go-ahead comes after the socket's 60 seconds (`AnswerLate`), a rename
  of the undo fails (`UndoFails`), the helper is killed between two renames
  (`HelperDies`). The properties they break except them by name; the others
  are checked, and proved, with all three happening.
* In `Timeshift` the scan leaves out the continuity counters
  (`src/iptv_stream.cpp:2234`-`2297`): a gap resets a packet's reassembly, of
  which the ring keeps nothing, and shows as a packet without a timestamp.
* In `Recording` a unit of time is longer than the second between two polls,
  and a programme is its times; source, channel and drive may refuse a job when
  it is due (`Refuse`) and are not looked up. A stream that goes on is told to
  end by `Told`, which is asked before every read, so the end may also be
  reported as a failure. `unwritten` remembers the jobs whose last write the database
  has refused: the code does not write again what it had to say. `files` has
  the recordings of the table's jobs under their final names; a partial file
  is not told from none. A restore is one step: one that fails or is cut short
  is undone from its journal before the table is opened again
  (`ps5/src/main.cpp:1291`, `1395`). It brings back the table of a backup with
  what it knew: what was recorded since belongs to none of its jobs.
* A mutex is an atomic action, except in `append`, whose steps are split so
  that the intermediate states can be stated; readers are then only
  considered while `op` is idle.

## 3. Runs

| Run | Shows |
| --- | --- |
| `timeshift` | in every mode, with every order of appends, programme changes, jumps, reconnects and discards: retained bytes are intact (`RingIntact`), marks name whole retained pictures of one stream (`MarksDescribeRetained`), the window is bounded and every seek result is accepted by `reposition` at once (`SeekIsUsable`), a position kept over later downloads is exact or refused (`HeldIsExactOrRefused`), WebM starts with a whole keyframe, refused stays refused, a long download is indexed before it overwrites itself; together, step by step, the ring is the history its readers were promised (`ImplementsHistory`) |
| `timeshift_wrap` | violation: the ring and its parser disagree by one wrap of the clock after pictures from both sides of the wrap |
| `catalog_store` | with every operation refused now and then and the process killed anywhere, the files implement `AtomicStore`: the stored list changes at one step, and is lost only if a refused undo, recovery or reading of the backup had stranded it there (`OnlyCopyNotInBackup`); a replaced list comes back only when the good one before it could not be read (`NoStaleReturn`) |
| `catalog_refresh` | the thread and form protocol: a download is for the selected source, the list shown is of its account unless a schedule met an open form (`ShownIsOwnUnlessMet`), neither the search thread nor a due job reads the files a save replaces, a form's own load only if a scheduled download began under it (`NoReaderMeetsSave`), a failed download keeps the list (`ListIsKept`); and the two liveness properties |
| `catalog_refresh_form` | violation: the schedule does meet a form, and the old account's list is installed over the new account |
| `live_playback` | with provider breaks, setups that change, an input that may end at any time and two keys at any moment: the decoder is fed one piece of one timeline (`FedInOrder`), the viewer sees it in its order and never goes back to a timeline the provider has left (`SeenInOrder`), a seek is acknowledged by a picture of its own timeline (`AckIsOfNewTimeline`), a pause outlives the resets and the change to another decoder, though one being closed plays out what it holds (`PauseIsKept`), a decoder told to throw its input away takes input again, the drain ends; and the history it is all shown over is one `LiveHistory` allows (`ImplementsHistory`) |
| `live_playback_resume` | violation: a resume polled during a submission asks for a reposition that nobody makes |
| `native_queues` | with decoders that fail and two keys at any moment: a submission does not wait while a picture is left to open the gate (`SubmissionReturns`), a paused seek shows its picture (`PausedSeekShows`), a boundary plays out what is queued (`BoundaryEnds`), the end of the input closes the decoder (`DrainReturns`); and what is queued, under decoding or on screen is never of a mixture of two timelines, with a seek at any place of the three threads (`TimelinesApart`) |
| `native_queues_sound` | violation: the sound outlasts the picture, fills its queue before a closed gate, and the producer waits for ever |
| `self_update` | with every step able to fail, the app closing and opening at any time and the three faults: nothing that was cancelled or shown as failed replaces a file (`CancelRespected`, `FailedChangesNothing`), the folder is one whole version between swaps (`TargetWhole`), the only copy of an entry is never deleted (`OldEntriesKept`), the socket is closed once, attempt and helper end; and what the user is told of every attempt agrees with the one moment at which the version changes (`ImplementsUpdate`) |
| `self_update_reopen` | violation: the app is opened between the helper's look at the running titles and the swap, and runs while its files are replaced |
| `recording` | with refused writes, failing streams and drives, keys, locks, kills and restored backups at any moment: what the list says of a job is what the recorder has done, and a recording that goes on is in the way of no other that was accepted (`JobsTellTheTruth`); a job is recorded at most once, with no other, and is done until a restore puts all jobs back to a backup (`ImplementsJobs`); every job gets a result (`JobsSettle`) |

Bounds. `Capacity = 4` units with inputs of up to five makes every append
wrap, overwrite itself and meet a mark; `PtsModulus = 32` ticks with jumps of
`BackJump = 2` and `ForwardJump = 6` ticks makes wraps, resets and ordinary steps all
occur; `MaxOffset = 6` lets one and a half laps pass, `MaxGeneration = 1` one
timeline change, after which offsets and clocks start afresh. Three saves
(`MaxSaves`) are one to succeed, one to be interrupted and one to clean up
after it. Two sources are the selected one and another, of the two kinds whose
forms differ; two accounts are old and new; one more revision
(`MaxRevision = 1`) tells a new list from a saved one. A pending search, a
form, a download and its queue are single in the code. Two update attempts
(`MaxAttempts`) are one to fail and its retry, which meets what the first left
behind; the four entries are every relation an entry can have to the two
versions, twice for the one whose renames can be ordered.
`LivePlayback` sends three chunks (`MaxOffset = 3`) through a history of two
(`Window = 2`), so the reader is left behind, and a decoder that holds one
(`QueueLimit = 1`), so it is waited for; one break (`MaxGeneration = 1`) and
two keys (`MaxPresses = 2`: a seek or pause, and the one that undoes it or
follows it). `NativeQueues` has queues of three pictures and two pieces of
sound with a time limit of two units (`DemuxSpan = 2`), so either limit is met
first in some input, a cushion of two units (`Refill = 2`) that some inputs
cannot fill, a seek that shows at most one unit late (`ExactWithin = 1`), and
two keys: a pause and a seek, two seeks, or a seek and the viewer leaving. The
violation needs no key (`MaxPresses = 0`). `Recording` has two jobs
(`MaxJobs = 2`), since every rule relates a job to at most one other, and two
units of time (`MaxTime = 2`): the first programme alone, both, and after both.
Besides the empty table of a version 1 backup it has one backup
(`MaxBackups = 1`) of at most one job (`MaxBackedUp = 1`), made before the
clock moves (`LastBackup = 0`), so that the job in it can be recorded, refused
or removed, and another accepted, before it is restored; it may be restored any
number of times.

Deadlock is checked in every run but `self_update` and the two of
`native_queues` (a closed decoder stops): seeking, loading and
closing remain possible when the bounds on offsets, saves and revisions are
reached. An app whose helper was killed after `sce_sys` was moved aside can no
longer be opened, and there the system really stops; that attempt and helper
do not get stuck is what the liveness properties of that run say.

Fairness. `CatalogRefresh` has weak fairness of the refresh thread (the scheduler runs it, every request ends by its timeout or because
`close` cancels it every ten milliseconds), of a load on the frame loop (`FinishLoad`) and of `FinishClose` (the loop
that waits for the thread); and strong fairness of `ConsumeRefresh`, which
`poll` calls on every frame, between the loads that other calls of the same
frame make.
`SelfUpdate` has it of the job's thread, of the helper's thread and of its
listener (each blocks only in reads that end when the other side closes or
times out, and in a sleep), and of `Poll`, which the sheet's `update` does on
every frame. `LivePlayback` has it of the demultiplexing thread, of the decoder and of the
owner's waits (`Drained`, `Stopped`, `CannotResume`, `CloseDecoder`,
`Restart`), each a loop that polls;
and strong fairness of `Poll`, which waits for `control_mutex_` again and
again while the demultiplexing thread takes and leaves it. `NativeQueues` has
it of a submission under way, of both threads, and of the 30 seconds after
which sound stops waiting for its picture (`AlignTimesOut`). `Recording` has it
of the poll, which the menu makes on every frame and the player's overlay while
something plays, of the recorder's thread, which ends once it is told to because
every read times out, and of the clock. Nothing is assumed
of the user, of providers, of the search, of a channel going on, or of the
time-outs of the start and of a boundary.

Each property of a passing run is shown to be able to fail: the operators
named `Bad...` are plausible defects of the same lines (a mark kept after its
packet was overwritten, an undo forgotten, a queue flag dropped), one of which
breaks that property in that run.

## 4. Proofs

The theorems hold for every value of the constants that satisfies the named
assumptions in the modules (a capacity above one, times that are natural
numbers, disjoint model values).

* `Timeshift_proofs`. `RingInv` strengthens `RingIntact` with the type of every
  variable, the places of the offsets (`begin <= end`, at most `Capacity`
  apart, `scan <= end`; `begin <= scan` only while a write is being indexed
  or trimmed, since a discard may pass the scan), the content of every slot
  the start has not passed, that only a WebM history stores anything but
  packets, and that marks lie behind the end and, outside WebM, behind the
  scan. It is inductive because a slot can only be reused a whole lap later
  (`LapApart`). From it: `TypeOK`, `RingIntact`, `ExpiredStaysExpired`,
  `IndexedBeforeOverwritten`.
* `TimeshiftIndex_proofs` continues it. `GoodMarks` says of every mark that it
  is later in the ring than the one before, not newer than `latest`, and, if
  the ring still has its offset, describes the unit there (`Told`). A mark is
  added while its unit is under the scan, and no step changes a cell that both
  the old and the new ring cover (`CellsKept`). The time of a mark is its
  packet's clock some wraps later: `ClockFits` allows one for every unit
  visited (`ClockMoves`: a difference modulo the range moves the clock by at
  most one), so they stay within `MaxOffset`. `NoneIndexed` is what lets the
  first timed picture choose the stream. `Retains` (no mark behind the start
  outside the mutex) needs the order, and `InWindow` what `trim` tests. From
  them: `MarksDescribeRetained`, `HeldIsExactOrRefused`, `WholeRecords` (as it
  stands inductive with the index) and `SeekIsUsable`; that the marks a seek
  chooses from have a latest and an oldest is `WFMin` on the naturals.
  `HistoryImplemented` shows the refinement of `LiveHistory`: `CellsKept` is
  that contents stay (`SlideStep`), the order of the marks is that what a step
  drops from the front or hides behind the start is older than what it keeps,
  and what it adds is newer (`OrderKept`); a clock that jumps leaves at most
  the mark under the scan, which is past every mark of the old timeline
  (`LaterMarksAnew`). Marks the start has passed and `trim` has not dropped yet
  are not offered (`Offered`).
* `CatalogStore_proofs`. `StoreInv` records what each step of a save or load
  knows of the three files. `Safe` adds that between calls the only copy is
  not the backup unless `stranded` says so. Both are inductive for every set
  of refusals (`MayFail`). From them: `TypeOK`, `NoStaleReturn`,
  `OnlyCopyNotInBackup` and the refinement `ImplementsAtomicStore`, none of
  which assumes that any operation works. `NothingIsStranded` says when the
  exception does not arise: where the undo, the recovery and the reading of
  the backup are never refused (`PutsBack`), the only copy is never left in
  the backup.
* `CatalogRefresh_proofs`. `Apart` says that a download's source is the
  selected one and that neither the search thread nor a job's load has it; `Own` says whose list
  and whose download it is, and holds until a download meets an open form.
  From them: `TypeOK`, `RefreshIsOfSelected`, `NoReaderMeetsSave`, and
  `ShownIsOwnUnlessMet`. That what is fetched, waits to be saved or is kept is
  always a list (`SavesAList`, which needs `ListAssumption`: nothing is not a
  list) gives `ListIsKept`; what a load that met a save leaves is excepted
  there by name.
* `SelfUpdate_proofs`. `Typed` adds to the types that only entries of the old
  version are "old" (`Origin`), without which the backup could hold an entry
  that never was there. `SocketInv` says who holds the socket: `Held` relates
  the job's place to its flag, `Count` the flag to the number of closes.
  `CancelInv` says that from "working" no go-ahead has been sent, that a
  cancelled attempt never sends one, and that past the hold the helper has had
  one. `SwapInv` gives each entry one of three places during a swap
  (`InPlace`, `Aside`, `Placed`) and both folders' content before and after
  it. From them: `TypeOK`, `ClosedOnce`, `CancelRespected`, `TargetWhole`,
  `OldEntriesKept`.
  `AlwaysFailure` is about the order of the lines in both directions. `Unread` and `Drained`: "staged" is the last line before the
  go-ahead, so the thread has read everything when it sends one; `Answer`:
  from then the only line that can come is "applying", and a connection that
  ends without it is that of a helper that ended before a swap; `Silenced`: no
  go-ahead outlives a failure that was shown. From them: `FailedChangesNothing`.
  `UpdateImplemented` shows the refinement of `AppUpdate` from the three
  invariants together: a rename into place is one that completes the new
  version or none that is noticed (`ReplacedLasts`: what is placed stays), and
  an attempt of which something was told replaces nothing (`ToldExcludes`). It
  needs `Unfinished`, inductive with `SwapInv`: a swap that is undone has an
  entry left to place, so the version never changes back.
* `LivePlayback_proofs`. `LiveInv` has one part per question. `Kept`: chunks of
  the history are numbered from its start and of one timeline. `Reader`: the
  chunk being pushed is the one the reader stands at. `Fresh`: nothing the
  decoder holds is of a later stream generation than its own, and a submission
  that will queue is of the current one. `Quiet`: a pause the decoder has not
  been given yet finds nothing of its generation queued, and the reader feeds
  nothing before the reset that gives it. `Fed`: what was fed last is the chunk
  before the reader. `Asked`: the last seek the decoder was told about is still
  a request, in the reader's hands, kept for another decoder, or answered by
  the timeline it plays. `Replacing`: while a decoder is closed for another,
  the position the other starts at is kept. `Answering`: no picture of the current generation is
  older than that seek. None is inductive alone: `Quiet`, `Fed` and `Answering`
  need `Fresh`, `Answering` needs `Asked`, and `Asked` needs `Replacing`. From them: the types, `PauseIsKept`,
  `FedInOrder`, `AckIsOfNewTimeline`. A request that nothing can answer any
  more is dropped by the code, and counts as not told (`Forgotten`).
  `SeenInOrder` is about the output of what `FedInOrder` says of the input; it
  needs `Line`, inductive with `LiveInv`: the picture shown or in hand, the
  queue and what was fed last stand in one line, in which neither the
  decoder's generation nor the provider's timeline goes back, and what is of
  the current generation is consecutive. Older pictures in the queue may have
  gaps; the decoder drops them (`LineTaken`). `HistoryIsAsPromised` closes the
  gap to the ring: with `Kept`, an append slides the window (`Slid`) and a break
  leaves nothing, so the history the reader is proved over keeps the contract
  that `HistoryImplemented` shows of the ring.
* `Recording_proofs`. `RecInv` adds to the parts of `JobsTellTheTruth`: `Framed`
  (the jobs a poll has still to handle are waiting ones), `NotBegun` (a job that
  waits has no file), `Owner` (the recorder's end time is its job's, a recorder
  not told to stop has a running job, and the file has its final name exactly
  when the recorder ended well), `Disjoint` (live recordings do not overlap).
  `SavedIsThere` needs `Owner` when the result is written and `NotBegun` when a
  waiting job is refused; that nothing is in the way needs `Disjoint`. `Given`
  says that every id that was given still has its row. `Kept` says of every
  backup what these say of the table (`Sound`), which is what a restore needs:
  the rows it brings, those called running made interrupted
  (`InterruptedRows`), keep all of it (`RestoreStep`). From them: the types and
  `JobsTellTheTruth`. `JobsImplemented` shows the refinement of
  `JobLife`: every step changes the life of one job at most (`Moves`), but a
  restore, which moves all of them to the lives of one backup while nothing is
  recorded (`RestoreMoves`). A written result ends a
  job that waits and changes nothing of one that is recorded or was
  (`ResultMoves`); that no two are recorded at a time is that a start finds no
  recorder, whose end is seen only when it has been joined (`ConcludedMoves`).
* `NativeQueues_proofs`. `QueuesInv` adds to the types `Heads` (a thread past
  its look at a queue still finds a unit there, since nobody else takes one),
  `Reading` (a submission under way is of a unit of the input) and `Counted`
  (a generation for every key pressed, and a second for a seek that was
  reset). From it: `TypeOK`, with the two queues' limits.
  `TimelinesApart`, which the run checks, is almost inductive with it: `Asked` says
  that from the request of a seek to its reset all that exists is of an earlier
  generation, `Submitted` that the queues are in the order of the generations,
  `UnderWay` and `Accounted` that what is under decoding, in hand or shown is of
  the thread's own generation; only that no hint and no queued unit bears a
  generation still to come (`Behind`) has to be added. From it also `PresentedNeverBack`: the picture
  shown never is of an earlier generation than the one before.

Every invariant, action property and refinement that a passing run checks is
proved, for every value of the constants. The types of every
variable are theorems too (`TypeCorrect` of `Timeshift`, `LivePlayback`,
`SelfUpdate` and `Recording`, `StoreTypeCorrect`, `RefreshTypeCorrect`,
`QueuesTyped`); the runs leave them out. Only model-checked: the liveness properties
(`QueuedIsServed`, `CloseReturns`, `AttemptEnds`, `HelperEnds`,
`InputIsTakenAgain`, `DrainEnds`, `JobsSettle`, `SubmissionReturns`,
`PausedSeekShows`, `BoundaryEnds`, `DrainReturns`): liveness under fairness and
`ENABLED` are out of the prover's reach, as are inductions over data and
recursive operators, which the proved modules therefore do not use.

## 5. Where code and documents disagree

1. `extend_pts` (`src/iptv_stream.cpp:558`) counts a wrap twice when pictures
   of both sides interleave, while `docs/ROADMAP_REMAINING.md:177` says the
   history "handles timestamp wrap".
2. `commit_source` (`opengl-ui/src/tv/model_library.cpp:475`) says the old
   source's list is discarded; a scheduled refresh already running puts it
   back.
3. `run` (`opengl-ui/ps5/update_helper/updater.cpp:664`) says "Only a closed
   app is touched"; it looks once, pauses, and swaps without looking again.
4. `UpdateLiveControls` (`src/iptv_player.cpp:1797`) asks for a reposition when
   playback resumes where the history has moved on, judged by a reader that
   does not count the chunk being submitted. `include/iptv_native_backend.h:226`
   says the owner must then reset its timeline; `ReadHistory` finds nothing
   expired and does not, and the decoder throws the rest away until a seek or
   the stall watchdog of `FeedRequest`.
5. `restart_after_underrun` (`src/iptv_native_backend.c:2619`) closes the gate
   when the pictures have ended and the sound goes on; the comment at line 2363
   says the gate must never wait for an impossible fill. In a live channel the
   15 seconds' watchdog ends the connection, a file stands still until the
   viewer leaves or seeks.

More observations, which no run states as a violation:

* `SaveCatalog` (`src/iptv_store.cpp:396`) ignores whether its undo worked, and
  `LoadCatalog` (line 649) whether its recovery did. If either is refused the
  only good list is in `<path>.bak`, and the next save removes that first
  (line 391): if it then fails, the list is gone, while
  `docs/ARCHITECTURE.md:101` keeps the previous valid cache if promotion
  fails. `catalog_store` includes the refusals and names what they cost
  (`stranded`, `Expose`, `Lose`).
* `LoadCatalog` treats a good file that could not be read (no memory, an input
  error: lines 483-490 and 612-622) like a damaged one: if the old backup is
  still beside it, because its removal was refused (line 402), the good file
  is removed and the replaced list takes its place (lines 637-650). The run
  includes it (`MisreadPrimary`, `Relapse`).
* A loss of power soon after a save may leave a promoted file that was never
  written out (`synchronous=OFF`, lines 154-158, no `fsync` before the renames
  of lines 392-393), with the backup already removed. Crashes of the model are
  killed processes.
* The form of the selected source loads its list on the frame loop
  (`model_library.cpp:479`) while a download that a schedule started under the
  form may be saving the same files (`model.cpp:1615`). The load may find
  nothing, put the old list back, or remove the new one after it was promoted.
  `catalog_refresh` includes it. A list that a due recording loads is another
  source's, which no download saves; but the search thread may load the same
  one, and two recoveries of one backup at a time could remove the file the
  first has just recovered. The model's loads of a list no save is replacing
  are atomic, so it does not have that.
* While a decoder is closed for another, a pause stops nothing
  (`src/iptv_native_backend.c:2545`, `2753`-`2767`): the pictures it holds play
  out, and the pause takes effect with the new decoder.
* After a restore (`opengl-ui/src/tv/backup.cpp:340`) a job done since the
  backup is pending again. It is recorded a second time if its time has not
  passed, and otherwise ends as "Missed" while its earlier recording is whole
  on the drive; a version 1 backup removes the table, and its ids are then
  given again. Files do not collide, as their names have the second they began.
* Two recordings that follow each other without a pause are accepted
  (`recording.cpp:97` compares strictly), but the poll that starts the second
  refuses it for good if it finds the first one's recorder not yet ended
  (`model_recording.cpp:152`). `JobsTellTheTruth` says what does hold: only a
  recorder that is ending, or was told to stop, is ever in the way.
* A job that was cancelled while it recorded, and whose app was killed before
  the recorder was joined, says "Stopping recording" for ever:
  `ProgrammeJobs::open` settles running jobs only. `JobsSettle` therefore
  speaks of an app that stays open.
* Time may be up between the two looks of a raw recording's loop
  (`ps5/src/tv_recording.cpp:173` and `66`): the whole recording is then called
  failed and keeps its partial name.

## 6. Not modelled, and the plan

In order:

1. `HttpSession`: request tracking and cancellation.
2. `HlsQuality`: the automatic reduction against a reference definition.
3. State files, and the restore of sources and settings, as further
   implementations of `AtomicStore`;
   `RemoteInbox`.
4. `SelfUpdate` with two helpers over one work folder.
5. In `LivePlayback`: WebM, subtitles and tracks, the watchdogs, and files with
   their own containers (`UpdateMediaControls`, `RestartMediaTimeline`).
6. In `NativeQueues`: a video thread that sleeps through a whole seek in a
   paused film keeps an old unit at the head, which `seek_still_wanted` does
   not look past (`src/iptv_native_backend.c:1808`); and the audio thread's
   late store to `audio_sync_pending`, which may undo that of a discontinuity
   made meanwhile (line 3046). `PausedSeekShows` starts when a unit of the new
   timeline heads the queue; nothing is said of the second.

Theorems: every invariant and action property that a run expects to hold is
proved; a module added by this plan brings its own, and liveness stays with
TLC.

Not planned: text and JSON parsing, byte-level container parsing, drawing and
focus, GPU presentation, sample arithmetic (sequential or device code, tested
directly by the repository), the earlier RmlUi menu (the same protocol with
fewer cases), and vendored code. Of the catalogue refresh, adding and removing
sources, On Demand, the guide, home rows and source checks are left out; their
downloads are stopped by the operations modelled here and do not touch the
state modelled here.
