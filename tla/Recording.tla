------------------------------ MODULE Recording ------------------------------
(***************************************************************************)
(* Recordings and reminders: the programme jobs, which survive a restart   *)
(* (ProgrammeJobs), the recorder's thread and its file on the USB drive    *)
(* (Recorder, opengl-ui/src/tv/recording.cpp), and the frame loop that     *)
(* starts and concludes them (opengl-ui/src/tv/model_recording.cpp).       *)
(* Every write of the job database may be refused, the app may be killed   *)
(* at any step, and a backup of the settings may be restored, which        *)
(* replaces the database by an older one (opengl-ui/src/tv/backup.cpp).    *)
(* One unit of time is longer than the second that lies between two polls. *)
(***************************************************************************)
EXTENDS Naturals, FiniteSets

CONSTANTS
  Programmes,   \* what can be asked for: [start, end, recording]
  MaxJobs,      \* bound on the jobs of one run
  MaxBackups,   \* bound on the backups of one run
  MaxBackedUp,  \* bound on the jobs a backup has
  LastBackup,   \* bound on the time backups are made
  MaxTime       \* bound on the clock

ASSUME RecordingAssumption ==
  /\ MaxJobs \in Nat /\ MaxBackups \in Nat /\ MaxBackedUp \in Nat
  /\ LastBackup \in Nat /\ MaxTime \in Nat
  /\ Programmes \subseteq [start : Nat, end : Nat, recording : BOOLEAN]
  /\ \A p \in Programmes : p.start < p.end

VARIABLES
  now,           \* platform::unix_time()
  locked,        \* parental controls are locked
  app,           \* whether the app runs, and whether it does a storage operation
  frame,         \* the frame loop: its place, and the due jobs it still has to handle
  jobs,          \* the table of jobs
  used,          \* ids given so far (AUTOINCREMENT: never again in this table)
  recorder,      \* class Recorder and its thread
  recordingJob,  \* recording_job_
  files,         \* of each job of the table, whether its recording is there under its name
  backups,       \* the tables that backups have, with the files of their jobs
  unwritten      \* ghost: jobs whose last write the database refused

vars == <<now, locked, app, frame, jobs, used, recorder, recordingJob, files, backups,
          unwritten>>

Job == 1 .. MaxJobs
NoJob == 0
Live == {"pending", "running"}              \* job.state < 2
Settled == {"completed", "failed", "removed"}
NoRow == [state |-> "unused", result |-> "none", start |-> 0, end |-> 0, recording |-> FALSE]
NoRecorder == [at |-> "none", job |-> NoJob, until |-> 0, stop |-> FALSE,
               got |-> FALSE, ok |-> FALSE]
Idle == [at |-> "frame", due |-> {}, time |-> 0]
\* A file's name has the second its recording began besides the job's id, so
\* that no two share one.  A partial file is not told from none.
Table == [jobs |-> jobs, used |-> used, files |-> files]
NoTable == [jobs |-> [j \in Job |-> NoRow], used |-> 0, files |-> [j \in Job |-> "none"]]

Active == recorder.at # "none"              \* Recorder::active
Done == recorder.at = "done"

Init ==
  /\ now = 0 /\ locked \in BOOLEAN
  /\ app = "open"
  /\ frame = Idle
  /\ jobs = [j \in Job |-> NoRow]
  /\ used = 0
  /\ recorder = NoRecorder
  /\ recordingJob = NoJob
  /\ files = [j \in Job |-> "none"]
  /\ backups = {NoTable}        \* a version 1 backup has no table
  /\ unwritten = {}

--------------------------------------------------------------------------------
\* ProgrammeJobs::finish, which the database may refuse.  Only the result that
\* is written for what was interrupted is told from the others.
Row(j, state, result) == [jobs EXCEPT ![j] = [@ EXCEPT !.state = state, !.result = result]]
Written(j, state, result) == jobs' = Row(j, state, result) /\ unwritten' = unwritten \ {j}
Write(j, state, result) ==
  \/ Written(j, state, result)
  \/ unwritten' = unwritten \cup {j} /\ UNCHANGED jobs

InFrame == app = "open" /\ frame.at = "frame"

(***************************************************************************)
(* schedule_programme: nothing that overlaps a recording which is pending  *)
(* or running is accepted.  An accepted job is polled for at once.  The    *)
(* same programme chosen again cancels its job (Cancel).                   *)
(***************************************************************************)
\* A check that only looks at what has not begun.
BadOverlaps(p) ==
  \E j \in Job : /\ jobs[j].state = "pending" /\ jobs[j].recording /\ p.recording
                 /\ jobs[j].start < p.end /\ p.start < jobs[j].end
Overlaps(p) ==
  \E j \in Job : /\ jobs[j].state \in Live /\ jobs[j].recording /\ p.recording
                 /\ jobs[j].start < p.end /\ p.start < jobs[j].end
Schedule ==
  /\ InFrame /\ ~locked /\ used < MaxJobs
  /\ \E p \in Programmes :
       /\ now < p.end /\ ~Overlaps(p)
       /\ jobs' = [jobs EXCEPT ![used + 1] =
                     [state |-> "pending", result |-> "none", start |-> p.start,
                      end |-> p.end, recording |-> p.recording]]
  /\ used' = used + 1
  /\ frame' = [frame EXCEPT !.at = "begin"]
  /\ UNCHANGED <<now, locked, app, recorder, recordingJob, files, backups, unwritten>>

\* cancel_programme_job: the recorder is told to stop, any other job removed.
\* A locked profile shows no jobs.
Cancel ==
  /\ InFrame /\ ~locked
  /\ \E j \in 1 .. used :
       /\ jobs[j].state # "removed"
       /\ IF recordingJob = j /\ Active
          THEN recorder' = [recorder EXCEPT !.stop = TRUE] /\ Write(j, "cancelled", "given")
          ELSE UNCHANGED recorder /\ Written(j, "removed", "none")
  /\ UNCHANGED <<now, locked, app, frame, used, recordingJob, files, backups>>

\* toggle_recording while one runs; otherwise it is schedule_programme.
Stop ==
  /\ InFrame /\ Active
  /\ recorder' = [recorder EXCEPT !.stop = TRUE]
  /\ UNCHANGED <<now, locked, app, frame, jobs, used, recordingJob, files, backups, unwritten>>

Lock ==
  /\ InFrame
  /\ locked' = ~locked
  /\ UNCHANGED <<now, app, frame, jobs, used, recorder, recordingJob, files, backups, unwritten>>

(***************************************************************************)
(* poll_programme_jobs, on every frame.  Begin: a locked profile stops the *)
(* recorder; a recorder that has ended is joined and its job gets its      *)
(* result; then the jobs that are due are taken in the order of their      *)
(* start, with the clock as it was.                                        *)
(***************************************************************************)
Concluded(ok) == Write(recordingJob, IF ok THEN "completed" ELSE "failed", "given")
Due == {j \in Job : jobs[j].state = "pending" /\ jobs[j].start <= now}
Begin ==
  /\ app = "open" /\ frame.at \in {"frame", "begin"}
  /\ IF Done
     THEN recorder' = NoRecorder /\ recordingJob' = NoJob /\ Concluded(recorder.ok)
     ELSE /\ recorder' = [recorder EXCEPT !.stop = @ \/ (locked /\ Active)]
          /\ UNCHANGED <<jobs, recordingJob, unwritten>>
  /\ frame' = IF Due = {} THEN Idle ELSE [at |-> "jobs", due |-> Due, time |-> now]
  /\ UNCHANGED <<now, locked, app, used, files, backups>>

Before(j, k) == jobs[j].start < jobs[k].start \/ (jobs[j].start = jobs[k].start /\ j <= k)
Allowed(j) == frame.time < jobs[j].end /\ ~locked

\* Missed, locked, or its source, channel or drive is gone.
Refuse(j) == Write(j, "failed", "given") /\ UNCHANGED <<recorder, recordingJob>>
Remind(j) ==
  /\ Allowed(j) /\ ~jobs[j].recording
  /\ Write(j, "completed", "given") /\ UNCHANGED <<recorder, recordingJob>>
Conflict(j) ==
  /\ Allowed(j) /\ jobs[j].recording /\ Active
  /\ Write(j, "failed", "given") /\ UNCHANGED <<recorder, recordingJob>>
(***************************************************************************)
(* The row says "running" before the recorder starts: a refused write      *)
(* leaves the job pending.  A recorder that cannot start fails the job,    *)
(* unless that second write is refused and the row goes on running.        *)
(***************************************************************************)
Record(j) ==
  /\ Allowed(j) /\ jobs[j].recording /\ ~Active
  /\ \/ /\ unwritten' = unwritten \cup {j}
        /\ UNCHANGED <<jobs, recorder, recordingJob>>
     \/ /\ Written(j, "running", "none")
        /\ recorder' = [NoRecorder EXCEPT !.at = "create", !.job = j, !.until = jobs[j].end]
        /\ recordingJob' = j
     \/ /\ jobs' = Row(j, "running", "none") /\ unwritten' = unwritten \cup {j}
        /\ UNCHANGED <<recorder, recordingJob>>

HandleJob ==
  /\ app = "open" /\ frame.at = "jobs"
  /\ \E j \in frame.due :
       /\ \A k \in frame.due : Before(j, k)
       /\ Refuse(j) \/ Remind(j) \/ Conflict(j) \/ Record(j)
       /\ frame' = IF frame.due = {j} THEN Idle ELSE [frame EXCEPT !.due = @ \ {j}]
  /\ UNCHANGED <<now, locked, app, used, files, backups>>

(***************************************************************************)
(* close_for_storage: the recorder is stopped and joined and its result    *)
(* kept before the files are given away.  ProgrammeJobs::open afterwards,  *)
(* and when the app starts again, says which jobs were interrupted.        *)
(***************************************************************************)
CloseForStorage ==
  /\ InFrame
  /\ recorder' = [recorder EXCEPT !.stop = Active]
  /\ frame' = [frame EXCEPT !.at = "joining"]
  /\ UNCHANGED <<now, locked, app, jobs, used, recordingJob, files, backups, unwritten>>

\* The storage is given away without a word about the recording.
BadKeepResult == UNCHANGED <<jobs, unwritten>>
KeepResult == IF recordingJob = NoJob THEN UNCHANGED <<jobs, unwritten>> ELSE Concluded(recorder.ok)
Joined ==
  /\ app = "open" /\ frame.at = "joining" /\ (Active => Done)
  /\ KeepResult
  /\ recorder' = NoRecorder /\ recordingJob' = NoJob
  /\ app' = "storage" /\ frame' = Idle
  /\ UNCHANGED <<now, locked, used, files, backups>>

\* What was cut short is to be done again.
BadInterrupted(rows) ==
  [j \in Job |-> IF rows[j].state = "running"
                 THEN [rows[j] EXCEPT !.state = "pending"] ELSE rows[j]]
Interrupted(rows) ==
  [j \in Job |-> IF rows[j].state = "running"
                 THEN [rows[j] EXCEPT !.state = "failed", !.result = "interrupted"] ELSE rows[j]]
Open ==
  /\ app \in {"storage", "closed"}
  /\ app' = "open" /\ jobs' = Interrupted(jobs) /\ unwritten' = {}
  /\ UNCHANGED <<now, locked, frame, used, recorder, recordingJob, files, backups>>

(***************************************************************************)
(* Two storage operations work on the table itself: backup_settings copies *)
(* it, and restore_settings replaces it by a copy, or removes it when the  *)
(* backup is of version 1.  Its rows and ids are then those of the copy;   *)
(* what was recorded since is the file of none of them.  A restore that is *)
(* cut short or fails is undone from its journal before the table is       *)
(* opened again.                                                           *)
(***************************************************************************)
Backup ==
  /\ app = "storage" 
  /\ Cardinality(backups) <= MaxBackups /\ used <= MaxBackedUp /\ now <= LastBackup
  /\ backups' = backups \cup {Table}
  /\ UNCHANGED <<now, locked, app, frame, jobs, used, recorder, recordingJob, files, unwritten>>

Restore ==
  /\ app = "storage"
  /\ \E table \in backups :
       /\ jobs' = Interrupted(table.jobs) /\ used' = table.used /\ files' = table.files
  /\ app' = "open" /\ unwritten' = {}
  /\ UNCHANGED <<now, locked, frame, recorder, recordingJob, backups>>

\* The app is closed or killed: its threads are gone, its files stay.
Die ==
  /\ app # "closed"
  /\ app' = "closed" /\ frame' = Idle
  /\ recorder' = NoRecorder /\ recordingJob' = NoJob
  /\ UNCHANGED <<now, locked, jobs, used, files, backups, unwritten>>

--------------------------------------------------------------------------------
(***************************************************************************)
(* Recorder::run.  The partial file is created; the stream is read until   *)
(* the recorder is told to stop or its time is up, the stream ends or      *)
(* fails, or the drive does.  A stream that ends early is a failure, one   *)
(* that was told to end may be one: it is asked before every read as well. *)
(***************************************************************************)
\* A recorder that never looks at the clock.
BadTold == recorder.stop
Told == recorder.stop \/ now >= recorder.until
Create ==
  /\ recorder.at = "create"
  /\ \E at \in {"stream", "done"} : recorder' = [recorder EXCEPT !.at = at]
  /\ UNCHANGED <<now, locked, app, frame, jobs, used, recordingJob, files, backups, unwritten>>

Receive ==
  /\ recorder.at = "stream" /\ ~recorder.got
  /\ recorder' = [recorder EXCEPT !.got = TRUE]
  /\ UNCHANGED <<now, locked, app, frame, jobs, used, recordingJob, files, backups, unwritten>>

StreamEnds ==
  /\ recorder.at = "stream"
  /\ \E ok \in BOOLEAN : (ok => Told) /\ recorder' = [recorder EXCEPT !.at = "close", !.ok = ok]
  /\ UNCHANGED <<now, locked, app, frame, jobs, used, recordingJob, files, backups, unwritten>>

\* Flushed, closed and renamed, each of which may fail; nothing is renamed that
\* was not received and written.
Close ==
  /\ recorder.at = "close"
  /\ \E written \in BOOLEAN :
       LET success == recorder.ok /\ recorder.got /\ written
       IN  /\ recorder' = [recorder EXCEPT !.at = "done", !.ok = success]
           /\ files' = IF success THEN [files EXCEPT ![recorder.job] = "whole"] ELSE files
  /\ UNCHANGED <<now, locked, app, frame, jobs, used, recordingJob, backups, unwritten>>

Tick ==
  /\ now < MaxTime
  /\ now' = now + 1
  /\ UNCHANGED <<locked, app, frame, jobs, used, recorder, recordingJob, files, backups, unwritten>>

User == Schedule \/ Cancel \/ Stop \/ Lock \/ CloseForStorage \/ Backup \/ Restore \/ Open \/ Die
Poll == Begin \/ HandleJob \/ Joined
Thread == Create \/ Receive \/ StreamEnds \/ Close
Next == User \/ Poll \/ Thread \/ Tick

(***************************************************************************)
(* The frame loop polls on every frame, the recorder's thread runs and     *)
(* looks at the clock before every read, each of which times out; time     *)
(* passes.  A stream that goes on is never made to end.                    *)
(***************************************************************************)
Fairness ==
  /\ WF_vars(Poll) /\ WF_vars(Tick)
  /\ WF_vars(Create \/ Close \/ (Told /\ StreamEnds))
Spec == Init /\ [][Next]_vars /\ Fairness

--------------------------------------------------------------------------------
Results == {"none", "given", "interrupted"}
States == Live \cup Settled \cup {"unused", "cancelled"}
JobRow == [state : States, result : Results, start : Nat, end : Nat, recording : BOOLEAN]
FrameState ==
  [at : {"frame", "begin", "jobs", "joining"}, due : SUBSET Job, time : 0 .. MaxTime]
RecorderState ==
  [at : {"none", "create", "stream", "close", "done"}, job : Job \cup {NoJob}, until : Nat,
   stop : BOOLEAN, got : BOOLEAN, ok : BOOLEAN]
Tables == [jobs : [Job -> JobRow], used : 0 .. MaxJobs,
           files : [Job -> {"none", "whole"}]]
TypeOK ==
  /\ now \in 0 .. MaxTime /\ locked \in BOOLEAN
  /\ app \in {"open", "storage", "closed"}
  /\ frame \in FrameState
  /\ jobs \in [Job -> JobRow]
  /\ used \in 0 .. MaxJobs
  /\ recorder \in RecorderState
  /\ recordingJob \in Job \cup {NoJob}
  /\ files \in [Job -> {"none", "whole"}]
  /\ backups \subseteq Tables
  /\ unwritten \subseteq Job

(***************************************************************************)
(* What the list of jobs says is what the recorder has done: a job that is *)
(* called running is the one the recorder has, unless the database refused *)
(* its row; a recording called completed is there under its final name;    *)
(* one that is there is not called failed, unless the app was closed       *)
(* before its end was noted; and a recording that goes on is in the way of *)
(* no other that was accepted, which would have to be refused as a         *)
(* conflict.  A restore brings back the jobs of a backup, of which all     *)
(* this is so again; but such a job knows nothing of a file that was       *)
(* recorded for it after the backup, and may end as missed beside it       *)
(* (ProgrammeJobs::save, poll_programme_jobs, close_for_storage,           *)
(* Recorder::run, restore_settings).                                       *)
(***************************************************************************)
RunningIsRecorded ==
  \A j \in Job : app # "closed" /\ jobs[j].state = "running" /\ j \notin unwritten =>
                   Active /\ recordingJob = j
RecorderHasItsJob ==
  /\ Active <=> recordingJob # NoJob
  /\ Active => recordingJob = recorder.job /\ jobs[recordingJob].state \in {"running", "cancelled"}
SavedIsThere ==
  \A j \in Job : /\ jobs[j].state = "completed" /\ jobs[j].recording => files[j] = "whole"
                 /\ files[j] = "whole" /\ jobs[j].state = "failed" =>
                      jobs[j].result = "interrupted"
NoneInTheWay ==
  Active /\ ~recorder.stop =>
    \A j \in Job \ {recorder.job} :
      jobs[j].state = "pending" /\ jobs[j].recording =>
        jobs[j].start >= recorder.until \/ jobs[j].end <= jobs[recorder.job].start
JobsTellTheTruth == RunningIsRecorded /\ RecorderHasItsJob /\ SavedIsThere /\ NoneInTheWay

(***************************************************************************)
(* The jobs as JobLife has them, read from the table, the recorder and the *)
(* drive.  A row that says "running" without a recorder is over.           *)
(***************************************************************************)
Records(j) == Active /\ ~Done /\ recorder.job = j
LifeIn(table, j, records) ==
  IF table.jobs[j].state = "unused" THEN "none"
  ELSE IF table.files[j] = "whole" THEN "recorded"
  ELSE IF records THEN "recording"
  ELSE IF table.jobs[j].state = "pending" THEN "waiting" ELSE "over"
Life(j) == LifeIn(Table, j, Records(j))
Lives == [j \in Job |-> Life(j)]
LivesIn(table) == [j \in Job |-> LifeIn(table, j, FALSE)]
Promised == INSTANCE JobLife WITH life <- Lives, copies <- {LivesIn(table) : table \in backups}

\* Through refused writes, a full drive, storage operations and restarts, a job
\* is recorded at most once and alone, and what is on the drive stays done,
\* until a restore puts all jobs back to where they were at a backup
\* (poll_programme_jobs, ProgrammeJobs::open, Recorder::run, restore_settings).
ImplementsJobs == Promised!Spec

(***************************************************************************)
(* Every job gets a result: a pending one is started, shown or refused     *)
(* once it is due, a running or stopping one ends by its time, unless the  *)
(* app is closed or the database refuses (poll_programme_jobs).            *)
(***************************************************************************)
Unsettled(j) == jobs[j].state \in Live \/ (jobs[j].state = "cancelled" /\ recordingJob = j)
JobsSettle ==
  \A j \in Job : Unsettled(j) /\ app = "open" ~>
                   jobs[j].state \in Settled \/ app # "open" \/ j \in unwritten
=============================================================================
