-------------------------- MODULE Recording_proofs --------------------------
(***************************************************************************)
(* Proofs about Recording: its types, that the list of jobs says what the  *)
(* recorder has done, and that it implements JobLife.                      *)
(***************************************************************************)
EXTENDS Recording, TLAPS

(* An app that does not run its frame loop has no recorder, and only a     *)
(* frame that handles jobs has some left, all of which still wait.         *)
Framed ==
  /\ app # "open" => recorder = NoRecorder /\ recordingJob = NoJob /\ frame = Idle
  /\ frame.at # "jobs" => frame.due = {}
  /\ \A j \in frame.due : jobs[j].state = "pending"

(* A job that has not begun has no file, an id not given out no job.       *)
NotBegun ==
  \A j \in Job : /\ j > used => jobs[j].state = "unused"
                 /\ jobs[j].state \in {"unused", "pending"} => files[j] = "none"

(* What the recorder knows of its job.  Its file has the final name when,  *)
(* and only when, it has ended well.                                       *)
Owner ==
  Active => /\ jobs[recordingJob].recording
            /\ recorder.until = jobs[recordingJob].end
            /\ recorder.stop \/ jobs[recordingJob].state = "running"
            /\ recorder.at # "done" => files[recordingJob] # "whole"
            /\ recorder.at \in {"create", "stream"} => recorder.ok = FALSE
            /\ recorder.at = "done" => (files[recordingJob] = "whole" <=> recorder.ok = TRUE)

(* Recordings that wait or run do not overlap.                             *)
Apart(r, s) == r.start >= s.end \/ s.start >= r.end
Disjoint ==
  \A j, k \in Job :
    /\ j # k /\ jobs[j].recording /\ jobs[k].recording
    /\ jobs[j].state \in Live /\ jobs[k].state \in Live
    => Apart(jobs[j], jobs[k])

Truth == RunningIsRecorded /\ RecorderHasItsJob /\ SavedIsThere
RecInv == TypeOK /\ Framed /\ NotBegun /\ Owner /\ Disjoint /\ Truth

(* An id which was given out is some job's for good.                       *)
Given == \A j \in Job : j <= used => jobs[j].state # "unused"

(* What a restore relies on: the table of a backup is as the app's own was *)
(* when the backup was made.                                               *)
Sound(table) ==
  /\ \A j \in Job :
       /\ j > table.used <=> table.jobs[j].state = "unused"
       /\ table.jobs[j].state \in {"unused", "pending"} => table.files[j] = "none"
       /\ table.jobs[j].state = "completed" /\ table.jobs[j].recording =>
            table.files[j] = "whole"
       /\ table.files[j] = "whole" /\ table.jobs[j].state = "failed" =>
            table.jobs[j].result = "interrupted"
  /\ \A j, k \in Job :
       /\ j # k /\ table.jobs[j].recording /\ table.jobs[k].recording
       /\ table.jobs[j].state \in Live /\ table.jobs[k].state \in Live
       => Apart(table.jobs[j], table.jobs[k])
Kept == \A table \in backups : Sound(table)

--------------------------------------------------------------------------------
(* What ProgrammeJobs::finish makes of a row.                              *)
LEMMA RowIs ==
  ASSUME TypeOK, NEW j \in Job, NEW state \in States, NEW result \in Results
  PROVE  /\ Row(j, state, result) \in [Job -> JobRow]
         /\ Row(j, state, result)[j].state = state
         /\ Row(j, state, result)[j].result = result
         /\ \A k \in Job :
              /\ Row(j, state, result)[k].start = jobs[k].start
              /\ Row(j, state, result)[k].end = jobs[k].end
              /\ Row(j, state, result)[k].recording = jobs[k].recording
              /\ k # j => Row(j, state, result)[k] = jobs[k]
<1> DEFINE r == [jobs[j] EXCEPT !.state = state, !.result = result]
<1>1. jobs \in [Job -> JobRow] /\ jobs[j] \in JobRow
  BY DEF TypeOK
<1>2. /\ r \in JobRow /\ r.state = state /\ r.result = result
      /\ r.start = jobs[j].start /\ r.end = jobs[j].end /\ r.recording = jobs[j].recording
  BY <1>1 DEF JobRow
<1>3. Row(j, state, result) = [jobs EXCEPT ![j] = r]
  BY DEF Row
<1> HIDE DEF r
<1>4. Row(j, state, result) \in [Job -> JobRow]
  BY <1>1, <1>2, <1>3
<1>5. \A k \in Job : Row(j, state, result)[k] = IF k = j THEN r ELSE jobs[k]
  BY <1>1, <1>3
<1> QED
  BY <1>2, <1>4, <1>5

(* Recordings stay apart while their times stay and none becomes live.     *)
LEMMA StayApart ==
  ASSUME Disjoint,
         \A k \in Job : /\ jobs'[k].start = jobs[k].start
                        /\ jobs'[k].end = jobs[k].end
                        /\ jobs'[k].recording = jobs[k].recording
                        /\ jobs'[k].state \in Live => jobs[k].state \in Live
  PROVE  Disjoint'
<1> SUFFICES ASSUME NEW j \in Job, NEW k \in Job,
                    j # k, jobs'[j].recording, jobs'[k].recording,
                    jobs'[j].state \in Live, jobs'[k].state \in Live
             PROVE  Apart(jobs'[j], jobs'[k])
  BY DEF Disjoint, Job, Live
<1>1. Apart(jobs[j], jobs[k])
  BY DEF Disjoint
<1> QED
  BY <1>1 DEF Apart

(* 0 is no job's id, and is what recording_job_ holds with no recorder.    *)
LEMMA NoJobIsNone == NoJob \notin Job
BY RecordingAssumption DEF NoJob, Job

LEMMA NoRecorderTyped == NoRecorder \in RecorderState
BY DEF NoRecorder, RecorderState

LEMMA IdleTyped ==
  /\ Idle \in FrameState
  /\ Idle.at = "frame" /\ Idle.due = {}
<1>1. 0 \in 0 .. MaxTime
  BY RecordingAssumption
<1> QED
  BY <1>1 DEF Idle, FrameState

LEMMA InitHolds == Init => RecInv
<1> SUFFICES ASSUME Init PROVE RecInv
  OBVIOUS
<1> USE DEF Init
<1>1. TypeOK
  <2>1. 0 \in 0 .. MaxTime /\ 0 \in 0 .. MaxJobs /\ 0 \in Nat
    BY RecordingAssumption
  <2>2. NoRow \in JobRow
    BY <2>1 DEF NoRow, JobRow, States, Results, Live, Settled
  <2>3. NoTable \in Tables
    BY <2>1, <2>2 DEF NoTable, Tables
  <2> QED
    BY <2>1, <2>2, <2>3, NoRecorderTyped, IdleTyped DEF TypeOK
<1>2. \A j \in Job : jobs[j].state = "unused" /\ files[j] = "none" /\ jobs[j].recording = FALSE
  BY DEF NoRow
<1>3. ~Active /\ recordingJob = NoJob
  BY DEF Active, NoRecorder
<1>4. Framed /\ NotBegun /\ Owner
  BY <1>2, <1>3, IdleTyped DEF Framed, NotBegun, Owner
<1>5. Disjoint
  BY <1>2 DEF Disjoint
<1>6. Truth
  BY <1>2, <1>3 DEF Truth, RunningIsRecorded, RecorderHasItsJob, SavedIsThere
<1> QED
  BY <1>1, <1>4, <1>5, <1>6 DEF RecInv

LEMMA StopStep == ASSUME RecInv, Stop PROVE RecInv'
<1> USE DEF RecInv, Stop
<1>0. /\ recorder' \in RecorderState /\ recorder'.at = recorder.at /\ recorder'.job = recorder.job
      /\ recorder'.until = recorder.until /\ recorder'.stop = TRUE /\ recorder'.ok = recorder.ok
  BY DEF TypeOK, RecorderState
<1>1. TypeOK'
  BY <1>0 DEF TypeOK
<1>2. Framed'
  BY <1>0 DEF Framed, InFrame
<1>3. NotBegun'
  BY <1>0 DEF NotBegun
<1>4. Owner'
  BY <1>0 DEF Owner, Active, TypeOK, Truth, RecorderHasItsJob
<1>5. Disjoint'
  BY <1>0 DEF Disjoint
<1>6. Truth'
  BY <1>0 DEF Truth, RunningIsRecorded, RecorderHasItsJob, SavedIsThere, Active, Owner, NotBegun, TypeOK, Framed
<1> QED
  BY <1>1, <1>2, <1>3, <1>4, <1>5, <1>6

LEMMA LockStep == ASSUME RecInv, Lock PROVE RecInv'
<1> USE DEF RecInv, Lock
<1>1. TypeOK'
  BY DEF TypeOK
<1>2. Framed'
  BY DEF Framed, InFrame
<1>3. NotBegun'
  BY DEF NotBegun
<1>4. Owner'
  BY DEF Owner, Active, TypeOK, Truth, RecorderHasItsJob
<1>5. Disjoint'
  BY DEF Disjoint
<1>6. Truth'
  BY DEF Truth, RunningIsRecorded, RecorderHasItsJob, SavedIsThere, Active, Owner, NotBegun, TypeOK, Framed
<1> QED
  BY <1>1, <1>2, <1>3, <1>4, <1>5, <1>6

LEMMA TickStep == ASSUME RecInv, Tick PROVE RecInv'
<1> USE DEF RecInv, Tick
<1>0. now' \in 0 .. MaxTime
  BY RecordingAssumption DEF TypeOK
<1>1. TypeOK'
  BY <1>0 DEF TypeOK
<1>2. Framed'
  BY <1>0 DEF Framed, InFrame
<1>3. NotBegun'
  BY <1>0 DEF NotBegun
<1>4. Owner'
  BY <1>0 DEF Owner, Active, TypeOK, Truth, RecorderHasItsJob
<1>5. Disjoint'
  BY <1>0 DEF Disjoint
<1>6. Truth'
  BY <1>0 DEF Truth, RunningIsRecorded, RecorderHasItsJob, SavedIsThere, Active, Owner, NotBegun, TypeOK, Framed
<1> QED
  BY <1>1, <1>2, <1>3, <1>4, <1>5, <1>6

(* The recorder's thread *)

LEMMA ReceiveStep == ASSUME RecInv, Receive PROVE RecInv'
<1> USE DEF RecInv, Receive
<1>a. /\ recorder' \in RecorderState /\ recorder'.job = recorder.job /\ recorder'.until = recorder.until
      /\ recorder'.at = recorder.at /\ recorder'.stop = recorder.stop /\ recorder'.ok = recorder.ok
  BY DEF TypeOK, RecorderState
<1>1. TypeOK'
  BY <1>a DEF TypeOK
<1>2. Framed'
  <2>1. app = "open"
    BY DEF Framed, NoRecorder
  <2> QED
    BY <2>1 DEF Framed
<1>3. NotBegun'
  BY <1>a DEF NotBegun
<1>4. Owner'
  BY <1>a DEF Owner, Active, Truth, RecorderHasItsJob
<1>5. Disjoint'
  BY <1>a DEF Disjoint
<1>6. Truth'
  BY <1>a DEF Truth, RunningIsRecorded, RecorderHasItsJob, SavedIsThere, Active, Owner, NotBegun
<1> QED
  BY <1>1, <1>2, <1>3, <1>4, <1>5, <1>6

LEMMA CreateStep == ASSUME RecInv, Create PROVE RecInv'
<1> USE DEF RecInv, Create
<1>a. /\ recorder' \in RecorderState /\ recorder'.job = recorder.job
      /\ recorder'.until = recorder.until /\ recorder'.stop = recorder.stop
      /\ recorder'.ok = recorder.ok /\ recorder'.at \in {"stream", "done"}
  BY DEF TypeOK, RecorderState
<1>b. /\ Active /\ recordingJob = recorder.job /\ recordingJob \in Job
      /\ jobs[recordingJob].state \in {"running", "cancelled"}
  BY NoJobIsNone DEF Active, Truth, RecorderHasItsJob, TypeOK
<1>c. /\ files' \in [Job -> {"none", "whole"}]
      /\ files'[recordingJob] # "whole"
      /\ \A j \in Job \ {recordingJob} : files'[j] = files[j]
  BY <1>b DEF TypeOK, Owner
<1>1. TypeOK'
  BY <1>a, <1>b, <1>c DEF TypeOK
<1>2. Framed'
  <2>1. app = "open"
    BY DEF Framed, NoRecorder
  <2> QED
    BY <2>1 DEF Framed
<1>3. NotBegun'
  BY <1>a, <1>b, <1>c DEF NotBegun
<1>4. Owner'
  BY <1>a, <1>b, <1>c DEF Owner, Active, Truth, RecorderHasItsJob
<1>5. Disjoint'
  BY <1>a, <1>b, <1>c DEF Disjoint
<1>6. Truth'
  BY <1>a, <1>b, <1>c DEF Truth, RunningIsRecorded, RecorderHasItsJob, SavedIsThere, Active, Owner, NotBegun
<1> QED
  BY <1>1, <1>2, <1>3, <1>4, <1>5, <1>6

LEMMA StreamEndsStep == ASSUME RecInv, StreamEnds PROVE RecInv'
<1> USE DEF RecInv, StreamEnds
<1>a. /\ recorder' \in RecorderState /\ recorder'.job = recorder.job
      /\ recorder'.until = recorder.until /\ recorder'.stop = recorder.stop
      /\ recorder'.at = "close"
  BY DEF TypeOK, RecorderState
<1>b. /\ Active /\ recordingJob = recorder.job /\ recordingJob \in Job
      /\ jobs[recordingJob].state \in {"running", "cancelled"}
  BY NoJobIsNone DEF Active, Truth, RecorderHasItsJob, TypeOK
<1>1. TypeOK'
  BY <1>a, <1>b DEF TypeOK
<1>2. Framed'
  <2>1. app = "open"
    BY DEF Framed, NoRecorder
  <2> QED
    BY <2>1 DEF Framed
<1>3. NotBegun'
  BY <1>a, <1>b DEF NotBegun
<1>4. Owner'
  BY <1>a, <1>b DEF Owner, Active, Truth, RecorderHasItsJob
<1>5. Disjoint'
  BY <1>a, <1>b DEF Disjoint
<1>6. Truth'
  BY <1>a, <1>b DEF Truth, RunningIsRecorded, RecorderHasItsJob, SavedIsThere, Active, Owner, NotBegun
<1> QED
  BY <1>1, <1>2, <1>3, <1>4, <1>5, <1>6

LEMMA CloseStep == ASSUME RecInv, Close PROVE RecInv'
<1> USE DEF RecInv, Close
<1>b. /\ Active /\ recordingJob = recorder.job /\ recordingJob \in Job
      /\ jobs[recordingJob].state \in {"running", "cancelled"}
  BY NoJobIsNone DEF Active, Truth, RecorderHasItsJob, TypeOK
<1>a. PICK written \in BOOLEAN :
        LET success == recorder.ok /\ recorder.got /\ written
        IN  /\ recorder' = [recorder EXCEPT !.at = "done", !.ok = success]
            /\ files' = IF success THEN [files EXCEPT ![recorder.job] = "whole"] ELSE files
  OBVIOUS
<1> DEFINE success == recorder.ok /\ recorder.got /\ written
<1>c. success \in BOOLEAN
  OBVIOUS
<1>d. /\ recorder' = [recorder EXCEPT !.at = "done", !.ok = success]
      /\ files' = IF success THEN [files EXCEPT ![recorder.job] = "whole"] ELSE files
  BY <1>a
<1> HIDE DEF success
<1>e. /\ recorder' \in RecorderState /\ recorder'.job = recorder.job
      /\ recorder'.until = recorder.until /\ recorder'.stop = recorder.stop
      /\ recorder'.ok = success /\ recorder'.at = "done"
  BY <1>c, <1>d DEF TypeOK, RecorderState
<1>f. /\ files' \in [Job -> {"none", "whole"}]
      /\ files'[recordingJob] = "whole" <=> success = TRUE
      /\ \A j \in Job \ {recordingJob} : files'[j] = files[j]
  BY <1>b, <1>c, <1>d DEF TypeOK, Owner
<1>1. TypeOK'
  BY <1>b, <1>c, <1>e, <1>f DEF TypeOK
<1>2. Framed'
  <2>1. app = "open"
    BY DEF Framed, NoRecorder
  <2> QED
    BY <2>1 DEF Framed
<1>3. NotBegun'
  BY <1>b, <1>c, <1>e, <1>f DEF NotBegun
<1>4. Owner'
  BY <1>b, <1>c, <1>e, <1>f DEF Owner, Active, Truth, RecorderHasItsJob
<1>5. Disjoint'
  BY <1>b, <1>c, <1>e, <1>f DEF Disjoint
<1>6. Truth'
  BY <1>b, <1>c, <1>e, <1>f DEF Truth, RunningIsRecorded, RecorderHasItsJob, SavedIsThere, Active, Owner, NotBegun
<1> QED
  BY <1>1, <1>2, <1>3, <1>4, <1>5, <1>6

(* The frame loop and the user *)

LEMMA CloseForStorageStep == ASSUME RecInv, CloseForStorage PROVE RecInv'
<1> USE DEF RecInv, CloseForStorage
<1>a. /\ recorder' \in RecorderState /\ recorder'.job = recorder.job /\ recorder'.until = recorder.until
      /\ recorder'.at = recorder.at /\ recorder'.stop = Active /\ recorder'.ok = recorder.ok
  BY DEF TypeOK, RecorderState, Active
<1>b. frame' \in FrameState /\ frame'.at = "joining" /\ frame'.due = frame.due
  BY DEF TypeOK, FrameState
<1>1. TypeOK'
  BY <1>a, <1>b DEF TypeOK
<1>2. Framed'
  BY <1>a, <1>b DEF Framed, InFrame
<1>3. NotBegun'
  BY <1>a, <1>b DEF NotBegun
<1>4. Owner'
  BY <1>a, <1>b DEF Owner, Active, Truth, RecorderHasItsJob
<1>5. Disjoint'
  BY <1>a, <1>b DEF Disjoint
<1>6. Truth'
  BY <1>a, <1>b DEF Truth, RunningIsRecorded, RecorderHasItsJob, SavedIsThere, Active, Owner, NotBegun
<1> QED
  BY <1>1, <1>2, <1>3, <1>4, <1>5, <1>6

LEMMA DieStep == ASSUME RecInv, Die PROVE RecInv'
<1> USE DEF RecInv, Die
<1>a. /\ recorder' \in RecorderState /\ ~Active' /\ recordingJob' = NoJob
      /\ frame' \in FrameState /\ frame'.at = "frame" /\ frame'.due = {}
  BY NoRecorderTyped, IdleTyped DEF Active, NoRecorder
<1>1. TypeOK'
  BY <1>a DEF TypeOK
<1>2. Framed'
  BY <1>a DEF Framed, InFrame
<1>3. NotBegun'
  BY <1>a DEF NotBegun
<1>4. Owner'
  BY <1>a DEF Owner, Active, Truth, RecorderHasItsJob
<1>5. Disjoint'
  BY <1>a DEF Disjoint
<1>6. Truth'
  BY <1>a DEF Truth, RunningIsRecorded, RecorderHasItsJob, SavedIsThere, Active, Owner, NotBegun
<1> QED
  BY <1>1, <1>2, <1>3, <1>4, <1>5, <1>6

(* ProgrammeJobs::open fails what was running and keeps the rest.          *)
LEMMA InterruptedRows ==
  ASSUME NEW rows \in [Job -> JobRow]
  PROVE  /\ Interrupted(rows) \in [Job -> JobRow]
         /\ \A j \in Job :
              LET row == Interrupted(rows)[j]
              IN  /\ row.start = rows[j].start /\ row.end = rows[j].end
                  /\ row.recording = rows[j].recording
                  /\ rows[j].state # "running" => row = rows[j]
                  /\ rows[j].state = "running" =>
                       row.state = "failed" /\ row.result = "interrupted"
<1>1. ASSUME NEW j \in Job
      PROVE  LET row == Interrupted(rows)[j]
             IN  /\ row \in JobRow /\ row.start = rows[j].start /\ row.end = rows[j].end
                 /\ row.recording = rows[j].recording
                 /\ rows[j].state # "running" => row = rows[j]
                 /\ rows[j].state = "running" =>
                      row.state = "failed" /\ row.result = "interrupted"
  <2> DEFINE r == [rows[j] EXCEPT !.state = "failed", !.result = "interrupted"]
  <2>1. rows[j] \in JobRow
    OBVIOUS
  <2>2. /\ r \in JobRow /\ r.state = "failed" /\ r.result = "interrupted"
        /\ r.start = rows[j].start /\ r.end = rows[j].end /\ r.recording = rows[j].recording
    BY <2>1 DEF JobRow, States, Results, Settled
  <2> HIDE DEF r
  <2>3. Interrupted(rows)[j] = IF rows[j].state = "running" THEN r ELSE rows[j]
    BY Zenon DEF Interrupted, r
  <2> QED
    BY <2>1, <2>2, <2>3
<1>2. Interrupted(rows) \in [Job -> JobRow]
  <2>1. \A j \in Job : Interrupted(rows)[j] \in JobRow
    BY <1>1
  <2> QED
    BY <2>1, Zenon DEF Interrupted
<1> QED
  BY <1>1, <1>2

LEMMA OpenRows ==
  ASSUME RecInv, Open
  PROVE  /\ jobs' \in [Job -> JobRow]
         /\ \A j \in Job :
              /\ jobs'[j].start = jobs[j].start /\ jobs'[j].end = jobs[j].end
              /\ jobs'[j].recording = jobs[j].recording
              /\ jobs[j].state # "running" => jobs'[j] = jobs[j]
              /\ jobs[j].state = "running" =>
                   jobs'[j].state = "failed" /\ jobs'[j].result = "interrupted"
<1>1. jobs \in [Job -> JobRow] /\ jobs' = Interrupted(jobs)
  BY DEF RecInv, TypeOK, Open
<1> QED
  BY <1>1, InterruptedRows

LEMMA OpenStep == ASSUME RecInv, Open PROVE RecInv'
<1>a. \A j \in Job :
        /\ jobs'[j].start = jobs[j].start /\ jobs'[j].end = jobs[j].end
        /\ jobs'[j].recording = jobs[j].recording
        /\ jobs[j].state # "running" => jobs'[j] = jobs[j]
        /\ jobs[j].state = "running" => jobs'[j].state = "failed" /\ jobs'[j].result = "interrupted"
  BY OpenRows
<1>b. jobs' \in [Job -> JobRow]
  BY OpenRows
<1> USE DEF RecInv, Open
<1>c. recorder = NoRecorder /\ recordingJob = NoJob /\ ~Active
  BY DEF Framed, Active, NoRecorder
<1>d. frame = Idle
  BY DEF Framed
<1>1. TypeOK'
  BY <1>a, <1>b, <1>c DEF TypeOK
<1>2. Framed'
  BY <1>a, <1>c, <1>d, IdleTyped DEF Framed
<1>3. NotBegun'
  BY <1>a, <1>b, <1>c DEF NotBegun
<1>4. Owner'
  BY <1>a, <1>b, <1>c DEF Owner, Active, Truth, RecorderHasItsJob
<1>5. Disjoint'
  BY <1>a, StayApart DEF Live
<1>6. Truth'
  BY <1>a, <1>b, <1>c DEF Truth, RunningIsRecorded, RecorderHasItsJob, SavedIsThere, Active, Owner, NotBegun
<1> QED
  BY <1>1, <1>2, <1>3, <1>4, <1>5, <1>6

(* A backup keeps a table that is sound, and restoring it finds it so.     *)
LEMMA BackupStep == ASSUME RecInv, Backup PROVE RecInv'
<1> USE DEF RecInv, Backup
<1>1. TypeOK'
  <2>1. Table \in Tables
    BY DEF Table, Tables, TypeOK
  <2> QED
    BY <2>1 DEF TypeOK
<1>2. Framed' /\ NotBegun' /\ Disjoint'
  BY DEF Framed, NotBegun, Disjoint
<1>3. Owner'
  BY DEF Owner, Active
<1>4. Truth'
  BY DEF Truth, RunningIsRecorded, RecorderHasItsJob, SavedIsThere, Active
<1> QED
  BY <1>1, <1>2, <1>3, <1>4

LEMMA RestoreRows ==
  ASSUME RecInv, Kept, NEW table \in backups,
         jobs' = Interrupted(table.jobs), used' = table.used, files' = table.files
  PROVE  /\ jobs' \in [Job -> JobRow] /\ used' \in 0 .. MaxJobs
         /\ files' \in [Job -> {"none", "whole"}]
         /\ NotBegun' /\ Disjoint' /\ SavedIsThere' /\ Given'
         /\ \A j \in Job : jobs'[j].state # "running"
<1>1. /\ table.jobs \in [Job -> JobRow] /\ table.used \in 0 .. MaxJobs
      /\ table.files \in [Job -> {"none", "whole"}]
  BY DEF RecInv, TypeOK, Tables
<1>2. Sound(table)
  BY DEF Kept
<1>3. /\ jobs' \in [Job -> JobRow]
      /\ \A j \in Job :
           /\ jobs'[j].start = table.jobs[j].start /\ jobs'[j].end = table.jobs[j].end
           /\ jobs'[j].recording = table.jobs[j].recording
           /\ table.jobs[j].state # "running" => jobs'[j] = table.jobs[j]
           /\ table.jobs[j].state = "running" =>
                jobs'[j].state = "failed" /\ jobs'[j].result = "interrupted"
  BY <1>1, InterruptedRows
<1>4. NotBegun'
  BY <1>2, <1>3 DEF NotBegun, Sound
<1>5. Disjoint'
  <2> SUFFICES ASSUME NEW j \in Job, NEW k \in Job,
                      j # k, jobs'[j].recording, jobs'[k].recording,
                      jobs'[j].state \in Live, jobs'[k].state \in Live
               PROVE  Apart(jobs'[j], jobs'[k])
    BY DEF Disjoint, Job, Live
  <2>1. jobs'[j] = table.jobs[j] /\ jobs'[k] = table.jobs[k]
    BY <1>3 DEF Live
  <2> QED
    BY <1>2, <2>1 DEF Sound
<1>6. SavedIsThere'
  BY <1>2, <1>3 DEF SavedIsThere, Sound
<1>7. Given'
  <2> SUFFICES ASSUME NEW j \in Job, j <= table.used
               PROVE  jobs'[j].state # "unused"
    BY DEF Given, Job
  <2>1. ~(j > table.used)
    BY <1>1 DEF Job
  <2> QED
    BY <1>2, <1>3, <2>1 DEF Sound
<1> QED
  BY <1>1, <1>3, <1>4, <1>5, <1>6, <1>7

LEMMA RestoreStep == ASSUME RecInv, Kept, Restore PROVE RecInv' /\ Given'
<1>1. PICK table \in backups :
        jobs' = Interrupted(table.jobs) /\ used' = table.used /\ files' = table.files
  BY DEF Restore
<1>2. /\ jobs' \in [Job -> JobRow] /\ used' \in 0 .. MaxJobs
      /\ files' \in [Job -> {"none", "whole"}]
      /\ NotBegun' /\ Disjoint' /\ SavedIsThere' /\ Given'
      /\ \A j \in Job : jobs'[j].state # "running"
  BY <1>1, RestoreRows
<1>3. /\ app = "storage" /\ app' = "open" /\ unwritten' = {}
      /\ UNCHANGED <<now, locked, frame, recorder, recordingJob, backups>>
  BY DEF Restore
<1>4. recorder = NoRecorder /\ recordingJob = NoJob /\ frame = Idle /\ ~Active'
  BY <1>3 DEF RecInv, Framed, Active, NoRecorder
<1>5. TypeOK'
  BY <1>2, <1>3 DEF RecInv, TypeOK
<1>6. Framed'
  BY <1>3, <1>4, IdleTyped DEF Framed
<1>7. Owner'
  BY <1>4 DEF Owner
<1>8. Truth'
  BY <1>2, <1>3, <1>4 DEF Truth, RunningIsRecorded, RecorderHasItsJob
<1> QED
  BY <1>2, <1>5, <1>6, <1>7, <1>8 DEF RecInv

LEMMA NotBoth ==
  ASSUME NEW a \in Nat, NEW b \in Nat, NEW c \in Nat, NEW d \in Nat, ~(a < b /\ c < d)
  PROVE  a >= b \/ c >= d
OBVIOUS

LEMMA ScheduleStep == ASSUME RecInv, Schedule PROVE RecInv'
<1> USE DEF RecInv
<1> DEFINE n == used + 1
<1>1. /\ InFrame /\ n \in Job /\ n > used /\ n \in 0 .. MaxJobs
      /\ \A j \in Job : j > n => j > used
  <2>1. used \in 0 .. MaxJobs /\ used < MaxJobs /\ InFrame
    BY DEF Schedule, TypeOK
  <2> QED
    BY <2>1, RecordingAssumption DEF Job
<1>2. PICK p \in Programmes :
        /\ ~Overlaps(p)
        /\ jobs' = [jobs EXCEPT ![n] = [state |-> "pending", result |-> "none", start |-> p.start,
                                       end |-> p.end, recording |-> p.recording]]
  BY DEF Schedule
<1>3. used' = n /\ frame' = [frame EXCEPT !.at = "begin"]
      /\ UNCHANGED <<now, locked, app, recorder, recordingJob, files, backups, unwritten>>
  BY DEF Schedule
<1> HIDE DEF n
<1> DEFINE row == [state |-> "pending", result |-> "none", start |-> p.start,
                   end |-> p.end, recording |-> p.recording]
<1>4. p.start \in Nat /\ p.end \in Nat /\ p.recording \in BOOLEAN
  BY RecordingAssumption
<1>5. row \in JobRow /\ row.state = "pending" /\ row.start = p.start /\ row.end = p.end
      /\ row.recording = p.recording
  BY <1>4 DEF JobRow, States, Results, Live
<1>6. jobs' = [jobs EXCEPT ![n] = row]
  BY <1>2
<1> HIDE DEF row
<1>7. /\ jobs' \in [Job -> JobRow] /\ jobs'[n] = row
      /\ \A j \in Job : j # n => jobs'[j] = jobs[j]
  BY <1>1, <1>5, <1>6 DEF TypeOK
<1>8. jobs[n].state = "unused" /\ files[n] = "none"
  BY <1>1 DEF NotBegun
<1>9. frame' \in FrameState /\ frame'.at = "begin" /\ frame'.due = frame.due /\ frame.due = {}
  BY <1>1, <1>3 DEF TypeOK, FrameState, Framed, InFrame
<1>10. Active => recordingJob \in Job /\ recordingJob # n
  BY <1>8, NoJobIsNone DEF Active, Truth, RecorderHasItsJob, TypeOK
<1>11. TypeOK'
  BY <1>1, <1>3, <1>7, <1>9 DEF TypeOK
<1>12. Framed'
  BY <1>1, <1>3, <1>9 DEF Framed, InFrame
<1>13. NotBegun'
  <2> SUFFICES ASSUME NEW j \in Job
               PROVE  /\ j > used' => jobs'[j].state = "unused"
                      /\ jobs'[j].state \in {"unused", "pending"} => files'[j] = "none"
    BY DEF NotBegun
  <2>1. CASE j = n
    <3>1. ~(n > n)
      BY <1>1
    <3> QED
      BY <2>1, <3>1, <1>3, <1>5, <1>7, <1>8
  <2>2. CASE j # n
    BY <2>2, <1>1, <1>3, <1>7 DEF NotBegun
  <2> QED
    BY <2>1, <2>2
<1>14. Owner'
  BY <1>3, <1>7, <1>10 DEF Owner, Active, Truth, RecorderHasItsJob
<1>15. Disjoint'
  <2>1. ASSUME NEW k \in Job, jobs[k].state \in Live, jobs[k].recording, p.recording
        PROVE  Apart(jobs[k], row) /\ Apart(row, jobs[k])
    <3>1. jobs[k].start \in Nat /\ jobs[k].end \in Nat
      BY DEF TypeOK, JobRow
    <3>2. ~(jobs[k].start < p.end /\ p.start < jobs[k].end)
      BY <1>2, <2>1 DEF Overlaps
    <3>3. jobs[k].start >= p.end \/ p.start >= jobs[k].end
      BY <3>1, <3>2, <1>4, NotBoth
    <3> QED
      BY <3>3, <1>5 DEF Apart
  <2> SUFFICES ASSUME NEW j \in Job, NEW k \in Job,
                      j # k, jobs'[j].recording, jobs'[k].recording,
                      jobs'[j].state \in Live, jobs'[k].state \in Live
               PROVE  Apart(jobs'[j], jobs'[k])
    BY DEF Disjoint, Job, Live
  <2>2. CASE j = n
    BY <2>1, <2>2, <1>5, <1>7
  <2>3. CASE k = n
    BY <2>1, <2>3, <1>5, <1>7
  <2>4. CASE j # n /\ k # n
    BY <2>4, <1>7 DEF Disjoint
  <2> QED
    BY <2>2, <2>3, <2>4
<1>16. Truth'
  BY <1>3, <1>5, <1>7, <1>10 DEF Truth, RunningIsRecorded, RecorderHasItsJob, SavedIsThere, Active
<1> QED
  BY <1>11, <1>12, <1>13, <1>14, <1>15, <1>16

LEMMA CancelStep == ASSUME RecInv, Cancel PROVE RecInv'
<1> USE DEF RecInv
<1>1. PICK j \in 1 .. used :
        /\ jobs[j].state # "removed"
        /\ IF recordingJob = j /\ Active
           THEN recorder' = [recorder EXCEPT !.stop = TRUE] /\ Write(j, "cancelled", "given")
           ELSE UNCHANGED recorder /\ Written(j, "removed", "none")
  BY DEF Cancel
<1>2. InFrame /\ UNCHANGED <<now, locked, app, frame, used, recordingJob, files, backups>>
  BY DEF Cancel
<1>3. j \in Job /\ ~(j > used)
  <2>1. used \in 0 .. MaxJobs
    BY DEF TypeOK
  <2> QED
    BY <2>1, RecordingAssumption DEF Job
<1>4. "cancelled" \in States /\ "removed" \in States /\ "given" \in Results /\ "none" \in Results
  BY DEF States, Results, Live, Settled
<1>5. frame.due = {} /\ app = "open"
  BY <1>2 DEF Framed, InFrame
<1>6. CASE recordingJob = j /\ Active
  <2>1. /\ recorder' \in RecorderState /\ recorder'.job = recorder.job
        /\ recorder'.until = recorder.until /\ recorder'.at = recorder.at
        /\ recorder'.stop = TRUE /\ recorder'.ok = recorder.ok
    <3>1. recorder' = [recorder EXCEPT !.stop = TRUE]
      BY <1>1, <1>6
    <3> QED
      BY <3>1 DEF TypeOK, RecorderState
  <2>2. /\ jobs' \in [Job -> JobRow] /\ jobs'[j].state \in {"running", "cancelled"}
        /\ \A k \in Job : /\ jobs'[k].start = jobs[k].start /\ jobs'[k].end = jobs[k].end
                          /\ jobs'[k].recording = jobs[k].recording
                          /\ k # j => jobs'[k] = jobs[k]
        /\ unwritten \ {j} \subseteq unwritten' /\ unwritten' \subseteq Job
        /\ jobs'[j].state = "running" => jobs'[j] = jobs[j]
    <3>1. jobs[j].state \in {"running", "cancelled"}
      BY <1>6 DEF Truth, RecorderHasItsJob
    <3>2. CASE Written(j, "cancelled", "given")
      BY <3>1, <3>2, <1>3, <1>4, RowIs DEF TypeOK, Written
    <3>3. CASE unwritten' = unwritten \cup {j} /\ UNCHANGED jobs
      BY <3>1, <3>3, <1>3 DEF TypeOK
    <3> QED
      BY <3>2, <3>3, <1>1, <1>6 DEF Write
  <2>3. TypeOK'
    BY <1>2, <2>1, <2>2 DEF TypeOK
  <2>4. Framed'
    BY <1>2, <1>5 DEF Framed
  <2>5. NotBegun'
    BY <1>2, <1>3, <2>2 DEF NotBegun
  <2>6. Owner'
    BY <1>2, <1>3, <1>6, <2>1, <2>2 DEF Owner, Active
  <2>7. Disjoint'
    BY <2>2, StayApart DEF Live
  <2>8. Truth'
    <3>1. RunningIsRecorded'
      BY <1>2, <1>3, <1>5, <1>6, <2>1, <2>2 DEF Truth, RunningIsRecorded, Active
    <3>2. RecorderHasItsJob'
      BY <1>2, <1>3, <1>5, <1>6, <2>1, <2>2 DEF Truth, RecorderHasItsJob, Active
    <3>3. SavedIsThere'
      BY <1>2, <1>3, <2>2 DEF Truth, SavedIsThere
    <3> QED
      BY <3>1, <3>2, <3>3 DEF Truth
  <2> QED
    BY <2>3, <2>4, <2>5, <2>6, <2>7, <2>8
<1>7. CASE ~(recordingJob = j /\ Active)
  <2>1. /\ recorder' = recorder /\ unwritten' = unwritten \ {j}
        /\ jobs' = Row(j, "removed", "none")
    BY <1>1, <1>7 DEF Written
  <2>2. /\ jobs' \in [Job -> JobRow] /\ jobs'[j].state = "removed"
        /\ \A k \in Job : /\ jobs'[k].start = jobs[k].start /\ jobs'[k].end = jobs[k].end
                          /\ jobs'[k].recording = jobs[k].recording
                          /\ k # j => jobs'[k] = jobs[k]
    <3>1. TypeOK
      OBVIOUS
    <3> QED
      BY <3>1, <1>3, <1>4, <2>1, RowIs
  <2>3. TypeOK'
    BY <1>2, <2>1, <2>2 DEF TypeOK
  <2>4. Framed'
    BY <1>2, <1>5 DEF Framed
  <2>5. NotBegun'
    BY <1>2, <1>3, <2>2 DEF NotBegun
  <2>6. Owner'
    BY <1>2, <1>7, <2>1, <2>2, NoJobIsNone DEF Owner, Active, Truth, RecorderHasItsJob, TypeOK
  <2>7. Disjoint'
    BY <2>2, StayApart DEF Live
  <2>8. Truth'
    BY <1>2, <1>3, <1>5, <1>7, <2>1, <2>2, NoJobIsNone
    DEF Truth, RunningIsRecorded, RecorderHasItsJob, SavedIsThere, Active, TypeOK
  <2> QED
    BY <2>3, <2>4, <2>5, <2>6, <2>7, <2>8
<1> QED
  BY <1>6, <1>7

(* A job that waits and is refused or shown: only its row changes.         *)
LEMMA WaitingConcluded ==
  ASSUME RecInv, NEW j \in Job, jobs[j].state = "pending",
         NEW state \in {"failed", "completed"}, NEW result \in Results,
         state = "completed" => ~jobs[j].recording,
         Write(j, state, result),
         UNCHANGED <<app, used, recorder, recordingJob, files>>
  PROVE  /\ jobs' \in [Job -> JobRow] /\ unwritten' \subseteq Job
         /\ \A k \in Job : k # j => jobs'[k] = jobs[k]
         /\ NotBegun' /\ Owner' /\ Disjoint' /\ Truth'
<1> USE DEF RecInv
<1>1. TypeOK /\ state \in States
  BY DEF States, Settled
<1>2. /\ jobs' \in [Job -> JobRow] /\ unwritten' \subseteq Job /\ unwritten \ {j} \subseteq unwritten'
      /\ \A k \in Job : /\ jobs'[k].start = jobs[k].start /\ jobs'[k].end = jobs[k].end
                        /\ jobs'[k].recording = jobs[k].recording
                        /\ k # j => jobs'[k] = jobs[k]
      /\ jobs'[j] = jobs[j] \/ jobs'[j].state = state
  <2>1. CASE Written(j, state, result)
    <3>1. /\ jobs' \in [Job -> JobRow] /\ jobs'[j].state = state
          /\ \A k \in Job : /\ jobs'[k].start = jobs[k].start /\ jobs'[k].end = jobs[k].end
                            /\ jobs'[k].recording = jobs[k].recording
                            /\ k # j => jobs'[k] = jobs[k]
      BY <1>1, <2>1, RowIs DEF Written
    <3> QED
      BY <3>1, <2>1 DEF TypeOK, Written
  <2>2. CASE unwritten' = unwritten \cup {j} /\ UNCHANGED jobs
    BY <2>2 DEF TypeOK
  <2> QED
    BY <2>1, <2>2 DEF Write
<1>3. ~(j > used) /\ files[j] = "none"
  BY DEF NotBegun
<1>4. Active => recordingJob \in Job /\ recordingJob # j
  BY NoJobIsNone DEF Active, Truth, RecorderHasItsJob, TypeOK
<1>5. NotBegun'
  BY <1>2, <1>3 DEF NotBegun
<1>6. Owner'
  BY <1>2, <1>4 DEF Owner, Active, Truth, RecorderHasItsJob
<1>7. Disjoint'
  <2>1. \A k \in Job : jobs'[k].state \in Live => jobs[k].state \in Live
    BY <1>2 DEF Live
  <2> QED
    BY <1>2, <2>1, StayApart
<1>8. RunningIsRecorded'
  BY <1>2, <1>4 DEF Truth, RunningIsRecorded, Active
<1>9. RecorderHasItsJob'
  BY <1>2, <1>4 DEF Truth, RecorderHasItsJob, Active
<1>10. SavedIsThere'
  BY <1>2, <1>3 DEF Truth, SavedIsThere
<1> QED
  BY <1>2, <1>5, <1>6, <1>7, <1>8, <1>9, <1>10 DEF Truth

(* A recorder that has ended is let go of, and its job gets its result.    *)
LEMMA RecorderConcluded ==
  ASSUME RecInv, app = "open", Done, Concluded(recorder.ok),
         recorder' = NoRecorder, recordingJob' = NoJob,
         UNCHANGED <<used, files>>
  PROVE  /\ jobs' \in [Job -> JobRow] /\ unwritten' \subseteq Job
         /\ \A k \in Job : jobs[k].state = "pending" => jobs'[k].state = "pending"
         /\ NotBegun' /\ Owner' /\ Disjoint' /\ Truth'
<1> USE DEF RecInv
<1> DEFINE j == recordingJob
           state == IF recorder.ok THEN "completed" ELSE "failed"
<1>1. /\ TypeOK /\ state \in States /\ state \in {"completed", "failed"} /\ "given" \in Results
      /\ state = "completed" <=> recorder.ok = TRUE
  BY DEF States, Settled, Results, TypeOK, RecorderState
<1>2. /\ Active /\ j \in Job /\ jobs[j].state \in {"running", "cancelled"}
      /\ jobs[j].recording /\ (files[j] = "whole" <=> recorder.ok = TRUE)
  BY NoJobIsNone DEF Active, Done, Truth, RecorderHasItsJob, Owner, TypeOK
<1>3. Write(j, state, "given")
  BY DEF Concluded
<1>4. ~Active'
  BY DEF Active, NoRecorder
<1> HIDE DEF j, state
<1>5. /\ jobs' \in [Job -> JobRow] /\ unwritten' \subseteq Job /\ unwritten \ {j} \subseteq unwritten'
      /\ \A k \in Job : /\ jobs'[k].start = jobs[k].start /\ jobs'[k].end = jobs[k].end
                        /\ jobs'[k].recording = jobs[k].recording
                        /\ k # j => jobs'[k] = jobs[k]
      /\ (jobs'[j] = jobs[j] /\ j \in unwritten') \/ jobs'[j].state = state
  <2>1. CASE Written(j, state, "given")
    <3>1. /\ jobs' \in [Job -> JobRow] /\ jobs'[j].state = state
          /\ \A k \in Job : /\ jobs'[k].start = jobs[k].start /\ jobs'[k].end = jobs[k].end
                            /\ jobs'[k].recording = jobs[k].recording
                            /\ k # j => jobs'[k] = jobs[k]
      BY <1>1, <1>2, <2>1, RowIs DEF Written
    <3> QED
      BY <3>1, <2>1 DEF TypeOK, Written
  <2>2. CASE unwritten' = unwritten \cup {j} /\ UNCHANGED jobs
    BY <2>2, <1>2 DEF TypeOK
  <2> QED
    BY <2>1, <2>2, <1>3 DEF Write
<1>6. NotBegun'
  <2>1. ~(j > used)
    BY <1>2 DEF NotBegun
  <2> QED
    BY <1>1, <1>2, <1>5, <2>1 DEF NotBegun
<1>7. Owner'
  BY <1>4 DEF Owner
<1>8. Disjoint'
  <2>1. \A k \in Job : jobs'[k].state \in Live => jobs[k].state \in Live
    BY <1>1, <1>5 DEF Live
  <2> QED
    BY <1>5, <2>1, StayApart
<1>9. RunningIsRecorded'
  <2>1. \A k \in Job : jobs[k].state = "running" /\ k \notin unwritten => k = j
    BY DEF Truth, RunningIsRecorded, j
  <2> QED
    BY <2>1, <1>1, <1>5 DEF RunningIsRecorded
<1>10. RecorderHasItsJob'
  BY <1>4 DEF RecorderHasItsJob
<1>11. SavedIsThere'
  BY <1>1, <1>2, <1>5 DEF Truth, SavedIsThere
<1>12. \A k \in Job : jobs[k].state = "pending" => jobs'[k].state = "pending"
  BY <1>2, <1>5
<1> QED
  BY <1>5, <1>6, <1>7, <1>8, <1>9, <1>10, <1>11, <1>12 DEF Truth

LEMMA BeginStep == ASSUME RecInv, Begin PROVE RecInv'
<1> USE DEF RecInv
<1>1. /\ app = "open" /\ frame' = IF Due = {} THEN Idle ELSE [at |-> "jobs", due |-> Due, time |-> now]
      /\ UNCHANGED <<now, locked, app, used, files, backups>>
  BY DEF Begin
<1>2. /\ frame' \in FrameState
      /\ frame'.at # "jobs" => frame'.due = {}
      /\ \A k \in frame'.due : k \in Job /\ jobs[k].state = "pending"
  BY <1>1, IdleTyped DEF FrameState, Due, TypeOK
<1>3. CASE Done
  <2>1. recorder' = NoRecorder /\ recordingJob' = NoJob /\ Concluded(recorder.ok)
    BY <1>3 DEF Begin
  <2>2. /\ jobs' \in [Job -> JobRow] /\ unwritten' \subseteq Job
        /\ \A k \in Job : jobs[k].state = "pending" => jobs'[k].state = "pending"
        /\ NotBegun' /\ Owner' /\ Disjoint' /\ Truth'
    BY <1>1, <1>3, <2>1, RecorderConcluded
  <2>3. TypeOK'
    BY <1>1, <1>2, <2>1, <2>2, NoRecorderTyped DEF TypeOK
  <2>4. Framed'
    BY <1>1, <1>2, <2>2 DEF Framed
  <2> QED
    BY <2>2, <2>3, <2>4
<1>4. CASE ~Done
  <2>1. /\ recorder' = [recorder EXCEPT !.stop = @ \/ (locked /\ Active)]
        /\ UNCHANGED <<jobs, recordingJob, unwritten>>
    BY <1>4 DEF Begin
  <2>2. /\ recorder' \in RecorderState /\ recorder'.job = recorder.job
        /\ recorder'.until = recorder.until /\ recorder'.at = recorder.at
        /\ recorder.stop => recorder'.stop
        /\ recorder'.ok = recorder.ok
    BY <2>1 DEF TypeOK, RecorderState
  <2>3. TypeOK'
    BY <1>1, <1>2, <2>1, <2>2 DEF TypeOK
  <2>4. Framed'
    BY <1>1, <1>2, <2>1 DEF Framed
  <2>5. NotBegun' /\ Disjoint'
    BY <1>1, <2>1 DEF NotBegun, Disjoint
  <2>6. Owner'
    BY <1>1, <2>1, <2>2 DEF Owner, Active
  <2>7. Truth'
    BY <1>1, <2>1, <2>2 DEF Truth, RunningIsRecorded, RecorderHasItsJob, SavedIsThere, Active
  <2> QED
    BY <2>3, <2>4, <2>5, <2>6, <2>7
<1> QED
  BY <1>3, <1>4

LEMMA JoinedStep == ASSUME RecInv, Joined PROVE RecInv'
<1> USE DEF RecInv
<1>1. /\ app = "open" /\ (Active => Done) /\ KeepResult
      /\ recorder' = NoRecorder /\ recordingJob' = NoJob
      /\ app' = "storage" /\ frame' = Idle
      /\ UNCHANGED <<now, locked, used, files, backups>>
  BY DEF Joined
<1>2. ~Active'
  BY <1>1 DEF Active, NoRecorder
<1>3. /\ jobs' \in [Job -> JobRow] /\ unwritten' \subseteq Job
      /\ NotBegun' /\ Owner' /\ Disjoint' /\ Truth'
  <2>1. CASE recordingJob = NoJob
    <3>1. UNCHANGED <<jobs, unwritten>> /\ ~Active
      BY <1>1, <2>1 DEF KeepResult, Truth, RecorderHasItsJob
    <3>2. NotBegun' /\ Disjoint' /\ jobs' \in [Job -> JobRow] /\ unwritten' \subseteq Job
      BY <1>1, <3>1 DEF NotBegun, Disjoint, TypeOK
    <3>3. Owner'
      BY <1>2 DEF Owner
    <3>4. Truth'
      BY <1>1, <1>2, <3>1 DEF Truth, RunningIsRecorded, RecorderHasItsJob, SavedIsThere
    <3> QED
      BY <3>2, <3>3, <3>4
  <2>2. CASE recordingJob # NoJob
    <3>1. Done /\ Concluded(recorder.ok)
      BY <1>1, <2>2 DEF KeepResult, Truth, RecorderHasItsJob
    <3> QED
      BY <1>1, <3>1, RecorderConcluded
  <2> QED
    BY <2>1, <2>2
<1>4. TypeOK'
  BY <1>1, <1>3, NoRecorderTyped, IdleTyped DEF TypeOK
<1>5. Framed'
  BY <1>1, IdleTyped DEF Framed
<1> QED
  BY <1>3, <1>4, <1>5

LEMMA HandleJobStep == ASSUME RecInv, HandleJob PROVE RecInv'
<1> USE DEF RecInv
<1>1. PICK j \in frame.due :
        /\ Refuse(j) \/ Remind(j) \/ Conflict(j) \/ Record(j)
        /\ frame' = IF frame.due = {j} THEN Idle ELSE [frame EXCEPT !.due = @ \ {j}]
  BY DEF HandleJob
<1>2. app = "open" /\ frame.at = "jobs" /\ UNCHANGED <<now, locked, app, used, files, backups>>
  BY DEF HandleJob
<1>3. j \in Job /\ jobs[j].state = "pending" /\ frame.due \subseteq Job
  BY DEF TypeOK, FrameState, Framed
<1>4. /\ frame' \in FrameState
      /\ frame'.at # "jobs" => frame'.due = {}
      /\ frame'.due \subseteq frame.due \ {j}
  <2>1. CASE frame.due = {j}
    BY <1>1, <2>1, IdleTyped
  <2>2. CASE frame.due # {j}
    <3>1. frame' = [frame EXCEPT !.due = frame.due \ {j}]
      BY <1>1, <2>2
    <3> QED
      BY <3>1, <1>2, <1>3 DEF TypeOK, FrameState
  <2> QED
    BY <2>1, <2>2
<1>5. "given" \in Results /\ "none" \in Results /\ "running" \in States
  BY DEF Results, States, Live
<1>6. CASE Refuse(j) \/ Remind(j) \/ Conflict(j)
  <2>1. UNCHANGED <<recorder, recordingJob>>
    BY <1>6 DEF Refuse, Remind, Conflict
  <2>2. /\ jobs' \in [Job -> JobRow] /\ unwritten' \subseteq Job
        /\ \A k \in Job : k # j => jobs'[k] = jobs[k]
        /\ NotBegun' /\ Owner' /\ Disjoint' /\ Truth'
    <3>1. CASE Refuse(j)
      <4>1. Write(j, "failed", "given")
        BY <3>1 DEF Refuse
      <4> QED
        BY <4>1, <1>2, <1>3, <1>5, <2>1, WaitingConcluded
    <3>2. CASE Remind(j)
      <4>1. Write(j, "completed", "given") /\ ~jobs[j].recording
        BY <3>2 DEF Remind
      <4> QED
        BY <4>1, <1>2, <1>3, <1>5, <2>1, WaitingConcluded
    <3>3. CASE Conflict(j)
      <4>1. Write(j, "failed", "given")
        BY <3>3 DEF Conflict
      <4> QED
        BY <4>1, <1>2, <1>3, <1>5, <2>1, WaitingConcluded
    <3> QED
      BY <3>1, <3>2, <3>3, <1>6
  <2>3. TypeOK'
    BY <1>2, <1>4, <2>1, <2>2 DEF TypeOK
  <2>4. Framed'
    BY <1>2, <1>3, <1>4, <2>2 DEF Framed
  <2> QED
    BY <2>2, <2>3, <2>4
<1>7. CASE Record(j)
  <2>1. jobs[j].recording /\ ~Active /\ recordingJob = NoJob
    BY <1>7 DEF Record, Truth, RecorderHasItsJob
  <2>2. files[j] = "none" /\ ~(j > used)
    BY <1>3 DEF NotBegun
  <2> DEFINE R == [NoRecorder EXCEPT !.at = "create", !.job = j, !.until = jobs[j].end]
  <2>3. /\ jobs' = jobs \/ jobs' = Row(j, "running", "none")
        /\ \/ UNCHANGED <<recorder, recordingJob>> /\ unwritten' = unwritten \cup {j}
           \/ /\ recorder' = R /\ recordingJob' = j /\ unwritten' = unwritten \ {j}
              /\ jobs' = Row(j, "running", "none")
    BY <1>7 DEF Record, Written
  <2>4. /\ R \in RecorderState /\ R.at = "create" /\ R.job = j /\ R.until = jobs[j].end
        /\ R.stop = FALSE /\ R.ok = FALSE
    <3>1. jobs[j].end \in Nat
      BY <1>3 DEF TypeOK, JobRow
    <3> QED
      BY <3>1, <1>3, NoRecorderTyped DEF NoRecorder, RecorderState
  <2> HIDE DEF R
  <2>5. /\ jobs' \in [Job -> JobRow]
        /\ \A k \in Job : /\ jobs'[k].start = jobs[k].start /\ jobs'[k].end = jobs[k].end
                          /\ jobs'[k].recording = jobs[k].recording
                          /\ k # j => jobs'[k] = jobs[k]
        /\ jobs'[j].state \in {"pending", "running"}
        /\ jobs' = Row(j, "running", "none") => jobs'[j].state = "running"
    <3>1. TypeOK
      OBVIOUS
    <3>2. CASE jobs' = Row(j, "running", "none")
      BY <3>1, <3>2, <1>3, <1>5, RowIs
    <3>3. CASE jobs' = jobs /\ jobs' # Row(j, "running", "none")
      BY <3>3, <1>3 DEF TypeOK
    <3> QED
      BY <3>2, <3>3, <2>3
  <2>6. TypeOK'
    BY <1>2, <1>3, <1>4, <2>3, <2>4, <2>5 DEF TypeOK
  <2>7. Framed'
    BY <1>2, <1>3, <1>4, <2>5 DEF Framed
  <2>8. NotBegun'
    BY <1>2, <2>2, <2>5 DEF NotBegun
  <2>9. Owner'
    BY <1>2, <1>3, <2>1, <2>2, <2>3, <2>4, <2>5 DEF Owner, Active
  <2>10. Disjoint'
    <3>1. \A k \in Job : jobs'[k].state \in Live => jobs[k].state \in Live
      BY <1>3, <2>5 DEF Live
    <3> QED
      BY <2>5, <3>1, StayApart
  <2>11. RunningIsRecorded'
    <3>1. \A k \in Job : jobs[k].state = "running" => k \in unwritten
      BY <1>2, <2>1 DEF Truth, RunningIsRecorded
    <3> QED
      BY <3>1, <1>3, <2>3, <2>4, <2>5 DEF RunningIsRecorded, Active
  <2>12. RecorderHasItsJob'
    BY <1>3, <2>1, <2>3, <2>4, <2>5, NoJobIsNone DEF RecorderHasItsJob, Active
  <2>13. SavedIsThere'
    BY <1>2, <2>2, <2>5 DEF Truth, SavedIsThere
  <2> QED
    BY <2>6, <2>7, <2>8, <2>9, <2>10, <2>11, <2>12, <2>13 DEF Truth
<1> QED
  BY <1>1, <1>6, <1>7

LEMMA StepHolds == ASSUME RecInv, Kept, [Next]_vars PROVE RecInv'
<1>1. CASE User
  BY <1>1, ScheduleStep, CancelStep, StopStep, LockStep, CloseForStorageStep, BackupStep,
     RestoreStep, OpenStep, DieStep
  DEF User
<1>2. CASE Poll
  BY <1>2, BeginStep, HandleJobStep, JoinedStep DEF Poll
<1>3. CASE Thread
  BY <1>3, CreateStep, ReceiveStep, StreamEndsStep, CloseStep DEF Thread
<1>4. CASE Tick
  BY <1>4, TickStep
<1>5. CASE UNCHANGED vars
  BY <1>5 DEF vars, RecInv, TypeOK, Framed, NotBegun, Owner, Disjoint, Truth, RunningIsRecorded,
     RecorderHasItsJob, SavedIsThere, Active
<1> QED
  BY <1>1, <1>2, <1>3, <1>4, <1>5 DEF Next

LEMMA GivenStep == ASSUME RecInv, Given, Kept, [Next]_vars PROVE Given'
<1> USE DEF Given
<1>1. TypeOK /\ Truth /\ Framed /\ used \in Nat /\ NoJob \notin Job
  BY NoJobIsNone, RecordingAssumption DEF RecInv, TypeOK
<1>2. CASE Schedule
  <2>1. PICK p \in Programmes :
          jobs' = [jobs EXCEPT ![used + 1] = [state |-> "pending", result |-> "none",
                     start |-> p.start, end |-> p.end, recording |-> p.recording]]
    BY <1>2 DEF Schedule
  <2>2. used' = used + 1 /\ jobs \in [Job -> JobRow]
    BY <1>1, <1>2 DEF Schedule, TypeOK
  <2>3. \A j \in Job : jobs'[j].state = IF j = used + 1 THEN "pending" ELSE jobs[j].state
    BY <2>1, <2>2
  <2>4. \A j \in Job : j <= used + 1 => j = used + 1 \/ j <= used
    BY <1>1 DEF Job
  <2> QED
    BY <2>2, <2>3, <2>4
<1>3. CASE Open
  <2>1. \A j \in Job : jobs'[j].state = "unused" => jobs[j].state = "unused"
    BY <1>3, OpenRows
  <2> QED
    BY <1>3, <2>1 DEF Open
<1>4. CASE Cancel \/ Begin \/ Joined \/ HandleJob
  <2>1. used' = used
    BY <1>4 DEF Cancel, Begin, Joined, HandleJob
  <2>2. \/ jobs' = jobs
        \/ \E j \in Job, state \in States \ {"unused"}, result \in Results :
             jobs' = Row(j, state, result)
    <3> DEFINE T == States \ {"unused"}
    <3>0. /\ "running" \in T /\ "completed" \in T /\ "failed" \in T /\ "removed" \in T
          /\ "cancelled" \in T /\ "none" \in Results /\ "given" \in Results
      BY DEF States, Results, Settled, Live
    <3> HIDE DEF T
    <3>a. SUFFICES jobs' # jobs =>
            \E j \in Job, state \in T, result \in Results : jobs' = Row(j, state, result)
      BY DEF T
    <3>1. CASE Cancel
      <4>1. PICK j \in 1 .. used :
              \/ Write(j, "cancelled", "given") \/ jobs' = Row(j, "removed", "none")
        BY <3>1 DEF Cancel, Written
      <4>2. j \in Job
        <5>1. used \in 0 .. MaxJobs /\ MaxJobs \in Nat
          BY <1>1, RecordingAssumption DEF TypeOK
        <5> QED
          BY <5>1 DEF Job
      <4>3. \/ jobs' = jobs
            \/ jobs' = Row(j, "cancelled", "given") \/ jobs' = Row(j, "removed", "none")
        BY <4>1 DEF Write, Written
      <4> QED
        BY <3>0, <4>2, <4>3
    <3>2. CASE Begin \/ Joined
      <4>1. recordingJob # NoJob => recordingJob \in Job
        BY <1>1 DEF TypeOK
      <4>2. Done => recordingJob # NoJob
        BY <1>1 DEF Truth, RecorderHasItsJob, Active, Done
      <4> QED
        BY <3>0, <3>2, <4>1, <4>2 DEF Begin, Joined, KeepResult, Concluded, Write,
           Written
    <3>3. CASE HandleJob
      <4>1. frame.due \subseteq Job
        BY <1>1 DEF TypeOK, FrameState
      <4> QED
        BY <3>0, <3>3, <4>1 DEF HandleJob, Refuse, Remind, Conflict, Record, Write, Written
    <3> QED
      BY <1>4, <3>1, <3>2, <3>3
  <2>3. ASSUME NEW j \in Job, NEW state \in States \ {"unused"}, NEW result \in Results,
               jobs' = Row(j, state, result)
        PROVE  \A k \in Job : jobs'[k].state = "unused" => jobs[k].state = "unused"
    BY <1>1, <2>3, RowIs
  <2> QED
    BY <2>1, <2>2, <2>3
<1>5. CASE Stop \/ Lock \/ CloseForStorage \/ Backup \/ Die \/ Thread \/ Tick \/ UNCHANGED vars
  <2>1. UNCHANGED <<jobs, used>>
    <3>1. CASE Thread
      BY <3>1, Zenon DEF Thread, Create, Receive, StreamEnds, Close
    <3> QED
      BY <1>5, <3>1, Zenon DEF Stop, Lock, CloseForStorage, Backup, Die, Tick, vars
  <2> QED
    BY <2>1
<1>6. CASE Restore
  BY <1>6, RestoreStep
<1> QED
  BY <1>2, <1>3, <1>4, <1>5, <1>6 DEF Next, User, Poll

(* Only a backup adds a table, and it adds the app's own.                  *)
LEMMA BackupsStay ==
  ASSUME [Next]_vars, ~Backup
  PROVE  backups' = backups
<1>1. CASE User
  BY <1>1, Zenon
  DEF User, Schedule, Cancel, Stop, Lock, CloseForStorage, Restore, Open, Die
<1>2. CASE Poll
  BY <1>2, Zenon DEF Poll, Begin, HandleJob, Joined
<1>3. CASE Thread
  BY <1>3, Zenon DEF Thread, Create, Receive, StreamEnds, Close
<1> QED
  BY <1>1, <1>2, <1>3, Zenon DEF Next, Tick, vars

LEMMA KeptStep == ASSUME RecInv, Given, Kept, [Next]_vars PROVE Kept'
<1>1. CASE Backup
  <2>1. Sound(Table)
    <3>1. \A j \in Job : j > used <=> jobs[j].state = "unused"
      <4> SUFFICES ASSUME NEW j \in Job PROVE j > used <=> jobs[j].state = "unused"
        OBVIOUS
      <4>1. j \in Nat /\ used \in Nat
        BY RecordingAssumption DEF RecInv, TypeOK, Job
      <4> QED
        BY <4>1 DEF RecInv, NotBegun, Given
    <3>2. /\ \A j \in Job : jobs[j].state \in {"unused", "pending"} => files[j] = "none"
          /\ SavedIsThere /\ Disjoint
      BY DEF RecInv, NotBegun, Truth
    <3> QED
      BY <3>1, <3>2 DEF Sound, Table, SavedIsThere, Disjoint
  <2>2. backups' = backups \cup {Table}
    BY <1>1 DEF Backup
  <2> QED
    BY <2>1, <2>2 DEF Kept
<1>2. CASE ~Backup
  <2>1. backups' = backups
    BY <1>2, BackupsStay
  <2> QED
    BY <2>1 DEF Kept
<1> QED
  BY <1>1, <1>2

(***************************************************************************)
(* In every reachable state, whatever the database refuses, whenever the   *)
(* app is killed, and whichever backup is restored                         *)
(* (opengl-ui/src/tv/model_recording.cpp, recording.cpp, backup.cpp).      *)
(***************************************************************************)
THEOREM RecordingInvariant == Spec => [](RecInv /\ Given /\ Kept)
<1>1. RecInv /\ Given /\ Kept /\ [Next]_vars => (RecInv /\ Given /\ Kept)'
  BY StepHolds, GivenStep, KeptStep
<1>2. Init => Given /\ Kept
  BY RecordingAssumption DEF Init, Given, Kept, Sound, NoTable, NoRow, Job, Live
<1> QED
  BY InitHolds, <1>1, <1>2, PTL DEF Spec

(* Every variable keeps to its type (class ProgrammeJobs, class Recorder). *)
THEOREM TypeCorrect == Spec => []TypeOK
<1>1. RecInv => TypeOK
  BY DEF RecInv
<1> QED
  BY RecordingInvariant, <1>1, PTL

(***************************************************************************)
(* The list of jobs says what the recorder has done, and a recording that  *)
(* goes on is in the way of no other that was accepted: the recorder's job *)
(* is live, and live recordings are apart (poll_programme_jobs,            *)
(* close_for_storage, ProgrammeJobs::save, Recorder::run).                 *)
(***************************************************************************)
THEOREM JobsAreTrue == Spec => []JobsTellTheTruth
<1>1. RecInv => JobsTellTheTruth
  <2> SUFFICES ASSUME RecInv PROVE JobsTellTheTruth
    OBVIOUS
  <2> USE DEF RecInv
  <2>1. NoneInTheWay
    <3> SUFFICES ASSUME Active, ~recorder.stop, NEW j \in Job \ {recorder.job},
                        jobs[j].state = "pending", jobs[j].recording
                 PROVE  jobs[j].start >= recorder.until \/ jobs[j].end <= jobs[recorder.job].start
      BY DEF NoneInTheWay
    <3> DEFINE i == recorder.job
    <3>1. i \in Job /\ i # j /\ jobs[i].state = "running" /\ jobs[i].recording
          /\ recorder.until = jobs[i].end
      BY NoJobIsNone DEF Owner, Truth, RecorderHasItsJob, Active, TypeOK
    <3> HIDE DEF i
    <3>2. Apart(jobs[j], jobs[i])
      BY <3>1 DEF Disjoint, Live
    <3>3. jobs[j].end \in Nat /\ jobs[i].start \in Nat
      BY <3>1 DEF TypeOK, JobRow
    <3>4. jobs[i].start >= jobs[j].end => jobs[j].end <= jobs[i].start
      BY <3>3
    <3> QED
      BY <3>1, <3>2, <3>4 DEF Apart, i
  <2> QED
    BY <2>1 DEF Truth, JobsTellTheTruth
<1> QED
  BY RecordingInvariant, <1>1, PTL

--------------------------------------------------------------------------------
(***************************************************************************)
(* The refinement of JobLife: a step of Recording changes what has become  *)
(* of one job at most, unless it is a restore, which gives all of them the *)
(* lives that a backup has.                                                *)
(***************************************************************************)
(* What a job's life rests on, and what the invariant makes of it.         *)
LEMMA LifeKept ==
  ASSUME NEW k \in Job, jobs'[k].state = jobs[k].state, files'[k] = files[k],
         Records(k)' <=> Records(k)
  PROVE  Life(k)' = Life(k)
<1>1. (Active /\ ~Done /\ recorder.job = k)' <=> (Active /\ ~Done /\ recorder.job = k)
  BY DEF Records
<1> QED
  BY <1>1 DEF Life, LifeIn, Table, Records, Active, Done

LEMMA LifeIs ==
  ASSUME RecInv, NEW j \in Job
  PROVE  /\ Records(j) => /\ recordingJob = j /\ jobs[j].state \in {"running", "cancelled"}
                          /\ files[j] # "whole" /\ Life(j) = "recording"
         /\ Life(j) = "recording" => Records(j)
         /\ jobs[j].state \in {"unused", "pending"} => files[j] = "none" /\ ~Records(j)
         /\ jobs[j].state = "unused" => Life(j) = "none"
         /\ jobs[j].state = "pending" => Life(j) = "waiting"
         /\ jobs[j].state \notin {"unused", "pending"} /\ ~Records(j) =>
              Life(j) = IF files[j] = "whole" THEN "recorded" ELSE "over"
<1>1. Records(j) => /\ recordingJob = j /\ jobs[j].state \in {"running", "cancelled"}
                    /\ files[j] # "whole"
  BY DEF RecInv, Owner, Truth, RecorderHasItsJob, Records, Done
<1>2. jobs[j].state \in {"unused", "pending"} => files[j] = "none"
  BY DEF RecInv, NotBegun
<1> QED
  BY <1>1, <1>2 DEF Life, LifeIn, Table, Records

LEMMA OneChanges ==
  ASSUME NEW j \in Job, NEW to, Life(j)' = to,
         \A k \in Job : k # j => Life(k)' = Life(k)
  PROVE  /\ Lives[j] = Life(j)
         /\ Lives' = [Lives EXCEPT ![j] = to]
<1>1. \A k \in Job : Lives[k] = Life(k)
  BY DEF Lives
<1>2. Lives' = [k \in Job |-> Life(k)']
  BY DEF Lives
<1>3. Lives = [k \in Job |-> Life(k)]
  BY DEF Lives
<1> QED
  BY <1>1, <1>2, <1>3

LEMMA NoneChanges ==
  ASSUME \A k \in Job : Life(k)' = Life(k)
  PROVE  Lives' = Lives
BY DEF Lives

LEMMA Moves ==
  ASSUME NEW j \in Job, \A k \in Job : k # j => Life(k)' = Life(k),
         \/ Life(j)' = Life(j)
         \/ Life(j) = "none" /\ Life(j)' = "waiting"
         \/ /\ Life(j) = "waiting" /\ Life(j)' = "recording"
            /\ \A k \in Job : Life(k) # "recording"
         \/ Life(j) = "recording" /\ Life(j)' = "recorded"
         \/ Life(j) \in {"waiting", "recording"} /\ Life(j)' = "over"
  PROVE  [Promised!GoesOn]_Lives
<1>1. CASE Life(j)' = Life(j)
  BY <1>1, NoneChanges
<1>2. CASE Life(j)' # Life(j)
  <2>1. Lives[j] = Life(j) /\ Lives' = [Lives EXCEPT ![j] = Life(j)']
    BY OneChanges
  <2>2. \A k \in Job : Lives[k] = Life(k)
    BY DEF Lives
  <2>3. Promised!Accept(j) \/ Promised!Start(j) \/ Promised!Keep(j) \/ Promised!End(j)
    BY <1>2, <2>1, <2>2 DEF Promised!Accept, Promised!Start, Promised!Keep, Promised!End,
       Promised!Becomes, Promised!NoneRecorded
  <2> QED
    BY <1>2, <2>1, <2>2, <2>3 DEF Promised!GoesOn
<1> QED
  BY <1>1, <1>2

(* The recorder's state is no matter of the jobs' until it is done.        *)
LEMMA SameLives ==
  ASSUME UNCHANGED <<jobs, files>>,
         \/ recorder' = recorder
         \/ /\ recorder'.job = recorder.job
            /\ recorder'.at \notin {"none", "done"} <=> recorder.at \notin {"none", "done"}
  PROVE  [Promised!GoesOn]_Lives
<1>1. ASSUME NEW k \in Job PROVE Life(k)' = Life(k)
  <2>1. Records(k)' <=> Records(k)
    BY DEF Records, Active, Done
  <2> QED
    BY <2>1, LifeKept
<1> QED
  BY <1>1, NoneChanges

LEMMA UserMoves ==
  ASSUME RecInv, Stop \/ Lock \/ Tick \/ Receive \/ StreamEnds \/ CloseForStorage
  PROVE  [Promised!GoesOn]_Lives
<1>1. UNCHANGED <<jobs, files>>
  BY DEF Stop, Lock, Tick, Receive, StreamEnds, CloseForStorage
<1>2. \/ recorder' = recorder
      \/ /\ recorder'.job = recorder.job
         /\ recorder'.at \notin {"none", "done"} <=> recorder.at \notin {"none", "done"}
  <2>1. recorder \in RecorderState
    BY DEF RecInv, TypeOK
  <2>2. CASE Stop \/ CloseForStorage
    <3>1. recorder'.job = recorder.job /\ recorder'.at = recorder.at
      BY <2>1, <2>2 DEF Stop, CloseForStorage, RecorderState
    <3> QED
      BY <3>1
  <2>3. CASE Receive \/ StreamEnds
    <3>1. recorder'.job = recorder.job /\ recorder.at = "stream" /\ recorder'.at \in {"stream", "close"}
      BY <2>1, <2>3 DEF Receive, StreamEnds, RecorderState
    <3> QED
      BY <3>1
  <2> QED
    BY <2>2, <2>3 DEF Lock, Tick
<1> QED
  BY <1>1, <1>2, SameLives

(* The rows of all jobs but one stay, and the recorder keeps to its job.   *)
LEMMA ScheduleMoves ==
  ASSUME RecInv, Given, Schedule
  PROVE  [Promised!GoesOn]_Lives
<1>1. PICK j \in Job : j = used + 1 /\ jobs[j].state = "unused"
  <2>1. used \in 0 .. MaxJobs /\ used < MaxJobs /\ MaxJobs \in Nat
    BY RecordingAssumption DEF RecInv, TypeOK, Schedule
  <2>2. used + 1 \in Job /\ used + 1 > used
    BY <2>1 DEF Job
  <2> QED
    BY <2>2 DEF RecInv, NotBegun
<1>2. /\ \A k \in Job : k # j => jobs'[k] = jobs[k]
      /\ jobs'[j].state = "pending"
      /\ UNCHANGED <<recorder, files>>
  <2>1. jobs \in [Job -> JobRow]
    BY DEF RecInv, TypeOK
  <2> QED
    BY <1>1, <2>1 DEF Schedule
<1>3. \A k \in Job : Records(k)' <=> Records(k)
  BY <1>2 DEF Records, Active, Done
<1>4. ASSUME NEW k \in Job, k # j PROVE Life(k)' = Life(k)
  BY <1>2, <1>3, <1>4, LifeKept
<1>5. Life(j) = "none" /\ files[j] = "none" /\ ~Records(j)
  BY <1>1, LifeIs
<1>6. Life(j)' = "waiting"
  BY <1>1, <1>2, <1>3, <1>5 DEF Life, LifeIn, Table, Records, Active, Done
<1> QED
  BY <1>1, <1>4, <1>5, <1>6, Moves

LEMMA DieMoves ==
  ASSUME RecInv, Die
  PROVE  [Promised!GoesOn]_Lives
<1>1. UNCHANGED <<jobs, files>> /\ ~Active'
  BY DEF Die, Active, NoRecorder
<1>2. \A k \in Job : ~Records(k)'
  BY <1>1 DEF Records
<1>3. CASE \A k \in Job : ~Records(k)
  <2>1. ASSUME NEW k \in Job PROVE Life(k)' = Life(k)
    BY <1>1, <1>2, <1>3, LifeKept
  <2> QED
    BY <2>1, NoneChanges
<1>4. CASE \E k \in Job : Records(k)
  <2>1. PICK j \in Job : Records(j)
    BY <1>4
  <2>2. \A k \in Job : k # j => ~Records(k)
    BY <2>1 DEF Records
  <2>3. ASSUME NEW k \in Job, k # j PROVE Life(k)' = Life(k)
    BY <1>1, <1>2, <2>2, <2>3, LifeKept
  <2>4. Life(j) = "recording" /\ jobs[j].state \in {"running", "cancelled"} /\ files[j] # "whole"
    BY <2>1, LifeIs
  <2>5. Life(j)' = "over"
    BY <1>1, <1>2, <2>4 DEF Life, LifeIn, Table
  <2> QED
    BY <2>3, <2>4, <2>5, Moves
<1> QED
  BY <1>3, <1>4

LEMMA OpenMoves ==
  ASSUME RecInv, Open
  PROVE  [Promised!GoesOn]_Lives
<1>1. UNCHANGED <<recorder, files>> /\ ~Active
  BY DEF RecInv, Open, Framed, Active, NoRecorder
<1>2. ASSUME NEW k \in Job PROVE Life(k)' = Life(k)
  <2>1. jobs'[k] = jobs[k] \/ (jobs[k].state = "running" /\ jobs'[k].state = "failed")
    BY OpenRows
  <2> QED
    BY <1>1, <2>1 DEF Life, LifeIn, Table, Records, Active
<1> QED
  BY <1>2, NoneChanges

(* The recorder's thread.                                                  *)
LEMMA ThreadMoves ==
  ASSUME RecInv, Create \/ Close
  PROVE  [Promised!GoesOn]_Lives
<1>1. PICK j \in Job :
         /\ j = recorder.job /\ Records(j) /\ Active /\ jobs' = jobs
         /\ recorder \in RecorderState /\ files \in [Job -> {"none", "whole"}]
  <2>1. Active /\ ~Done /\ jobs' = jobs
    BY DEF Create, Close, Active, Done
  <2> QED
    BY <2>1, NoJobIsNone DEF RecInv, TypeOK, Truth, RecorderHasItsJob, Records
<1>2. /\ recorder'.job = j /\ recorder'.at \in {"stream", "done"}
      /\ \A k \in Job : k # j => files'[k] = files[k]
      /\ recorder'.at = "stream" => files'[j] # "whole"
      /\ files'[j] \in {files[j], "whole"}
  <2>1. CASE Create
    <3>1. files[j] # "whole"
      BY <1>1, LifeIs
    <3> QED
      BY <1>1, <2>1, <3>1 DEF Create, RecorderState
  <2>2. CASE Close
    <3>1. files' = files \/ files' = [files EXCEPT ![recorder.job] = "whole"]
      BY <2>2, Zenon DEF Close
    <3>2. \E b \in BOOLEAN : recorder' = [recorder EXCEPT !.at = "done", !.ok = b]
      <4>1. PICK written \in BOOLEAN :
              recorder' = [recorder EXCEPT !.at = "done",
                                           !.ok = recorder.ok /\ recorder.got /\ written]
        BY <2>2, Zenon DEF Close
      <4>2. (recorder.ok /\ recorder.got /\ written) \in BOOLEAN
        OBVIOUS
      <4> QED
        BY <4>1, <4>2, Zenon
    <3>3. recorder'.job = j /\ recorder'.at = "done"
      BY <1>1, <3>2 DEF RecorderState
    <3> QED
      BY <1>1, <3>1, <3>3
  <2> QED
    BY <2>1, <2>2
<1>3. /\ Life(j) = "recording" /\ jobs[j].state \in {"running", "cancelled"}
      /\ files[j] # "whole"
  BY <1>1, LifeIs
<1>4. ASSUME NEW k \in Job, k # j PROVE Life(k)' = Life(k)
  <2>1. ~Records(k) /\ ~Records(k)'
    BY <1>1, <1>2, <1>4 DEF Records
  <2> QED
    BY <1>1, <1>2, <1>4, <2>1, LifeKept
<1>5. CASE recorder'.at = "stream"
  <2>1. Life(j)' = "recording"
    BY <1>1, <1>2, <1>3, <1>5 DEF Life, LifeIn, Table, Records, Active, Done
  <2> QED
    BY <1>1, <1>3, <1>4, <2>1, Moves
<1>6. CASE recorder'.at = "done"
  <2>1. Life(j)' = IF files'[j] = "whole" THEN "recorded" ELSE "over"
    BY <1>1, <1>2, <1>3, <1>6 DEF Life, LifeIn, Table, Records, Active, Done
  <2> QED
    BY <1>1, <1>3, <1>4, <2>1, Moves
<1> QED
  BY <1>2, <1>5, <1>6

(* A written result: it ends a job that waits, and is news of no other.    *)
LEMMA ResultMoves ==
  ASSUME RecInv, NEW j \in Job, jobs[j].state # "unused",
         NEW state \in States \ {"unused", "pending"}, NEW result \in Results,
         jobs' = Row(j, state, result), files' = files,
         \A k \in Job : Records(k)' <=> Records(k)
  PROVE  [Promised!GoesOn]_Lives
<1>1. jobs'[j].state = state /\ \A k \in Job : k # j => jobs'[k] = jobs[k]
  BY RowIs DEF RecInv
<1>2. ASSUME NEW k \in Job, k # j PROVE Life(k)' = Life(k)
  BY <1>1, <1>2, LifeKept
<1>3. CASE Records(j)
  <2>1. /\ (Active /\ ~Done /\ recorder.job = j)'
        /\ jobs[j].state # "unused" /\ files[j] # "whole" /\ Life(j) = "recording"
    BY <1>3, LifeIs DEF Records
  <2>2. Life(j)' = Life(j)
    BY <1>1, <2>1 DEF Life, LifeIn, Table, Records, Active, Done
  <2> QED
    BY <1>2, <2>2, Moves
<1>4. CASE ~Records(j)
  <2>1. ~(Active /\ ~Done /\ recorder.job = j)'
    BY <1>4 DEF Records
  <2>2. Life(j)' = IF files[j] = "whole" THEN "recorded" ELSE "over"
    BY <1>1, <2>1 DEF Life, LifeIn, Table, Records, Active, Done
  <2>3. CASE jobs[j].state = "pending"
    <3>1. Life(j) = "waiting" /\ files[j] = "none"
      BY <2>3, LifeIs
    <3>2. Life(j)' = "over"
      BY <2>2, <3>1
    <3> QED
      BY <1>2, <3>1, <3>2, Moves
  <2>4. CASE jobs[j].state # "pending"
    <3>1. Life(j)' = Life(j)
      BY <1>4, <2>2, <2>4, LifeIs
    <3> QED
      BY <1>2, <3>1, Moves
  <2> QED
    BY <2>3, <2>4
<1> QED
  BY <1>3, <1>4

LEMMA WriteMoves ==
  ASSUME RecInv, NEW j \in Job, jobs[j].state # "unused",
         NEW state \in States \ {"unused", "pending"}, NEW result \in Results,
         Write(j, state, result), files' = files,
         \A k \in Job : Records(k)' <=> Records(k)
  PROVE  [Promised!GoesOn]_Lives
<1>1. CASE jobs' = Row(j, state, result)
  BY <1>1, ResultMoves
<1>2. CASE jobs' = jobs
  <2>1. ASSUME NEW k \in Job PROVE Life(k)' = Life(k)
    BY <1>2, LifeKept
  <2> QED
    BY <2>1, NoneChanges
<1> QED
  BY <1>1, <1>2 DEF Write, Written

(* The states and results that the frame loop and the user write.          *)
LEMMA ResultsAre ==
  /\ {"running", "completed", "failed", "removed", "cancelled"} \subseteq
       States \ {"unused", "pending"}
  /\ {"none", "given"} \subseteq Results
BY DEF States, Results, Settled, Live

LEMMA CancelMoves ==
  ASSUME RecInv, Given, Cancel
  PROVE  [Promised!GoesOn]_Lives
<1>1. files' = files
  BY DEF Cancel
<1>2. PICK j \in 1 .. used :
        IF recordingJob = j /\ Active
        THEN recorder' = [recorder EXCEPT !.stop = TRUE] /\ Write(j, "cancelled", "given")
        ELSE UNCHANGED recorder /\ jobs' = Row(j, "removed", "none")
  BY DEF Cancel, Written
<1>3. j \in Job /\ jobs[j].state # "unused"
  <2>1. used \in 0 .. MaxJobs /\ MaxJobs \in Nat
    BY RecordingAssumption DEF RecInv, TypeOK
  <2>2. j \in Job /\ j <= used
    BY <2>1 DEF Job
  <2> QED
    BY <2>2 DEF Given
<1>4. recorder'.at = recorder.at /\ recorder'.job = recorder.job
  <2>1. recorder \in RecorderState
    BY DEF RecInv, TypeOK
  <2>2. recorder' = [recorder EXCEPT !.stop = TRUE] \/ recorder' = recorder
    BY <1>2
  <2> QED
    BY <2>1, <2>2 DEF RecorderState
<1>5. \A k \in Job : Records(k)' <=> Records(k)
  BY <1>4 DEF Records, Active, Done
<1>6. Write(j, "cancelled", "given") \/ jobs' = Row(j, "removed", "none")
  BY <1>2
<1> QED
  BY <1>1, <1>3, <1>5, <1>6, ResultsAre, WriteMoves, ResultMoves

(* A recorder that has ended records nothing; its job's row gets the result. *)
LEMMA ConcludedMoves ==
  ASSUME RecInv, Done, ~Active', files' = files, Concluded(recorder.ok)
  PROVE  [Promised!GoesOn]_Lives
<1>1. recordingJob \in Job /\ jobs[recordingJob].state \in {"running", "cancelled"}
  BY NoJobIsNone DEF RecInv, TypeOK, Truth, RecorderHasItsJob, Active, Done
<1>2. \A k \in Job : Records(k)' <=> Records(k)
  BY DEF Records
<1>3. Write(recordingJob, "completed", "given") \/ Write(recordingJob, "failed", "given")
  BY DEF Concluded
<1> QED
  BY <1>1, <1>2, <1>3, ResultsAre, WriteMoves

LEMMA BeginMoves == ASSUME RecInv, Begin PROVE [Promised!GoesOn]_Lives
<1>1. files' = files
  BY DEF Begin
<1>2. CASE Done
  <2>1. recorder' = NoRecorder /\ Concluded(recorder.ok)
    BY <1>2 DEF Begin
  <2>2. ~Active'
    BY <2>1 DEF Active, NoRecorder
  <2> QED
    BY <1>1, <1>2, <2>1, <2>2, ConcludedMoves
<1>3. CASE ~Done
  <2>1. jobs' = jobs /\ recorder' = [recorder EXCEPT !.stop = @ \/ (locked /\ Active)]
    BY <1>3, Zenon DEF Begin
  <2>2. recorder'.job = recorder.job /\ recorder'.at = recorder.at
    BY <2>1 DEF RecInv, TypeOK, RecorderState
  <2> QED
    BY <1>1, <2>1, <2>2, SameLives
<1> QED
  BY <1>2, <1>3

LEMMA JoinedMoves == ASSUME RecInv, Joined PROVE [Promised!GoesOn]_Lives
<1>1. files' = files /\ recorder' = NoRecorder /\ (Active => Done) /\ KeepResult
  BY DEF Joined
<1>2. ~Active'
  BY <1>1 DEF Active, NoRecorder
<1>3. CASE recordingJob = NoJob
  <2>1. jobs' = jobs /\ ~Active
    BY <1>1, <1>3 DEF KeepResult, RecInv, Truth, RecorderHasItsJob
  <2>2. ASSUME NEW k \in Job PROVE Life(k)' = Life(k)
    <3>1. Records(k)' <=> Records(k)
      BY <1>2, <2>1 DEF Records
    <3> QED
      BY <1>1, <2>1, <3>1, LifeKept
  <2> QED
    BY <2>2, NoneChanges
<1>4. CASE recordingJob # NoJob
  <2>1. Done /\ Concluded(recorder.ok)
    BY <1>1, <1>4 DEF KeepResult, RecInv, Truth, RecorderHasItsJob
  <2> QED
    BY <1>1, <1>2, <2>1, ConcludedMoves
<1> QED
  BY <1>3, <1>4

(* The recorder begins with a job that waits, and there is none before it. *)
LEMMA StartMoves ==
  ASSUME RecInv, NEW j \in Job, jobs[j].state = "pending", ~Active, files' = files,
         jobs' = Row(j, "running", "none"),
         recorder'.at = "create", recorder'.job = j
  PROVE  [Promised!GoesOn]_Lives
<1>1. jobs'[j].state = "running" /\ \A k \in Job : k # j => jobs'[k] = jobs[k]
  BY ResultsAre, RowIs DEF RecInv
<1>2. \A k \in Job : ~Records(k) /\ (k # j => ~Records(k)')
  BY DEF Records
<1>3. ASSUME NEW k \in Job, k # j PROVE Life(k)' = Life(k)
  BY <1>1, <1>2, <1>3, LifeKept
<1>4. Life(j) = "waiting" /\ files[j] = "none" /\ \A k \in Job : Life(k) # "recording"
  BY <1>2, LifeIs
<1>5. Life(j)' = "recording"
  BY <1>1, <1>4 DEF Life, LifeIn, Table, Records, Active, Done
<1> QED
  BY <1>3, <1>4, <1>5, Moves

LEMMA HandleJobMoves == ASSUME RecInv, HandleJob PROVE [Promised!GoesOn]_Lives
<1>1. files' = files
  BY DEF HandleJob
<1>2. PICK j \in frame.due : Refuse(j) \/ Remind(j) \/ Conflict(j) \/ Record(j)
  BY DEF HandleJob
<1>3. j \in Job /\ jobs[j].state = "pending"
  BY DEF RecInv, TypeOK, FrameState, Framed
<1>4. CASE recorder' = recorder
  <2>1. \A k \in Job : Records(k)' <=> Records(k)
    BY <1>4 DEF Records, Active, Done
  <2>2. \/ jobs' = jobs \/ jobs' = Row(j, "running", "none")
        \/ \E state \in {"completed", "failed"}, result \in {"given"} :
             Write(j, state, result)
    BY <1>2 DEF Refuse, Remind, Conflict, Record, Written
  <2>3. CASE jobs' = jobs
    BY <1>1, <1>4, <2>3, SameLives
  <2>4. CASE jobs' = Row(j, "running", "none")
    BY <1>1, <1>3, <2>1, <2>4, ResultsAre, ResultMoves
  <2>5. ASSUME NEW state \in {"completed", "failed"}, NEW result \in {"given"},
               Write(j, state, result)
        PROVE  [Promised!GoesOn]_Lives
    BY <1>1, <1>3, <2>1, <2>5, ResultsAre, WriteMoves
  <2> QED
    BY <2>2, <2>3, <2>4, <2>5
<1>5. CASE recorder' # recorder
  <2>1. /\ ~Active /\ jobs' = Row(j, "running", "none")
        /\ recorder' = [NoRecorder EXCEPT !.at = "create", !.job = j, !.until = jobs[j].end]
    BY <1>2, <1>5 DEF Refuse, Remind, Conflict, Record, Written
  <2>2. recorder'.at = "create" /\ recorder'.job = j
    BY <2>1 DEF NoRecorder
  <2> QED
    BY <1>1, <1>3, <2>1, <2>2, StartMoves
<1> QED
  BY <1>4, <1>5

(* A restore gives every job the life that it has in the backup.           *)
Copies == {LivesIn(table) : table \in backups}

LEMMA RestoreMoves ==
  ASSUME RecInv, Kept, Restore
  PROVE  Lives' \in Copies /\ \A k \in Job : Lives[k] # "recording"
<1>1. PICK table \in backups :
        jobs' = Interrupted(table.jobs) /\ used' = table.used /\ files' = table.files
  BY DEF Restore
<1>2. recorder = NoRecorder /\ recorder' = NoRecorder
  BY DEF RecInv, Framed, Restore
<1>3. \A k \in Job : ~Records(k) /\ ~Records(k)'
  BY <1>2 DEF Records, Active, NoRecorder
<1>4. table.jobs \in [Job -> JobRow]
  BY DEF RecInv, TypeOK, Tables
<1>5. ASSUME NEW k \in Job PROVE Life(k)' = LifeIn(table, k, FALSE)
  <2>1. \/ jobs'[k] = table.jobs[k]
        \/ table.jobs[k].state = "running" /\ jobs'[k].state = "failed"
    BY <1>1, <1>4, InterruptedRows
  <2> QED
    BY <1>1, <1>3, <2>1 DEF Life, LifeIn, Table
<1>6. Lives' = LivesIn(table)
  BY <1>5 DEF Lives, LivesIn
<1>7. \A k \in Job : Lives[k] # "recording"
  BY <1>3, LifeIs DEF Lives
<1> QED
  BY <1>6, <1>7 DEF Copies

(* A backup is made while nothing is recorded, and keeps the lives.        *)
LEMMA BackupMoves ==
  ASSUME RecInv, Backup
  PROVE  /\ Lives' = Lives /\ Copies' = Copies \cup {Lives}
         /\ \A k \in Job : Lives[k] # "recording"
<1>1. recorder = NoRecorder /\ UNCHANGED <<jobs, used, files, recorder>>
  BY DEF RecInv, Framed, Backup
<1>2. \A k \in Job : Records(k) = FALSE /\ Records(k)' = FALSE
  BY <1>1 DEF Records, Active, NoRecorder
<1>3. ASSUME NEW k \in Job PROVE Life(k)' = Life(k)
  BY <1>1, <1>2, LifeKept
<1>4. \A k \in Job : Lives[k] # "recording"
  BY <1>2, LifeIs DEF Lives
<1>5. LivesIn(Table) = Lives
  BY <1>2 DEF Lives, LivesIn, Life
<1>6. backups' = backups \cup {Table}
  BY DEF Backup
<1>7. Copies' = {LivesIn(table) : table \in backups'}
  BY DEF Copies
<1>8. Copies' = Copies \cup {LivesIn(Table)}
  BY <1>6, <1>7 DEF Copies
<1> QED
  BY <1>3, <1>4, <1>5, <1>8, NoneChanges

LEMMA StepMoves ==
  ASSUME RecInv, Given, Kept, [Next]_vars
  PROVE  [Promised!Next]_<<Lives, Copies>>
<1>1. CASE Backup
  <2>1. Promised!Backup
    BY <1>1, BackupMoves DEF Promised!Backup, Promised!NoneRecorded, Copies
  <2> QED
    BY <2>1 DEF Promised!Next
<1>2. CASE Restore
  <2>1. backups' = backups
    BY <1>2 DEF Restore
  <2>2. Copies' = Copies
    BY <2>1 DEF Copies
  <2>3. Promised!Restore
    BY <1>2, <2>2, RestoreMoves DEF Promised!Restore, Promised!NoneRecorded, Copies
  <2> QED
    BY <2>3 DEF Promised!Next
<1>3. CASE ~Backup /\ ~Restore
  <2>1. [Promised!GoesOn]_Lives
    <3>1. CASE User
      BY <1>3, <3>1, ScheduleMoves, CancelMoves, UserMoves, OpenMoves, DieMoves DEF User
    <3>2. CASE Poll
      BY <3>2, BeginMoves, HandleJobMoves, JoinedMoves DEF Poll
    <3>3. CASE Thread \/ Tick
      BY <3>3, ThreadMoves, UserMoves DEF Thread
    <3>4. CASE UNCHANGED vars
      BY <3>4, SameLives DEF vars
    <3> QED
      BY <3>1, <3>2, <3>3, <3>4 DEF Next
  <2>2. backups' = backups
    BY <1>3, BackupsStay
  <2>3. Copies' = Copies
    BY <2>2 DEF Copies
  <2> QED
    BY <2>1, <2>3 DEF Promised!Next, Copies
<1> QED
  BY <1>1, <1>2, <1>3

(***************************************************************************)
(* A job that was accepted waits, is recorded at most once and with no     *)
(* other, and what is on the drive or over stays so, through refused       *)
(* writes, storage operations, kills and restarts, until a restore puts    *)
(* all jobs to where they were at a backup (poll_programme_jobs,           *)
(* close_for_storage, ProgrammeJobs::open, Recorder::run,                  *)
(* restore_settings).                                                      *)
(***************************************************************************)
THEOREM JobsImplemented == Spec => ImplementsJobs
<1>1. Init => Promised!Init
  <2> SUFFICES ASSUME Init PROVE Promised!Init
    OBVIOUS
  <2>1. \A j \in Job : jobs[j].state = "unused"
    BY DEF Init, NoRow
  <2>2. \A j \in Job : Life(j) = "none"
    BY <2>1 DEF Life, LifeIn, Table
  <2>3. \A j \in Job : LifeIn(NoTable, j, FALSE) = "none"
    BY DEF LifeIn, NoTable, NoRow
  <2>4. LivesIn(NoTable) = [j \in Job |-> "none"]
    BY <2>3 DEF LivesIn
  <2>5. {LivesIn(table) : table \in backups} = {[j \in Job |-> "none"]}
    BY <2>4 DEF Init
  <2> QED
    BY <2>2, <2>5 DEF Promised!Init, Promised!NoJobs, Lives
<1>2. RecInv /\ Given /\ Kept /\ [Next]_vars => [Promised!Next]_<<Lives, Copies>>
  BY StepMoves
<1> QED
  BY RecordingInvariant, <1>1, <1>2, PTL DEF Spec, ImplementsJobs, Promised!Spec, Copies
=============================================================================
