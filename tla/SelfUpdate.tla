---------------------------- MODULE SelfUpdate ----------------------------
(***************************************************************************)
(* The app replacing itself: the update sheet of the interface             *)
(* (opengl-ui/src/tv/update_sheet.cpp), the job's thread that downloads    *)
(* (ps5/src/update_kit/self_update.c), the connection of                   *)
(* self_update_protocol.h, and the helper program with its listening       *)
(* thread (ps5/update_helper/updater.cpp), which unpacks the release beside*)
(* the app and swaps the folders' entries once the app has closed.  The    *)
(* user may cancel, close the app and open it again at any time; either    *)
(* program may end.  Three faults are told apart, since some promises do   *)
(* not outlast them: an answer that comes too late, a rename of the undo   *)
(* that fails, and a helper killed in the middle of the swap.              *)
(***************************************************************************)
EXTENDS Naturals, Sequences

CONSTANTS
    Old,            \* the top-level entries of the installed app's folder
    New,            \* those of the release
    Param,          \* sce_sys, whose param.json declares the version
    MaxAttempts,    \* bound: times an update is begun
    Faults          \* those of "timeout", "undo" and "kill" that may happen

ASSUME UpdateAssumption ==
    /\ Param \in Old \cap New
    /\ MaxAttempts \in Nat
    /\ Faults \subseteq {"timeout", "undo", "kill"}

VARIABLES
    app,        \* the version that is running, or "off"
    stage,      \* UpdateSheet::stage_; "applying" inside update_apply()
    job,        \* self_update_job and where its thread is
    closes,     \* how often the app closed this attempt's socket
    link,       \* which ends of the connection are open
    up, down,   \* lines on their way to the helper, and to the app
    helper,     \* the helper: where run() is, and its Session
    target,     \* the installed folder: each entry's version, or "none"
    work,       \* the work folder: the archive, staged/ and backup/
    told,       \* what the user did or was told in this attempt
    attempts,
    harm        \* the faults that have happened

vars == <<app, stage, job, closes, link, up, down, helper, target, work, told,
          attempts, harm>>
folders == <<target, work>>
tally == <<attempts, harm>>
user == <<app, stage, told, tally>>

Entry == Old \cup New
Folder == [Entry -> {"none", "old", "new"}]
OldFolder == [e \in Entry |-> IF e \in Old THEN "old" ELSE "none"]
NewFolder == [e \in Entry |-> IF e \in New THEN "new" ELSE "old"]

EmptyWork == [archive |-> FALSE, staged |-> {}, backup |-> {}]
NoJob == [at |-> "none", phase |-> "idle", cancel |-> FALSE, open |-> FALSE]
NoHelper == [at |-> "off", apply |-> FALSE, cancelled |-> FALSE, listening |-> FALSE]

Swapping == {"aside", "place", "undo"}
Ended == {"off", "gone", "dead", "updated"}
HelperRuns == helper.at \notin Ended

Init ==
    /\ app = "old"
    /\ stage \in {"closed", "offer"}
    /\ job = NoJob
    /\ closes = 0
    /\ link = [app |-> FALSE, helper |-> FALSE]
    /\ up = <<>> /\ down = <<>>
    /\ helper = NoHelper
    /\ target = OldFolder
    /\ work = EmptyWork
    /\ told = [cancel |-> FALSE, failed |-> FALSE]
    /\ attempts = 0
    /\ harm = {}

Harmed(fault) == fault \in Faults /\ harm' = harm \cup {fault}
Unharmed == harm \cap {"undo", "kill"} = {}

-----------------------------------------------------------------------------
(* The job's thread, run_job() *)

(* stop(): it closes the socket after the lock is released, at "shut". *)
BadStopped(j) ==
    [j EXCEPT !.phase = IF j.cancel THEN "cancelled" ELSE "failed",
              !.at = IF j.open THEN "shut" ELSE "done"]

Stopped(j) ==
    [j EXCEPT !.phase = IF j.cancel THEN "cancelled" ELSE "failed",
              !.open = FALSE,
              !.at = IF j.open THEN "shut" ELSE "done"]

InPhase(j, phase) ==
    IF j.phase \in {"cancelled", "failed"} THEN j ELSE [j EXCEPT !.phase = phase]

JobFails == job' = Stopped(job) /\ UNCHANGED <<up, down>>

(* The loader starts the helper, or the connection is refused. *)
Connect ==
    /\ job.at = "connect"
    /\ \/ /\ job' = [job EXCEPT !.at = "request", !.open = TRUE]
          /\ link' = [app |-> TRUE, helper |-> TRUE]
          /\ helper' = [NoHelper EXCEPT !.at = "request"]
       \/ job' = Stopped(job) /\ UNCHANGED <<link, helper>>
    /\ UNCHANGED <<closes, up, down, folders, user>>

SendRequest ==
    /\ job.at = "request"
    /\ \/ job' = [job EXCEPT !.at = "answer"] /\ up' = Append(up, "request") /\ UNCHANGED down
       \/ JobFails
    /\ UNCHANGED <<closes, link, helper, folders, user>>

(* A read with no line: the connection ended, or 60 seconds of silence. *)
ReadAnswer ==
    /\ job.at = "answer"
    /\ \/ /\ down # <<>> /\ down' = Tail(down)
          /\ job' = IF Head(down) = "ready"
                    THEN [InPhase(job, "downloading") EXCEPT !.at = "download"]
                    ELSE Stopped(job)
          /\ UNCHANGED up
       \/ down = <<>> /\ JobFails
    /\ UNCHANGED <<closes, link, helper, folders, user>>

(* The download and its digest; a cancel is seen at every block. *)
Download ==
    /\ job.at = "download"
    /\ \/ job' = [job EXCEPT !.at = "end"] /\ UNCHANGED <<up, down>>
       \/ JobFails
    /\ UNCHANGED <<closes, link, helper, folders, user>>

SendEnd ==
    /\ job.at = "end"
    /\ \/ /\ ~job.cancel
          /\ job' = [InPhase(job, "unpacking") EXCEPT !.at = "check"]
          /\ up' = Append(up, "end") /\ UNCHANGED down
       \/ JobFails
    /\ UNCHANGED <<closes, link, helper, folders, user>>

(* The head of the loop over the helper's reports. *)
CheckCancel ==
    /\ job.at = "check"
    /\ IF job.cancel
       THEN job' = Stopped(job) /\ up' = Append(up, "cancel")
       ELSE job' = [job EXCEPT !.at = "read"] /\ UNCHANGED up
    /\ UNCHANGED <<closes, link, down, helper, folders, user>>

ReadReport ==
    /\ job.at = "read"
    /\ \/ /\ down # <<>> /\ down' = Tail(down)
          /\ job' = CASE Head(down) = "p" -> [job EXCEPT !.at = "check"]
                      [] Head(down) = "staged" -> [job EXCEPT !.at = "last"]
                      [] OTHER -> Stopped(job)
          /\ UNCHANGED up
       \/ down = <<>> /\ JobFails
    /\ UNCHANGED <<closes, link, helper, folders, user>>

LastCheck ==
    /\ job.at = "last"
    /\ job' = IF job.cancel THEN Stopped(job) ELSE [job EXCEPT !.at = "ready"]
    /\ UNCHANGED <<closes, link, up, down, helper, folders, user>>

SetReady ==
    /\ job.at = "ready"
    /\ job' = [InPhase(job, "ready") EXCEPT !.at = "done"]
    /\ UNCHANGED <<closes, link, up, down, helper, folders, user>>

Shut ==
    /\ job.at = "shut"
    /\ job' = [job EXCEPT !.at = "done"]
    /\ closes' = closes + 1
    /\ link' = [link EXCEPT !.app = FALSE]
    /\ UNCHANGED <<up, down, helper, folders, user>>

JobStep ==
    \/ Connect \/ SendRequest \/ ReadAnswer \/ Download \/ SendEnd
    \/ CheckCancel \/ ReadReport \/ LastCheck \/ SetReady \/ Shut

-----------------------------------------------------------------------------
(* The sheet, on the frame loop; update_begin() to update_finish() *)

(* begin(): the job starts on its thread, or fail().  A helper of an       *)
(* earlier attempt has ended by then. *)
Begin ==
    /\ stage \in {"offer", "failed"}
    /\ attempts < MaxAttempts
    /\ ~HelperRuns
    /\ \/ /\ stage' = "working"
          /\ job' = [NoJob EXCEPT !.at = "connect", !.phase = "starting"]
          /\ closes' = 0
          /\ link' = [app |-> FALSE, helper |-> FALSE]
          /\ told' = [cancel |-> FALSE, failed |-> FALSE]
          /\ attempts' = attempts + 1
          /\ helper' = NoHelper
          /\ up' = <<>> /\ down' = <<>>
       \/ /\ stage' = "failed"
          /\ UNCHANGED <<job, closes, link, up, down, helper, told, attempts>>
    /\ UNCHANGED <<app, folders, harm>>

CloseSheet ==
    /\ stage \in {"offer", "failed"}
    /\ stage' = "closed"
    /\ UNCHANGED <<app, job, closes, link, up, down, helper, folders, told, tally>>

(* self_update_cancel() *)
Cancel ==
    LET waits == job.phase = "ready" IN
    /\ job' = IF job.phase \in {"applying", "failed"} THEN job
              ELSE [job EXCEPT !.cancel = TRUE,
                               !.phase = IF waits THEN "cancelled" ELSE @,
                               !.open = IF waits THEN FALSE ELSE @]
    /\ IF waits /\ job.open
       THEN /\ up' = Append(up, "cancel")
            /\ closes' = closes + 1
            /\ link' = [link EXCEPT !.app = FALSE]
       ELSE UNCHANGED <<up, closes, link>>

PressCancel ==
    /\ stage = "working"
    /\ Cancel
    /\ stage' = "cancelling"
    /\ told' = [told EXCEPT !.cancel = TRUE]
    /\ UNCHANGED <<app, down, helper, folders, tally>>

(* self_update_finish() joins the thread; a socket still open is closed. *)
Finish(j) ==
    LET closing == j.open /\ j.phase # "applying" IN
    /\ j.at = "done"
    /\ job' = [j EXCEPT !.at = "none", !.open = j.open /\ ~closing]
    /\ closes' = IF closing THEN closes + 1 ELSE closes
    /\ link' = [link EXCEPT !.app = @ /\ ~closing]

(* update() sees the cancel that the thread came too late to notice. *)
BadReadyCancelling == FALSE /\ UNCHANGED vars

ReadyCancelling ==
    /\ stage = "cancelling" /\ job.phase = "ready"
    /\ Cancel
    /\ UNCHANGED <<down, helper, folders, user>>

(* fail() after update_apply() returned false: stop(), then finish. *)
ApplyFails ==
    /\ stage' = "failed"
    /\ told' = [told EXCEPT !.failed = TRUE]
    /\ job' = [job EXCEPT !.phase = IF job.cancel THEN "cancelled" ELSE "failed",
                          !.open = FALSE, !.at = "none"]
    /\ link' = [link EXCEPT !.app = FALSE]
    /\ closes' = closes + 1

(* self_update_apply(): the line is sent, and the answer awaited. *)
BadApplyAnyStage ==
    /\ stage \in {"working", "cancelling"} /\ job.phase = "ready" /\ job.open
    /\ up' = Append(up, "apply") /\ stage' = "applying"
    /\ UNCHANGED <<job, closes, link, told, app, down, helper, folders, tally>>

ApplySends ==
    /\ stage = "working" /\ job.phase = "ready" /\ job.open
    /\ \/ /\ up' = Append(up, "apply") /\ stage' = "applying"
          /\ UNCHANGED <<job, closes, link, told>>
       \/ ~link.helper /\ ApplyFails /\ UNCHANGED up
    /\ UNCHANGED <<app, down, helper, folders, tally>>

BadApplyAnswered ==
    /\ stage = "applying" /\ down # <<>> /\ ApplyFails
    /\ down' = Tail(down)
    /\ UNCHANGED <<app, up, helper, folders, tally>>

ApplyAnswered ==
    /\ stage = "applying"
    /\ \/ /\ down # <<>> /\ Head(down) = "applying"
          /\ stage' = "closing"
          /\ job' = InPhase(job, "applying")
          /\ down' = Tail(down)
          /\ UNCHANGED <<closes, link, told>>
       \/ /\ down # <<>> /\ Head(down) # "applying"
          /\ ApplyFails /\ down' = Tail(down)
       \/ /\ down = <<>> /\ ~link.helper
          /\ ApplyFails /\ UNCHANGED down
    /\ UNCHANGED <<app, up, helper, folders, tally>>

(* Sixty seconds without an answer. *)
AnswerLate ==
    /\ stage = "applying" /\ down = <<>>
    /\ ApplyFails /\ Harmed("timeout")
    /\ UNCHANGED <<app, up, down, helper, folders, attempts>>

SeesFailed ==
    /\ stage \in {"working", "cancelling"} /\ job.phase = "failed"
    /\ Finish(job)
    /\ IF stage = "working"
       THEN stage' = "failed" /\ told' = [told EXCEPT !.failed = TRUE]
       ELSE stage' = "closed" /\ UNCHANGED told
    /\ UNCHANGED <<app, up, down, helper, folders, tally>>

SeesCancelled ==
    /\ stage \in {"working", "cancelling"} /\ job.phase = "cancelled"
    /\ Finish(job)
    /\ stage' = "closed"
    /\ UNCHANGED <<app, up, down, helper, folders, told, tally>>

Poll == ReadyCancelling \/ ApplySends \/ ApplyAnswered \/ AnswerLate
        \/ SeesFailed \/ SeesCancelled

(* The app closes: after "closing", or by the user or a fault. *)
AppCloses ==
    /\ app # "off"
    /\ app' = "off" /\ stage' = "closed"
    /\ job' = NoJob
    /\ link' = [link EXCEPT !.app = FALSE]
    /\ UNCHANGED <<closes, up, down, helper, folders, told, tally>>

(* It is opened again; its check may find the newer release. *)
AppOpens ==
    /\ app = "off" /\ target[Param] # "none"
    /\ app' = target[Param]
    /\ stage' \in IF app' = "old" THEN {"closed", "offer"} ELSE {"closed"}
    /\ UNCHANGED <<job, closes, link, up, down, helper, folders, told, tally>>

-----------------------------------------------------------------------------
(* The helper's thread, run().  What the app sent may be lost with its end *)
(* of the connection. *)

Goes(at) == helper' = [helper EXCEPT !.at = at]

(* The process ends after clean(), with a last line if there is one. *)
Leaves(at) ==
    /\ helper' = [helper EXCEPT !.at = at, !.listening = FALSE]
    /\ link' = [link EXCEPT !.helper = FALSE]
    /\ work' = EmptyWork

(* fail(), silent after a cancel *)
Fails ==
    /\ Leaves("gone")
    /\ down' = IF helper.cancelled THEN down ELSE Append(down, "fail")

HRequest ==
    /\ helper.at = "request"
    /\ \/ /\ up # <<>> /\ Head(up) = "request" /\ up' = Tail(up)
          /\ Goes("make") /\ UNCHANGED link
       \/ /\ ~link.app
          /\ helper' = [helper EXCEPT !.at = "gone"]
          /\ link' = [link EXCEPT !.helper = FALSE] /\ UNCHANGED up
    /\ UNCHANGED <<job, closes, down, folders, user>>

(* The request is refused before the work folder is touched, if only       *)
(* because the installed folder is not the version that asked; or the      *)
(* folder is made anew, with an empty archive for the download. *)
BadMakeAnyVersion ==
    /\ helper.at = "make"
    /\ Goes("receive") /\ down' = Append(down, "ready")
    /\ work' = [EmptyWork EXCEPT !.archive = TRUE]
    /\ UNCHANGED <<job, closes, link, up, target, user>>

HMake ==
    /\ helper.at = "make"
    /\ \/ /\ helper' = [helper EXCEPT !.at = "gone"]
          /\ link' = [link EXCEPT !.helper = FALSE]
          /\ down' = Append(down, "fail") /\ UNCHANGED work
       \/ /\ target[Param] = "old"
          /\ Fails
       \/ /\ target[Param] = "old"
          /\ Goes("receive") /\ down' = Append(down, "ready")
          /\ work' = [EmptyWork EXCEPT !.archive = TRUE] /\ UNCHANGED link
       \/ /\ target[Param] = "old" /\ ~link.app     \* "ready" was not sent
          /\ Leaves("gone") /\ UNCHANGED down
    /\ UNCHANGED <<job, closes, up, target, user>>

(* receive_archive(), and the listener is started *)
HReceive ==
    /\ helper.at = "receive"
    /\ \/ /\ up # <<>> /\ Head(up) = "end" /\ up' = Tail(up)
          /\ helper' = [helper EXCEPT !.at = "unpack", !.listening = TRUE]
          /\ UNCHANGED <<link, down, work>>
       \/ Fails /\ UNCHANGED up                     \* not saved, not as listed
       \/ ~link.app /\ Leaves("gone") /\ UNCHANGED <<up, down>>
    /\ UNCHANGED <<job, closes, target, user>>

BadListenEnds ==
    /\ helper.listening
    /\ \/ /\ up # <<>> /\ up' = Tail(up)
          /\ helper' = IF Head(up) = "apply" THEN [helper EXCEPT !.apply = TRUE]
                       ELSE [helper EXCEPT !.cancelled = @ \/ ~helper.apply]
       \/ /\ ~link.app /\ helper' = [helper EXCEPT !.listening = FALSE]
          /\ UNCHANGED up
    /\ UNCHANGED <<job, closes, link, down, folders, user>>

(* listen(): after "apply" a cancel or the end of the connection is only   *)
(* the app leaving. *)
Listen ==
    /\ helper.listening
    /\ \/ /\ up # <<>> /\ up' = Tail(up)
          /\ helper' = IF Head(up) = "apply" THEN [helper EXCEPT !.apply = TRUE]
                       ELSE [helper EXCEPT !.cancelled = @ \/ ~helper.apply]
       \/ /\ ~link.app
          /\ helper' = [helper EXCEPT !.cancelled = @ \/ ~helper.apply,
                                      !.listening = FALSE]
          /\ UNCHANGED up
    /\ UNCHANGED <<job, closes, link, down, folders, user>>

(* report(); one unread report at a time is enough for the app. *)
Report ==
    /\ helper.at = "unpack" /\ link.app /\ down = <<>>
    /\ down' = Append(down, "p")
    /\ UNCHANGED <<job, closes, link, up, helper, folders, user>>

(* inspect_archive() and extract_archive(), which a cancel stops *)
HUnpack ==
    /\ helper.at = "unpack"
    /\ \/ /\ Goes("prepare")
          /\ work' = [work EXCEPT !.archive = FALSE, !.staged = New]
          /\ UNCHANGED <<link, down>>
       \/ Fails
    /\ UNCHANGED <<job, closes, up, target, user>>

(* Permissions, the staged version, and "staged" *)
HPrepare ==
    /\ helper.at = "prepare"
    /\ \/ Goes("hold") /\ down' = Append(down, "staged") /\ UNCHANGED <<link, work>>
       \/ Fails
       \/ ~link.app /\ Leaves("gone") /\ UNCHANGED down
    /\ UNCHANGED <<job, closes, up, target, user>>

HHold ==
    /\ helper.at = "hold"
    /\ \/ /\ helper.apply
          /\ Goes("await") /\ down' = Append(down, "applying")
          /\ UNCHANGED <<link, work>>
       \/ /\ ~helper.apply /\ helper.cancelled
          /\ Leaves("gone") /\ UNCHANGED down
    /\ UNCHANGED <<job, closes, up, target, user>>

(* title_running() until the app has closed, for at most 120 s *)
HAwait ==
    /\ helper.at = "await"
    /\ \/ app = "off" /\ Goes("settle") /\ UNCHANGED <<link, work>>
       \/ app # "off" /\ Leaves("gone")
    /\ UNCHANGED <<job, closes, up, down, target, user>>

(* The pause, and the start of swap_entries(), which makes backup/ *)
HSettle ==
    /\ helper.at = "settle"
    /\ \/ Goes("aside") /\ UNCHANGED <<link, work>>
       \/ Leaves("gone")
    /\ UNCHANGED <<job, closes, up, down, target, user>>

(* One of the entries the release replaces is renamed into backup/. *)
BadAsideNothing ==
    /\ helper.at = "aside" /\ Goes("place")
    /\ UNCHANGED <<job, closes, link, up, down, folders, user>>

HAside ==
    /\ helper.at = "aside"
    /\ \/ \E e \in New :
            /\ target[e] = "old"
            /\ target' = [target EXCEPT ![e] = "none"]
            /\ work' = [work EXCEPT !.backup = @ \cup {e}]
            /\ UNCHANGED helper
       \/ (\E e \in New : target[e] = "old") /\ Goes("undo") /\ UNCHANGED folders
       \/ (\A e \in New : target[e] # "old") /\ Goes("place") /\ UNCHANGED folders
    /\ UNCHANGED <<job, closes, link, up, down, user>>

(* One new entry is renamed into place; after the last the work is done. *)
BadPlaceNoUndo ==
    /\ helper.at = "place"
    /\ \/ \E e \in work.staged :
            /\ target' = [target EXCEPT ![e] = "new"]
            /\ work' = [work EXCEPT !.staged = @ \ {e}]
            /\ UNCHANGED <<link, helper>>
       \/ work.staged # {} /\ Leaves("gone") /\ UNCHANGED target
       \/ work.staged = {} /\ Leaves("updated") /\ UNCHANGED target
    /\ UNCHANGED <<job, closes, up, down, user>>

HPlace ==
    /\ helper.at = "place"
    /\ \/ \E e \in work.staged :
            /\ target' = [target EXCEPT ![e] = "new"]
            /\ work' = [work EXCEPT !.staged = @ \ {e}]
            /\ UNCHANGED <<link, helper>>
       \/ work.staged # {} /\ Goes("undo") /\ UNCHANGED <<link, folders>>
       \/ work.staged = {} /\ Leaves("updated") /\ UNCHANGED target
    /\ UNCHANGED <<job, closes, up, down, user>>

(* No new entry is in the way, but for one whose rename failed. *)
NewOut == "undo" \in harm \/ \A n \in New : target[n] # "new"

(* Back to how it was: the new entries first, then the old ones.  A rename *)
(* that fails is passed over, and what it left behind is deleted with the  *)
(* work folder. *)
HUndo ==
    /\ helper.at = "undo"
    /\ \/ \E e \in New :
            /\ target[e] = "new"
            /\ target' = [target EXCEPT ![e] = "none"]
            /\ work' = [work EXCEPT !.staged = @ \cup {e}]
            /\ UNCHANGED <<link, helper>>
       \/ \E e \in work.backup :
            /\ NewOut
            /\ target' = [target EXCEPT ![e] = "old"]
            /\ work' = [work EXCEPT !.backup = @ \ {e}]
            /\ UNCHANGED <<link, helper>>
       \/ work.backup = {} /\ NewOut /\ Leaves("gone") /\ UNCHANGED target
    /\ UNCHANGED <<job, closes, up, down, user>>

UndoFails ==
    /\ helper.at = "undo" /\ Harmed("undo")
    /\ \/ (\E e \in New : target[e] = "new") /\ UNCHANGED work
       \/ NewOut /\ \E e \in work.backup : work' = [work EXCEPT !.backup = @ \ {e}]
    /\ UNCHANGED <<job, closes, link, up, down, helper, target, app, stage, told, attempts>>

(* The helper is killed; it leaves its work folder behind. *)
HelperDies ==
    /\ HelperRuns
    /\ IF helper.at \in Swapping THEN Harmed("kill") ELSE UNCHANGED harm
    /\ helper' = [helper EXCEPT !.at = "dead", !.listening = FALSE]
    /\ link' = [link EXCEPT !.helper = FALSE]
    /\ UNCHANGED <<job, closes, up, down, folders, app, stage, told, attempts>>

HelperStep ==
    \/ HRequest \/ HMake \/ HReceive \/ HUnpack \/ HPrepare \/ HHold \/ HAwait
    \/ HSettle \/ HAside \/ HPlace \/ HUndo

-----------------------------------------------------------------------------
Next ==
    \/ JobStep
    \/ Begin \/ CloseSheet \/ PressCancel \/ Poll
    \/ AppCloses \/ AppOpens
    \/ HelperStep \/ Listen \/ Report \/ UndoFails \/ HelperDies

(* The threads run, and the frame loop polls on every frame.  What the user*)
(* does and what goes wrong is owed to nobody. *)
Fairness ==
    /\ WF_vars(JobStep)
    /\ WF_vars(Poll)
    /\ WF_vars(HelperStep)
    /\ WF_vars(Listen)

Spec == Init /\ [][Next]_vars /\ Fairness

-----------------------------------------------------------------------------
ToHelper == {"request", "end", "apply", "cancel"}
ToApp == {"ready", "fail", "p", "staged", "applying"}

(* The types of the variables; of the old version only the entries the     *)
(* release replaces are moved aside, the owner's other ones never are. *)
TypeOK ==
    /\ app \in {"off", "old", "new"}
    /\ stage \in {"closed", "offer", "working", "cancelling", "applying", "failed", "closing"}
    /\ job \in [at : {"none", "connect", "request", "answer", "download", "end", "check",
                      "read", "last", "ready", "shut", "done"},
                phase : {"idle", "starting", "downloading", "unpacking", "ready",
                         "applying", "cancelled", "failed"},
                cancel : BOOLEAN, open : BOOLEAN]
    /\ closes \in Nat
    /\ link \in [app : BOOLEAN, helper : BOOLEAN]
    /\ up \in Seq(ToHelper) /\ down \in Seq(ToApp)
    /\ helper \in [at : {"request", "make", "receive", "unpack", "prepare", "hold",
                         "await", "settle"} \cup Swapping \cup Ended,
                   apply : BOOLEAN, cancelled : BOOLEAN, listening : BOOLEAN]
    /\ target \in Folder
    /\ work \in [archive : BOOLEAN, staged : SUBSET New, backup : SUBSET (Old \cap New)]
    /\ told \in [cancel : BOOLEAN, failed : BOOLEAN]
    /\ attempts \in 0 .. MaxAttempts
    /\ harm \subseteq Faults

(* Whenever no swap is under way the installed folder is one whole version:*)
(* the old one as it was, or the new one with the owner's other entries    *)
(* (swap_entries, whose renames may fail at any entry), provided the undo's *)
(* renames work and the helper was not killed in the middle. *)
TargetWhole ==
    Unharmed /\ helper.at \notin Swapping => target \in {OldFolder, NewFolder}

(* At every moment of a swap an entry of the old version is in place or in *)
(* backup/, until the whole new version is in place: clean(), which empties*)
(* the work folder, never removes the only copy, under the same proviso. *)
OldEntriesKept ==
    \/ ~Unharmed
    \/ \A e \in Old : target[e] = "old" \/ e \in work.backup
    \/ work.staged = {} /\ target = NewFolder

(* Once the user has asked to cancel, the helper never replaces a file,    *)
(* whichever of the two threads was where: the thread's last look at       *)
(* "cancel" may come before the user's press and its READY after it. *)
CancelRespected == told.cancel => helper.at \notin Swapping \cup {"updated"}

(* After "failed" is shown the app's files are not replaced ("failed,      *)
(* error says why; nothing was changed", tv/platform.hpp), unless the      *)
(* helper's answer came too late. *)
FailedChangesNothing ==
    told.failed /\ "timeout" \notin harm => helper.at \notin Swapping \cup {"updated"}

(* The socket is closed once, by the thread, the cancel or the failed      *)
(* apply, and none is left open when an attempt that did not apply is over:*)
(* a second close would close whatever was opened under the same number. *)
ClosedOnce ==
    /\ closes <= 1
    /\ job.at = "none" /\ stage \in {"failed", "closed"} => ~link.app

(* swap_entries touches the files of a closed app only ("Only a closed app *)
(* is touched", updater.cpp:664). *)
OnlyClosedAppTouched == helper.at \in Swapping => app = "off"

(* The update as AppUpdate promises it.  The version changes with the last *)
(* entry's rename into place; before it the renames can be undone. *)
Version ==
    IF ~Unharmed THEN "unknown" ELSE IF target = NewFolder THEN "new" ELSE "old"
Replaced == helper.at \in {"place", "updated"} /\ target = NewFolder
Outcome ==
    IF harm # {} THEN "unknown"
    ELSE IF told.cancel THEN "cancelled"
    ELSE IF told.failed THEN "failed"
    ELSE IF Replaced THEN "replaced" ELSE "undecided"
Update == INSTANCE AppUpdate WITH version <- Version, outcome <- Outcome

(* The two programs, their threads and the folders' renames do, from one   *)
(* attempt to the next, what AppUpdate says (begin, finish and apply of    *)
(* update_sheet.cpp, run() and swap_entries of updater.cpp). *)
ImplementsUpdate == Update!Spec

(* An update at work, cancelled or not, comes to an end the user sees. *)
AttemptEnds ==
    stage \in {"working", "cancelling", "applying"}
        ~> stage \in {"failed", "closed", "closing"}

(* A helper whose app is gone or has given up ends. *)
HelperEnds == HelperRuns /\ ~link.app ~> ~HelperRuns
=============================================================================
