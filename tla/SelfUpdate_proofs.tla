------------------------- MODULE SelfUpdate_proofs -------------------------
(***************************************************************************)
(* Proofs about SelfUpdate, for any entries of the two versions and any    *)
(* number of attempts: type correctness, that the socket is closed once,   *)
(* that a cancelled update never replaces a file, that the installed       *)
(* folder is a whole version whenever no swap is under way, and that an    *)
(* entry's only copy is never removed, the last two unless a rename of the *)
(* undo fails or the helper is killed in the swap; that an attempt shown   *)
(* as failed replaces nothing; and that it all amounts to AppUpdate.       *)
(***************************************************************************)
EXTENDS SelfUpdate, TLAPS, SequenceTheorems

JobPlace == {"none", "connect", "request", "answer", "download", "end", "check",
             "read", "last", "ready", "shut", "done"}
JobPhase == {"idle", "starting", "downloading", "unpacking", "ready",
             "applying", "cancelled", "failed"}
HelperPlace == {"request", "make", "receive", "unpack", "prepare", "hold",
                "await", "settle"} \cup Swapping \cup Ended
Jobs == [at : JobPlace, phase : JobPhase, cancel : BOOLEAN, open : BOOLEAN]
Links == [app : BOOLEAN, helper : BOOLEAN]
Helpers == [at : HelperPlace, apply : BOOLEAN, cancelled : BOOLEAN, listening : BOOLEAN]
Works == [archive : BOOLEAN, staged : SUBSET New, backup : SUBSET (Old \cap New)]

(* The parts of TypeOK. *)
JobType == job \in Jobs
CloseType == closes \in Nat
LinkType == link \in Links
LineType == up \in Seq(ToHelper) /\ down \in Seq(ToApp)
HelperType == helper \in Helpers
FolderType == target \in Folder /\ work \in Works
(* Only the old version's entries are old. *)
Origin == \A e \in Entry : target[e] = "old" => e \in Old
UserType ==
    /\ app \in {"off", "old", "new"}
    /\ stage \in {"closed", "offer", "working", "cancelling", "applying", "failed", "closing"}
    /\ told \in [cancel : BOOLEAN, failed : BOOLEAN]
AttemptType == attempts \in 0 .. MaxAttempts /\ harm \subseteq Faults

LEMMA TypeParts == TypeOK <=> /\ JobType /\ CloseType /\ LinkType /\ LineType
                           /\ HelperType /\ FolderType /\ UserType /\ AttemptType
BY DEF TypeOK, JobType, CloseType, LinkType, LineType, HelperType, FolderType, UserType,
       AttemptType, Jobs, Links, Helpers, Works, JobPlace, JobPhase, HelperPlace

LEMMA Places ==
    /\ "none" \in JobPlace
    /\ "connect" \in JobPlace
    /\ "request" \in JobPlace
    /\ "answer" \in JobPlace
    /\ "download" \in JobPlace
    /\ "end" \in JobPlace
    /\ "check" \in JobPlace
    /\ "read" \in JobPlace
    /\ "last" \in JobPlace
    /\ "ready" \in JobPlace
    /\ "shut" \in JobPlace
    /\ "done" \in JobPlace
    /\ "idle" \in JobPhase
    /\ "starting" \in JobPhase
    /\ "downloading" \in JobPhase
    /\ "unpacking" \in JobPhase
    /\ "ready" \in JobPhase
    /\ "applying" \in JobPhase
    /\ "cancelled" \in JobPhase
    /\ "failed" \in JobPhase
    /\ "off" \in HelperPlace
    /\ "request" \in HelperPlace
    /\ "make" \in HelperPlace
    /\ "receive" \in HelperPlace
    /\ "unpack" \in HelperPlace
    /\ "prepare" \in HelperPlace
    /\ "hold" \in HelperPlace
    /\ "await" \in HelperPlace
    /\ "settle" \in HelperPlace
    /\ "aside" \in HelperPlace
    /\ "place" \in HelperPlace
    /\ "undo" \in HelperPlace
    /\ "gone" \in HelperPlace
    /\ "dead" \in HelperPlace
    /\ "updated" \in HelperPlace
BY DEF JobPlace, JobPhase, HelperPlace, Swapping, Ended

(* One step, as the proofs below split it. *)
LEMMA StepCases ==
    ASSUME Next
    PROVE  \/ Connect \/ SendRequest \/ ReadAnswer \/ Download \/ SendEnd
           \/ CheckCancel \/ ReadReport \/ LastCheck \/ SetReady \/ Shut
           \/ Begin \/ CloseSheet \/ PressCancel
           \/ ReadyCancelling \/ ApplySends \/ ApplyAnswered \/ AnswerLate
           \/ SeesFailed \/ SeesCancelled
           \/ AppCloses \/ AppOpens
           \/ HRequest \/ HMake \/ HReceive \/ HUnpack \/ HPrepare \/ HHold \/ HAwait
           \/ HSettle \/ HAside \/ HPlace \/ HUndo
           \/ Listen \/ Report \/ UndoFails \/ HelperDies
BY DEF Next, JobStep, Poll, HelperStep

-----------------------------------------------------------------------------
(* Types *)

LEMMA JobOperators ==
    ASSUME NEW j \in Jobs
    PROVE  /\ Stopped(j) \in Jobs
           /\ \A p \in JobPhase : InPhase(j, p) \in Jobs
           /\ \A a \in JobPlace : [j EXCEPT !.at = a] \in Jobs
           /\ [j EXCEPT !.at = "request", !.open = TRUE] \in Jobs
           /\ [j EXCEPT !.phase = IF j.cancel THEN "cancelled" ELSE "failed",
                        !.open = FALSE, !.at = "none"] \in Jobs
<1>1. Stopped(j) \in Jobs
  BY Places DEF Jobs, Stopped
<1>2. \A p \in JobPhase : InPhase(j, p) \in Jobs
  BY DEF Jobs, InPhase
<1>3. \A a \in JobPlace : [j EXCEPT !.at = a] \in Jobs
  BY DEF Jobs
<1>4. [j EXCEPT !.at = "request", !.open = TRUE] \in Jobs
  BY Places DEF Jobs
<1>5. [j EXCEPT !.phase = IF j.cancel THEN "cancelled" ELSE "failed",
                !.open = FALSE, !.at = "none"] \in Jobs
  BY Places DEF Jobs
<1> QED
  BY <1>1, <1>2, <1>3, <1>4, <1>5

LEMMA InitialRecords ==
    /\ NoJob \in Jobs
    /\ [NoJob EXCEPT !.at = "connect", !.phase = "starting"] \in Jobs
    /\ NoHelper \in Helpers
    /\ [NoHelper EXCEPT !.at = "request"] \in Helpers
    /\ EmptyWork \in Works
    /\ [EmptyWork EXCEPT !.archive = TRUE] \in Works
BY Places DEF NoJob, NoHelper, EmptyWork, Jobs, Helpers, Works

LEMMA LinkOperators ==
    ASSUME NEW l \in Links
    PROVE  /\ [l EXCEPT !.app = FALSE] \in Links
           /\ [l EXCEPT !.helper = FALSE] \in Links
BY DEF Links

LEMMA LinkRecords ==
    /\ [app |-> TRUE, helper |-> TRUE] \in Links
    /\ [app |-> FALSE, helper |-> FALSE] \in Links
BY DEF Links

LEMMA FolderOperators ==
    ASSUME FolderType
    PROVE  /\ \A e \in New, v \in {"none", "old", "new"} :
                 [target EXCEPT ![e] = v] \in Folder
           /\ \A e \in New : [work EXCEPT !.staged = @ \cup {e}] \in Works
           /\ \A e : [work EXCEPT !.staged = @ \ {e}] \in Works
           /\ \A e : [work EXCEPT !.backup = @ \ {e}] \in Works
           /\ \A e \in Old \cap New : [work EXCEPT !.backup = @ \cup {e}] \in Works
           /\ [work EXCEPT !.archive = FALSE, !.staged = New] \in Works
           /\ work.staged \subseteq New /\ work.backup \subseteq New
BY DEF FolderType, Folder, Entry, Works

LEMMA LineSteps ==
    ASSUME NEW S, NEW s \in Seq(S)
    PROVE  /\ \A m \in S : Append(s, m) \in Seq(S)
           /\ s # <<>> => Tail(s) \in Seq(S) /\ Head(s) \in S
           /\ <<>> \in Seq(S)
BY HeadTailProperties, AppendProperties, EmptySeq

LEMMA Lines ==
    ASSUME LineType
    PROVE  /\ \A m \in {"request", "end", "apply", "cancel"} : Append(up, m) \in Seq(ToHelper)
           /\ \A m \in {"ready", "fail", "p", "staged", "applying"} :
                 Append(down, m) \in Seq(ToApp)
           /\ up # <<>> => Tail(up) \in Seq(ToHelper)
           /\ down # <<>> => Tail(down) \in Seq(ToApp)
           /\ <<>> \in Seq(ToHelper) /\ <<>> \in Seq(ToApp)
BY LineSteps DEF LineType, ToHelper, ToApp

LEMMA JobTypeStep == JobType /\ [Next]_vars => JobType'
<1> SUFFICES ASSUME JobType, [Next]_vars PROVE JobType'
  OBVIOUS
<1> USE DEF JobType
<1>1. CASE Connect
  BY <1>1, Places, JobOperators DEF Connect
<1>2. CASE SendRequest
  BY <1>2, Places, JobOperators DEF SendRequest, JobFails
<1>3. CASE ReadAnswer
  <2>1. InPhase(job, "downloading") \in Jobs
    BY Places, JobOperators
  <2>2. [InPhase(job, "downloading") EXCEPT !.at = "download"] \in Jobs
    BY <2>1, Places, JobOperators
  <2> QED
    BY <1>3, <2>2, JobOperators DEF ReadAnswer, JobFails
<1>4. CASE Download
  BY <1>4, Places, JobOperators DEF Download, JobFails
<1>5. CASE SendEnd
  <2>1. InPhase(job, "unpacking") \in Jobs
    BY Places, JobOperators
  <2>2. [InPhase(job, "unpacking") EXCEPT !.at = "check"] \in Jobs
    BY <2>1, Places, JobOperators
  <2> QED
    BY <1>5, <2>2, JobOperators DEF SendEnd, JobFails
<1>6. CASE CheckCancel
  BY <1>6, Places, JobOperators DEF CheckCancel
<1>7. CASE ReadReport
  BY <1>7, Places, JobOperators DEF ReadReport, JobFails
<1>8. CASE LastCheck
  BY <1>8, Places, JobOperators DEF LastCheck
<1>9. CASE SetReady
  BY <1>9, Places, JobOperators DEF SetReady
<1>10. CASE Shut
  BY <1>10, Places, JobOperators DEF Shut
<1>11. CASE Begin
  BY <1>11, InitialRecords DEF Begin
<1>12. CASE PressCancel
  BY <1>12, Places, JobOperators DEF PressCancel, Cancel, Jobs
<1>13. CASE ReadyCancelling
  BY <1>13, Places, JobOperators DEF ReadyCancelling, Cancel, Jobs
<1>14. CASE ApplySends
  BY <1>14, Places, JobOperators DEF ApplySends, ApplyFails
<1>15. CASE ApplyAnswered
  BY <1>15, Places, JobOperators DEF ApplyAnswered, ApplyFails
<1>16. CASE AnswerLate
  BY <1>16, Places, JobOperators DEF AnswerLate, ApplyFails
<1>17. CASE SeesFailed
  BY <1>17, Places, JobOperators DEF SeesFailed, Finish, Jobs
<1>18. CASE SeesCancelled
  BY <1>18, Places, JobOperators DEF SeesCancelled, Finish, Jobs
<1>19. CASE AppCloses
  BY <1>19, InitialRecords DEF AppCloses
<1>20. CASE CloseSheet \/ AppOpens \/ HRequest \/ HMake \/ HReceive \/ HUnpack \/
          HPrepare \/ HHold \/ HAwait \/ HSettle \/ HAside \/ HPlace \/ HUndo \/
          Listen \/ Report \/ UndoFails \/ HelperDies
  BY <1>20 DEF CloseSheet, AppOpens, HRequest, HMake, HReceive, HUnpack, HPrepare,
      HHold, HAwait, HSettle, HAside, HPlace, HUndo, Listen, Report, UndoFails,
      HelperDies, folders, user
<1>21. CASE UNCHANGED vars
  BY <1>21 DEF vars
<1> QED
  BY StepCases, <1>1, <1>2, <1>3, <1>4, <1>5, <1>6, <1>7, <1>8, <1>9, <1>10, <1>11,
      <1>12, <1>13, <1>14, <1>15, <1>16, <1>17, <1>18, <1>19, <1>20, <1>21

LEMMA CloseTypeStep == CloseType /\ [Next]_vars => CloseType'
<1> SUFFICES ASSUME CloseType, [Next]_vars PROVE CloseType'
  OBVIOUS
<1> USE DEF CloseType
<1>1. CASE Shut
  BY <1>1 DEF Shut
<1>2. CASE Begin
  BY <1>2 DEF Begin
<1>3. CASE PressCancel
  BY <1>3 DEF PressCancel, Cancel
<1>4. CASE ReadyCancelling
  BY <1>4 DEF ReadyCancelling, Cancel
<1>5. CASE ApplySends
  BY <1>5 DEF ApplySends, ApplyFails
<1>6. CASE ApplyAnswered
  BY <1>6 DEF ApplyAnswered, ApplyFails
<1>7. CASE AnswerLate
  BY <1>7 DEF AnswerLate, ApplyFails
<1>8. CASE SeesFailed
  BY <1>8 DEF SeesFailed, Finish
<1>9. CASE SeesCancelled
  BY <1>9 DEF SeesCancelled, Finish
<1>10. CASE Connect \/ SendRequest \/ ReadAnswer \/ Download \/ SendEnd \/
          CheckCancel \/ ReadReport \/ LastCheck \/ SetReady \/ CloseSheet \/
          AppCloses \/ AppOpens \/ HRequest \/ HMake \/ HReceive \/ HUnpack \/
          HPrepare \/ HHold \/ HAwait \/ HSettle \/ HAside \/ HPlace \/ HUndo \/
          Listen \/ Report \/ UndoFails \/ HelperDies
  BY <1>10 DEF Connect, SendRequest, ReadAnswer, Download, SendEnd, CheckCancel,
      ReadReport, LastCheck, SetReady, CloseSheet, AppCloses, AppOpens, HRequest, HMake,
      HReceive, HUnpack, HPrepare, HHold, HAwait, HSettle, HAside, HPlace, HUndo,
      Listen, Report, UndoFails, HelperDies, folders, user
<1>11. CASE UNCHANGED vars
  BY <1>11 DEF vars
<1> QED
  BY StepCases, <1>1, <1>2, <1>3, <1>4, <1>5, <1>6, <1>7, <1>8, <1>9, <1>10, <1>11

LEMMA LinkTypeStep == LinkType /\ [Next]_vars => LinkType'
<1> SUFFICES ASSUME LinkType, [Next]_vars PROVE LinkType'
  OBVIOUS
<1> USE DEF LinkType
<1>1. CASE Connect
  BY <1>1, LinkRecords DEF Connect
<1>2. CASE Shut
  BY <1>2, LinkOperators DEF Shut
<1>3. CASE Begin
  BY <1>3, LinkRecords DEF Begin
<1>4. CASE PressCancel
  BY <1>4, LinkOperators DEF PressCancel, Cancel
<1>5. CASE ReadyCancelling
  BY <1>5, LinkOperators DEF ReadyCancelling, Cancel
<1>6. CASE ApplySends
  BY <1>6, LinkOperators DEF ApplySends, ApplyFails
<1>7. CASE ApplyAnswered
  BY <1>7, LinkOperators DEF ApplyAnswered, ApplyFails
<1>8. CASE AnswerLate
  BY <1>8, LinkOperators DEF AnswerLate, ApplyFails
<1>9. CASE SeesFailed
  BY <1>9, LinkOperators DEF SeesFailed, Finish, Links
<1>10. CASE SeesCancelled
  BY <1>10, LinkOperators DEF SeesCancelled, Finish, Links
<1>11. CASE AppCloses
  BY <1>11, LinkOperators DEF AppCloses
<1>12. CASE HRequest
  BY <1>12, LinkOperators DEF HRequest, Goes
<1>13. CASE HMake
  BY <1>13, LinkOperators DEF HMake, Fails, Leaves, Goes
<1>14. CASE HReceive
  BY <1>14, LinkOperators DEF HReceive, Fails, Leaves, Goes
<1>15. CASE HUnpack
  BY <1>15, LinkOperators DEF HUnpack, Fails, Leaves, Goes
<1>16. CASE HPrepare
  BY <1>16, LinkOperators DEF HPrepare, Fails, Leaves, Goes
<1>17. CASE HHold
  BY <1>17, LinkOperators DEF HHold, Leaves, Goes
<1>18. CASE HAwait
  BY <1>18, LinkOperators DEF HAwait, Leaves, Goes
<1>19. CASE HSettle
  BY <1>19, LinkOperators DEF HSettle, Leaves, Goes
<1>20. CASE HPlace
  BY <1>20, LinkOperators DEF HPlace, Leaves, Goes
<1>21. CASE HUndo
  BY <1>21, LinkOperators DEF HUndo, Leaves
<1>22. CASE HelperDies
  BY <1>22, LinkOperators DEF HelperDies
<1>23. CASE SendRequest \/ ReadAnswer \/ Download \/ SendEnd \/ CheckCancel \/
          ReadReport \/ LastCheck \/ SetReady \/ CloseSheet \/ AppOpens \/ HAside \/
          Listen \/ Report \/ UndoFails
  BY <1>23 DEF SendRequest, ReadAnswer, Download, SendEnd, CheckCancel, ReadReport,
      LastCheck, SetReady, CloseSheet, AppOpens, HAside, Listen, Report, UndoFails,
      folders, user
<1>24. CASE UNCHANGED vars
  BY <1>24 DEF vars
<1> QED
  BY StepCases, <1>1, <1>2, <1>3, <1>4, <1>5, <1>6, <1>7, <1>8, <1>9, <1>10, <1>11,
      <1>12, <1>13, <1>14, <1>15, <1>16, <1>17, <1>18, <1>19, <1>20, <1>21, <1>22,
      <1>23, <1>24

LEMMA LineTypeStep == LineType /\ [Next]_vars => LineType'
<1> SUFFICES ASSUME LineType, [Next]_vars PROVE LineType'
  OBVIOUS
<1> USE DEF LineType
<1>1. CASE Connect
  BY <1>1, Lines DEF Connect
<1>2. CASE SendRequest
  BY <1>2, Lines DEF SendRequest, JobFails
<1>3. CASE ReadAnswer
  BY <1>3, Lines DEF ReadAnswer, JobFails
<1>4. CASE Download
  BY <1>4, Lines DEF Download, JobFails
<1>5. CASE SendEnd
  BY <1>5, Lines DEF SendEnd, JobFails
<1>6. CASE CheckCancel
  BY <1>6, Lines DEF CheckCancel
<1>7. CASE ReadReport
  BY <1>7, Lines DEF ReadReport, JobFails
<1>8. CASE Begin
  BY <1>8, Lines DEF Begin
<1>9. CASE PressCancel
  BY <1>9, Lines DEF PressCancel, Cancel
<1>10. CASE ReadyCancelling
  BY <1>10, Lines DEF ReadyCancelling, Cancel
<1>11. CASE ApplySends
  BY <1>11, Lines DEF ApplySends, ApplyFails
<1>12. CASE ApplyAnswered
  BY <1>12, Lines DEF ApplyAnswered, ApplyFails
<1>13. CASE HRequest
  BY <1>13, Lines DEF HRequest, Goes
<1>14. CASE HMake
  BY <1>14, Lines DEF HMake, Fails, Leaves, Goes
<1>15. CASE HReceive
  BY <1>15, Lines DEF HReceive, Fails, Leaves, Goes
<1>16. CASE HUnpack
  BY <1>16, Lines DEF HUnpack, Fails, Leaves, Goes
<1>17. CASE HPrepare
  BY <1>17, Lines DEF HPrepare, Fails, Leaves, Goes
<1>18. CASE HHold
  BY <1>18, Lines DEF HHold, Leaves, Goes
<1>19. CASE Listen
  BY <1>19, Lines DEF Listen
<1>20. CASE Report
  BY <1>20, Lines DEF Report
<1>21. CASE LastCheck \/ SetReady \/ Shut \/ CloseSheet \/ AnswerLate \/ SeesFailed
          \/ SeesCancelled \/ AppCloses \/ AppOpens \/ HAwait \/ HSettle \/ HAside
          \/ HPlace \/ HUndo \/ UndoFails \/ HelperDies
  BY <1>21 DEF LastCheck, SetReady, Shut, CloseSheet, AnswerLate, SeesFailed,
      SeesCancelled, AppCloses, AppOpens, HAwait, HSettle, HAside, HPlace, HUndo,
      UndoFails, HelperDies, folders, user
<1>22. CASE UNCHANGED vars
  BY <1>22 DEF vars
<1> QED
  BY StepCases, <1>1, <1>2, <1>3, <1>4, <1>5, <1>6, <1>7, <1>8, <1>9, <1>10, <1>11,
      <1>12, <1>13, <1>14, <1>15, <1>16, <1>17, <1>18, <1>19, <1>20, <1>21, <1>22

LEMMA HelperTypeStep == HelperType /\ [Next]_vars => HelperType'
<1> SUFFICES ASSUME HelperType, [Next]_vars PROVE HelperType'
  OBVIOUS
<1> USE DEF HelperType
<1>1. CASE Connect
  BY <1>1, InitialRecords DEF Connect
<1>2. CASE Begin
  BY <1>2, InitialRecords DEF Begin
<1>3. CASE HRequest
  BY <1>3, Places DEF HRequest, Goes, Helpers
<1>4. CASE HMake
  BY <1>4, Places DEF HMake, Fails, Leaves, Goes, Helpers
<1>5. CASE HReceive
  BY <1>5, Places DEF HReceive, Fails, Leaves, Goes, Helpers
<1>6. CASE HUnpack
  BY <1>6, Places DEF HUnpack, Fails, Leaves, Goes, Helpers
<1>7. CASE HPrepare
  BY <1>7, Places DEF HPrepare, Fails, Leaves, Goes, Helpers
<1>8. CASE HHold
  BY <1>8, Places DEF HHold, Leaves, Goes, Helpers
<1>9. CASE HAwait
  BY <1>9, Places DEF HAwait, Leaves, Goes, Helpers
<1>10. CASE HSettle
  BY <1>10, Places DEF HSettle, Leaves, Goes, Helpers
<1>11. CASE HAside
  BY <1>11, Places DEF HAside, Goes, Helpers
<1>12. CASE HPlace
  BY <1>12, Places DEF HPlace, Leaves, Goes, Helpers
<1>13. CASE HUndo
  BY <1>13, Places DEF HUndo, Leaves, Helpers
<1>14. CASE Listen
  BY <1>14, Places DEF Listen, Helpers
<1>15. CASE HelperDies
  BY <1>15, Places DEF HelperDies, Helpers
<1>16. CASE SendRequest \/ ReadAnswer \/ Download \/ SendEnd \/ CheckCancel \/
          ReadReport \/ LastCheck \/ SetReady \/ Shut \/ CloseSheet \/ PressCancel
          \/ ReadyCancelling \/ ApplySends \/ ApplyAnswered \/ AnswerLate \/
          SeesFailed \/ SeesCancelled \/ AppCloses \/ AppOpens \/ Report \/
          UndoFails
  BY <1>16 DEF SendRequest, ReadAnswer, Download, SendEnd, CheckCancel, ReadReport,
      LastCheck, SetReady, Shut, CloseSheet, PressCancel, ReadyCancelling, ApplySends,
      ApplyAnswered, AnswerLate, SeesFailed, SeesCancelled, AppCloses, AppOpens, Report,
      UndoFails, folders, user
<1>17. CASE UNCHANGED vars
  BY <1>17 DEF vars
<1> QED
  BY StepCases, <1>1, <1>2, <1>3, <1>4, <1>5, <1>6, <1>7, <1>8, <1>9, <1>10, <1>11,
      <1>12, <1>13, <1>14, <1>15, <1>16, <1>17

LEMMA FolderTypeStep == FolderType /\ Origin /\ [Next]_vars => FolderType'
<1> SUFFICES ASSUME FolderType /\ Origin, [Next]_vars PROVE FolderType'
  OBVIOUS
<1> USE DEF FolderType
<1>1. CASE HMake
  BY <1>1, FolderOperators, InitialRecords DEF HMake, Fails, Leaves, Goes, folders
<1>2. CASE HReceive
  BY <1>2, FolderOperators, InitialRecords DEF HReceive, Fails, Leaves, Goes, folders
<1>3. CASE HUnpack
  BY <1>3, FolderOperators, InitialRecords DEF HUnpack, Fails, Leaves, Goes, folders
<1>4. CASE HPrepare
  BY <1>4, FolderOperators, InitialRecords DEF HPrepare, Fails, Leaves, Goes, folders
<1>5. CASE HHold
  BY <1>5, FolderOperators, InitialRecords DEF HHold, Leaves, Goes, folders
<1>6. CASE HAwait
  BY <1>6, FolderOperators, InitialRecords DEF HAwait, Leaves, Goes, folders
<1>7. CASE HSettle
  BY <1>7, FolderOperators, InitialRecords DEF HSettle, Leaves, Goes, folders
<1>8. CASE HAside
  <2>1. CASE \E e \in New :
                /\ target[e] = "old"
                /\ target' = [target EXCEPT ![e] = "none"]
                /\ work' = [work EXCEPT !.backup = @ \cup {e}]
    <3>1. PICK e \in New :
                /\ target[e] = "old"
                /\ target' = [target EXCEPT ![e] = "none"]
                /\ work' = [work EXCEPT !.backup = @ \cup {e}]
      BY <2>1
    <3>2. e \in Old \cap New
      BY <3>1 DEF Origin, Entry
    <3> QED
      BY <3>1, <3>2, FolderOperators
  <2>2. CASE UNCHANGED folders
    BY <2>2 DEF folders
  <2> QED
    BY <1>8, <2>1, <2>2 DEF HAside
<1>9. CASE HPlace
  <2>1. CASE \E e \in work.staged :
                /\ target' = [target EXCEPT ![e] = "new"]
                /\ work' = [work EXCEPT !.staged = @ \ {e}]
    BY <2>1, FolderOperators
  <2>2. CASE UNCHANGED folders
    BY <2>2 DEF folders
  <2>3. CASE Leaves("updated") /\ UNCHANGED target
    BY <2>3, InitialRecords DEF Leaves
  <2> QED
    BY <1>9, <2>1, <2>2, <2>3 DEF HPlace
<1>10. CASE HUndo
  <2>1. CASE \E e \in New :
                /\ target[e] = "new"
                /\ target' = [target EXCEPT ![e] = "none"]
                /\ work' = [work EXCEPT !.staged = @ \cup {e}]
    BY <2>1, FolderOperators
  <2>2. CASE \E e \in work.backup :
                /\ target' = [target EXCEPT ![e] = "old"]
                /\ work' = [work EXCEPT !.backup = @ \ {e}]
    BY <2>2, FolderOperators
  <2>3. CASE Leaves("gone") /\ UNCHANGED target
    BY <2>3, InitialRecords DEF Leaves
  <2> QED
    BY <1>10, <2>1, <2>2, <2>3 DEF HUndo
<1>11. CASE UndoFails
  BY <1>11, FolderOperators, InitialRecords DEF UndoFails, folders
<1>12. CASE Connect \/ SendRequest \/ ReadAnswer \/ Download \/ SendEnd \/
          CheckCancel \/ ReadReport \/ LastCheck \/ SetReady \/ Shut \/ Begin \/
          CloseSheet \/ PressCancel \/ ReadyCancelling \/ ApplySends \/
          ApplyAnswered \/ AnswerLate \/ SeesFailed \/ SeesCancelled \/ AppCloses \/
          AppOpens \/ HRequest \/ Listen \/ Report \/ HelperDies
  BY <1>12 DEF Connect, SendRequest, ReadAnswer, Download, SendEnd, CheckCancel,
      ReadReport, LastCheck, SetReady, Shut, Begin, CloseSheet, PressCancel,
      ReadyCancelling, ApplySends, ApplyAnswered, AnswerLate, SeesFailed, SeesCancelled,
      AppCloses, AppOpens, HRequest, Listen, Report, HelperDies, folders, user
<1>13. CASE UNCHANGED vars
  BY <1>13 DEF vars
<1> QED
  BY StepCases, <1>1, <1>2, <1>3, <1>4, <1>5, <1>6, <1>7, <1>8, <1>9, <1>10, <1>11,
      <1>12, <1>13

LEMMA OriginStep == FolderType /\ Origin /\ [Next]_vars => Origin'
<1> SUFFICES ASSUME FolderType /\ Origin, [Next]_vars PROVE Origin'
  OBVIOUS
<1> USE DEF Origin, FolderType, Folder, Entry
<1>1. CASE HAside
  BY <1>1 DEF HAside, Goes, Works, folders
<1>2. CASE HPlace
  BY <1>2 DEF HPlace, Leaves, Goes, Works, folders
<1>3. CASE HUndo
  BY <1>3 DEF HUndo, Leaves, Works, folders
<1>4. CASE Connect \/ SendRequest \/ ReadAnswer \/ Download \/ SendEnd \/
          CheckCancel \/ ReadReport \/ LastCheck \/ SetReady \/ Shut \/ Begin \/
          CloseSheet \/ PressCancel \/ ReadyCancelling \/ ApplySends \/
          ApplyAnswered \/ AnswerLate \/ SeesFailed \/ SeesCancelled \/ AppCloses \/
          AppOpens \/ HRequest \/ HMake \/ HReceive \/ HUnpack \/ HPrepare \/ HHold
          \/ HAwait \/ HSettle \/ Listen \/ Report \/ UndoFails \/ HelperDies
  BY <1>4 DEF Connect, SendRequest, ReadAnswer, Download, SendEnd, CheckCancel,
      ReadReport, LastCheck, SetReady, Shut, Begin, CloseSheet, PressCancel,
      ReadyCancelling, ApplySends, ApplyAnswered, AnswerLate, SeesFailed, SeesCancelled,
      AppCloses, AppOpens, HRequest, HMake, HReceive, HUnpack, HPrepare, HHold, HAwait,
      HSettle, Listen, Report, UndoFails, HelperDies, folders, user
<1>5. CASE UNCHANGED vars
  BY <1>5 DEF vars
<1> QED
  BY StepCases, <1>1, <1>2, <1>3, <1>4, <1>5

LEMMA UserTypeStep == UserType /\ FolderType /\ [Next]_vars => UserType'
<1> SUFFICES ASSUME UserType /\ FolderType, [Next]_vars PROVE UserType'
  OBVIOUS
<1> USE DEF UserType
<1>1. CASE Begin
  <2>1. app' = app
    BY <1>1 DEF Begin
  <2>2. stage' \in {"working", "failed"}
    BY <1>1 DEF Begin
  <2>3. told' = [cancel |-> FALSE, failed |-> FALSE] \/ told' = told
    BY <1>1 DEF Begin
  <2>4. [cancel |-> FALSE, failed |-> FALSE] \in [cancel : BOOLEAN, failed : BOOLEAN]
    OBVIOUS
  <2> QED
    BY <2>1, <2>2, <2>3, <2>4
<1>2. CASE CloseSheet
  BY <1>2 DEF CloseSheet, user
<1>3. CASE PressCancel
  BY <1>3 DEF PressCancel, Cancel, user
<1>4. CASE ApplySends
  BY <1>4 DEF ApplySends, ApplyFails, user
<1>5. CASE ApplyAnswered
  BY <1>5 DEF ApplyAnswered, ApplyFails, user
<1>6. CASE AnswerLate
  BY <1>6 DEF AnswerLate, ApplyFails, user
<1>7. CASE SeesFailed
  BY <1>7 DEF SeesFailed, Finish, user
<1>8. CASE SeesCancelled
  BY <1>8 DEF SeesCancelled, Finish, user
<1>9. CASE AppCloses
  BY <1>9 DEF AppCloses, user
<1>10. CASE AppOpens
  BY <1>10, UpdateAssumption DEF AppOpens, user, FolderType, Folder, Entry
<1>11. CASE Connect \/ SendRequest \/ ReadAnswer \/ Download \/ SendEnd \/
          CheckCancel \/ ReadReport \/ LastCheck \/ SetReady \/ Shut \/
          ReadyCancelling \/ HRequest \/ HMake \/ HReceive \/ HUnpack \/ HPrepare \/
          HHold \/ HAwait \/ HSettle \/ HAside \/ HPlace \/ HUndo \/ Listen \/
          Report \/ UndoFails \/ HelperDies
  BY <1>11 DEF Connect, SendRequest, ReadAnswer, Download, SendEnd, CheckCancel,
      ReadReport, LastCheck, SetReady, Shut, ReadyCancelling, HRequest, HMake, HReceive,
      HUnpack, HPrepare, HHold, HAwait, HSettle, HAside, HPlace, HUndo, Listen, Report,
      UndoFails, HelperDies, folders, user
<1>12. CASE UNCHANGED vars
  BY <1>12 DEF vars
<1> QED
  BY StepCases, <1>1, <1>2, <1>3, <1>4, <1>5, <1>6, <1>7, <1>8, <1>9, <1>10, <1>11,
      <1>12

LEMMA AttemptTypeStep == AttemptType /\ [Next]_vars => AttemptType'
<1> SUFFICES ASSUME AttemptType, [Next]_vars PROVE AttemptType'
  OBVIOUS
<1> USE DEF AttemptType, tally, Harmed
<1>1. CASE Begin
  BY <1>1, UpdateAssumption DEF Begin
<1>2. CASE AnswerLate
  BY <1>2, UpdateAssumption DEF AnswerLate, ApplyFails
<1>3. CASE UndoFails
  BY <1>3, UpdateAssumption DEF UndoFails
<1>4. CASE HelperDies
  BY <1>4, UpdateAssumption DEF HelperDies
<1>5. CASE Connect \/ SendRequest \/ ReadAnswer \/ Download \/ SendEnd \/
          CheckCancel \/ ReadReport \/ LastCheck \/ SetReady \/ Shut \/ CloseSheet
          \/ PressCancel \/ ReadyCancelling \/ ApplySends \/ ApplyAnswered \/
          SeesFailed \/ SeesCancelled \/ AppCloses \/ AppOpens \/ HRequest \/ HMake
          \/ HReceive \/ HUnpack \/ HPrepare \/ HHold \/ HAwait \/ HSettle \/ HAside
          \/ HPlace \/ HUndo \/ Listen \/ Report
  BY <1>5 DEF Connect, SendRequest, ReadAnswer, Download, SendEnd, CheckCancel,
      ReadReport, LastCheck, SetReady, Shut, CloseSheet, PressCancel, ReadyCancelling,
      ApplySends, ApplyAnswered, SeesFailed, SeesCancelled, AppCloses, AppOpens,
      HRequest, HMake, HReceive, HUnpack, HPrepare, HHold, HAwait, HSettle, HAside,
      HPlace, HUndo, Listen, Report, folders, user
<1>6. CASE UNCHANGED vars
  BY <1>6 DEF vars
<1> QED
  BY StepCases, <1>1, <1>2, <1>3, <1>4, <1>5, <1>6

-----------------------------------------------------------------------------
(* Type correctness: what the steps rely on is TypeOK and Origin. *)

Typed == TypeOK /\ Origin

LEMMA InitTyped == Init => Typed
<1> SUFFICES ASSUME Init PROVE Typed
  OBVIOUS
<1>1. JobType /\ LinkType /\ HelperType
  BY InitialRecords, LinkRecords DEF Init, JobType, LinkType, HelperType
<1>2. CloseType
  BY DEF Init, CloseType
<1>3. AttemptType
  BY UpdateAssumption DEF Init, AttemptType
<1>4. LineType
  BY EmptySeq DEF Init, LineType
<1>5. FolderType /\ Origin
  BY InitialRecords DEF Init, FolderType, Origin, OldFolder, Folder, Entry
<1>6. UserType
  BY DEF Init, UserType
<1> QED
  BY <1>1, <1>2, <1>3, <1>4, <1>5, <1>6, TypeParts DEF Typed

LEMMA NextTypeParts ==
    /\ JobType' /\ CloseType' /\ LinkType' /\ LineType'
    /\ HelperType' /\ FolderType' /\ UserType' /\ AttemptType'
    => TypeOK'
BY DEF TypeOK, JobType, CloseType, LinkType, LineType, HelperType, FolderType, UserType,
       AttemptType, Jobs, Links, Helpers, Works, JobPlace, JobPhase, HelperPlace

LEMMA StepTyped == Typed /\ [Next]_vars => Typed'
<1> SUFFICES ASSUME Typed, [Next]_vars PROVE Typed'
  OBVIOUS
<1>1. /\ JobType /\ CloseType /\ LinkType /\ LineType
      /\ HelperType /\ FolderType /\ UserType /\ AttemptType /\ Origin
  BY TypeParts DEF Typed
<1>2. JobType' /\ CloseType' /\ LinkType' /\ LineType'
  BY <1>1, JobTypeStep, CloseTypeStep, LinkTypeStep, LineTypeStep
<1>3. HelperType' /\ FolderType' /\ Origin' /\ UserType' /\ AttemptType'
  BY <1>1, HelperTypeStep, FolderTypeStep, OriginStep, UserTypeStep, AttemptTypeStep
<1> QED
  BY <1>2, <1>3, NextTypeParts DEF Typed

(* The typing invariant: every step keeps TypeOK and Origin. *)
THEOREM AlwaysTyped == Spec => []Typed
BY InitTyped, StepTyped, PTL DEF Spec

(* The variables have their types, and only entries the release replaces   *)
(* are moved aside (swap_entries keeps the owner's other entries). *)
THEOREM TypeCorrect == Spec => []TypeOK
<1>1. Typed => TypeOK
  BY DEF Typed
<1> QED
  BY <1>1, AlwaysTyped, PTL

-----------------------------------------------------------------------------
(* The socket is open only while the job holds it or is about to shut it.  *)

Held ==
    /\ job.at = "shut" => ~job.open
    /\ job.at \in {"none", "connect"} => ~job.open
    /\ link.app => job.open \/ job.at = "shut"
    /\ job.phase = "ready" => job.at = "done"
    /\ stage = "applying" => job.at = "done" /\ job.open

Count ==
    /\ closes <= 1
    /\ job.open \/ job.at \in {"connect", "shut"} => closes = 0

LEMMA StoppedFields ==
    ASSUME NEW j \in Jobs
    PROVE  /\ ~Stopped(j).open
           /\ Stopped(j).at = IF j.open THEN "shut" ELSE "done"
           /\ Stopped(j).phase \in {"cancelled", "failed"}
BY DEF Stopped, Jobs

LEMMA FailedFields ==
    ASSUME JobType, LinkType, ApplyFails
    PROVE  /\ ~job'.open /\ job'.at = "none" /\ job'.phase \in {"cancelled", "failed"}
           /\ ~link'.app /\ stage' = "failed"
BY DEF JobType, LinkType, Jobs, Links, ApplyFails

LEMMA FinishFields ==
    ASSUME JobType, Finish(job)
    PROVE  /\ job.at = "done" /\ job'.at = "none"
           /\ \/ job.open /\ ~job'.open /\ closes' = closes + 1
              \/ (job'.open => job.open) /\ closes' = closes
<1>1. CASE job.open /\ job.phase # "applying"
  BY <1>1 DEF JobType, Jobs, Finish
<1>2. CASE ~(job.open /\ job.phase # "applying")
  BY <1>2 DEF JobType, Jobs, Finish
<1> QED
  BY <1>1, <1>2

LEMMA HeldStep == JobType /\ LinkType /\ Held /\ [Next]_vars => Held'
<1> SUFFICES ASSUME JobType /\ LinkType /\ Held, [Next]_vars PROVE Held'
  OBVIOUS
<1> USE DEF JobType, LinkType, Jobs, Links, Held
<1>1. CASE Connect
  <2>1. CASE job' = [job EXCEPT !.at = "request", !.open = TRUE]
    BY <1>1, <2>1 DEF Connect, user
  <2>2. CASE job' = Stopped(job) /\ UNCHANGED link
    BY <1>1, <2>2, StoppedFields DEF Connect, user
  <2> QED
    BY <1>1, <2>1, <2>2 DEF Connect
<1>2. CASE SendRequest
  BY <1>2 DEF SendRequest, JobFails, Stopped, user
<1>3. CASE ReadAnswer
  BY <1>3 DEF ReadAnswer, JobFails, Stopped, InPhase, user
<1>4. CASE Download
  BY <1>4 DEF Download, JobFails, Stopped, user
<1>5. CASE SendEnd
  BY <1>5 DEF SendEnd, JobFails, Stopped, InPhase, user
<1>6. CASE CheckCancel
  BY <1>6 DEF CheckCancel, Stopped, user
<1>7. CASE ReadReport
  BY <1>7 DEF ReadReport, JobFails, Stopped, user
<1>8. CASE LastCheck
  BY <1>8 DEF LastCheck, Stopped, user
<1>9. CASE SetReady
  BY <1>9 DEF SetReady, InPhase, user
<1>10. CASE Shut
  BY <1>10 DEF Shut, user
<1>11. CASE Begin
  <2>1. CASE /\ job' = [NoJob EXCEPT !.at = "connect", !.phase = "starting"]
             /\ link' = [app |-> FALSE, helper |-> FALSE]
             /\ stage' = "working"
    BY <2>1 DEF NoJob
  <2>2. CASE UNCHANGED <<job, link>> /\ stage' = "failed"
    BY <2>2
  <2> QED
    BY <1>11, <2>1, <2>2 DEF Begin
<1>12. CASE PressCancel
  BY <1>12 DEF PressCancel, Cancel, user
<1>13. CASE ReadyCancelling
  BY <1>13 DEF ReadyCancelling, Cancel, user
<1>14. CASE ApplySends
  <2>1. CASE stage' = "applying" /\ UNCHANGED <<job, link>>
    BY <1>14, <2>1 DEF ApplySends
  <2>2. CASE ApplyFails
    BY <2>2, FailedFields
  <2> QED
    BY <1>14, <2>1, <2>2 DEF ApplySends
<1>15. CASE ApplyAnswered
  BY <1>15 DEF ApplyAnswered, ApplyFails, InPhase, user
<1>16. CASE AnswerLate
  BY <1>16 DEF AnswerLate, ApplyFails, user
<1>17. CASE SeesFailed
  BY <1>17 DEF SeesFailed, Finish, user
<1>18. CASE SeesCancelled
  BY <1>18 DEF SeesCancelled, Finish, user
<1>19. CASE AppCloses
  BY <1>19 DEF AppCloses, NoJob, user
<1>20. CASE CloseSheet
  BY <1>20 DEF CloseSheet, user
<1>21. CASE AppOpens
  BY <1>21 DEF AppOpens, user
<1>22. CASE HRequest
  BY <1>22 DEF HRequest, Goes, user
<1>23. CASE HMake
  BY <1>23 DEF HMake, Fails, Leaves, Goes, user
<1>24. CASE HReceive
  BY <1>24 DEF HReceive, Fails, Leaves, Goes, user
<1>25. CASE HUnpack
  BY <1>25 DEF HUnpack, Fails, Leaves, Goes, user
<1>26. CASE HPrepare
  BY <1>26 DEF HPrepare, Fails, Leaves, Goes, user
<1>27. CASE HHold
  BY <1>27 DEF HHold, Leaves, Goes, user
<1>28. CASE HAwait
  BY <1>28 DEF HAwait, Leaves, Goes, user
<1>29. CASE HSettle
  BY <1>29 DEF HSettle, Leaves, Goes, user
<1>30. CASE HPlace
  BY <1>30 DEF HPlace, Leaves, Goes, user
<1>31. CASE HUndo
  BY <1>31 DEF HUndo, Leaves, user
<1>32. CASE HelperDies
  BY <1>32 DEF HelperDies, user
<1>33. CASE HAside \/ Listen \/ Report \/ UndoFails
  BY <1>33 DEF HAside, Listen, Report, UndoFails, folders, user
<1>34. CASE UNCHANGED vars
  BY <1>34 DEF vars
<1> QED
  BY StepCases, <1>1, <1>2, <1>3, <1>4, <1>5, <1>6, <1>7, <1>8, <1>9, <1>10, <1>11,
      <1>12, <1>13, <1>14, <1>15, <1>16, <1>17, <1>18, <1>19, <1>20, <1>21, <1>22,
      <1>23, <1>24, <1>25, <1>26, <1>27, <1>28, <1>29, <1>30, <1>31, <1>32, <1>33, <1>34

LEMMA CountStep == JobType /\ CloseType /\ LinkType /\ Held /\ Count /\ [Next]_vars
      => Count'
<1> SUFFICES ASSUME JobType /\ CloseType /\ LinkType /\ Held /\ Count, [Next]_vars
      PROVE Count'
  OBVIOUS
<1> USE DEF JobType, CloseType, Jobs, Held, Count
<1>1. CASE Connect
  BY <1>1 DEF Connect, Stopped
<1>2. CASE SendRequest
  BY <1>2 DEF SendRequest, JobFails, Stopped
<1>3. CASE ReadAnswer
  BY <1>3 DEF ReadAnswer, JobFails, Stopped, InPhase
<1>4. CASE Download
  BY <1>4 DEF Download, JobFails, Stopped
<1>5. CASE SendEnd
  BY <1>5 DEF SendEnd, JobFails, Stopped, InPhase
<1>6. CASE CheckCancel
  BY <1>6 DEF CheckCancel, Stopped
<1>7. CASE ReadReport
  BY <1>7 DEF ReadReport, JobFails, Stopped
<1>8. CASE LastCheck
  BY <1>8 DEF LastCheck, Stopped
<1>9. CASE SetReady
  BY <1>9 DEF SetReady, InPhase
<1>10. CASE Shut
  BY <1>10 DEF Shut
<1>11. CASE Begin
  BY <1>11 DEF Begin, NoJob
<1>12. CASE PressCancel
  BY <1>12 DEF PressCancel, Cancel
<1>13. CASE ReadyCancelling
  BY <1>13 DEF ReadyCancelling, Cancel
<1>14. CASE ApplySends
  <2>1. CASE UNCHANGED <<job, closes>>
    BY <2>1
  <2>2. CASE ApplyFails
    <3>1. job.open
      BY <1>14 DEF ApplySends
    <3>2. closes' = closes + 1
      BY <2>2 DEF ApplyFails
    <3>3. ~job'.open /\ job'.at = "none"
      BY <2>2, FailedFields
    <3> QED
      BY <3>1, <3>2, <3>3
  <2> QED
    BY <1>14, <2>1, <2>2 DEF ApplySends
<1>15. CASE ApplyAnswered
  <2>1. job.at = "done" /\ job.open
    BY <1>15 DEF ApplyAnswered
  <2>2. CASE job' = InPhase(job, "applying") /\ UNCHANGED closes
    BY <2>1, <2>2 DEF InPhase
  <2>3. CASE ApplyFails
    <3>1. closes' = closes + 1
      BY <2>3 DEF ApplyFails
    <3>2. ~job'.open /\ job'.at = "none"
      BY <2>3, FailedFields
    <3> QED
      BY <2>1, <3>1, <3>2
  <2> QED
    BY <1>15, <2>2, <2>3 DEF ApplyAnswered
<1>16. CASE AnswerLate
  <2>1. job.at = "done" /\ job.open
    BY <1>16 DEF AnswerLate
  <2>2. closes' = closes + 1
    BY <1>16 DEF AnswerLate, ApplyFails
  <2>3. ~job'.open /\ job'.at = "none"
    BY <1>16, FailedFields DEF AnswerLate
  <2> QED
    BY <2>1, <2>2, <2>3
<1>17. CASE SeesFailed
  <2>1. Finish(job)
    BY <1>17 DEF SeesFailed
  <2> QED
    BY <2>1, FinishFields
<1>18. CASE SeesCancelled
  <2>1. Finish(job)
    BY <1>18 DEF SeesCancelled
  <2> QED
    BY <2>1, FinishFields
<1>19. CASE AppCloses
  BY <1>19 DEF AppCloses, NoJob
<1>20. CASE CloseSheet \/ AppOpens \/ HRequest \/ HMake \/ HReceive \/ HUnpack \/
          HPrepare \/ HHold \/ HAwait \/ HSettle \/ HAside \/ HPlace \/ HUndo \/
          Listen \/ Report \/ UndoFails \/ HelperDies
  BY <1>20 DEF CloseSheet, AppOpens, HRequest, HMake, HReceive, HUnpack, HPrepare,
      HHold, HAwait, HSettle, HAside, HPlace, HUndo, Listen, Report, UndoFails,
      HelperDies, folders, user
<1>21. CASE UNCHANGED vars
  BY <1>21 DEF vars
<1> QED
  BY StepCases, <1>1, <1>2, <1>3, <1>4, <1>5, <1>6, <1>7, <1>8, <1>9, <1>10, <1>11,
      <1>12, <1>13, <1>14, <1>15, <1>16, <1>17, <1>18, <1>19, <1>20, <1>21

SocketInv == Typed /\ Held /\ Count

(* The socket's invariant: who holds it, and how often it was closed. *)
THEOREM AlwaysSocket == Spec => []SocketInv
<1>1. Init => SocketInv
  BY InitTyped DEF Init, SocketInv, Held, Count, NoJob
<1>2. SocketInv /\ [Next]_vars => SocketInv'
  BY StepTyped, TypeParts, HeldStep, CountStep DEF SocketInv, Typed
<1> QED
  BY <1>1, <1>2, PTL DEF Spec

(* An attempt's socket is closed at most once, whichever of stop(),        *)
(* self_update_cancel() and self_update_finish() gets to it, and is not    *)
(* left open by an attempt that is over. *)
THEOREM SocketClosedOnce == Spec => []ClosedOnce
<1>1. SocketInv => ClosedOnce
  BY DEF SocketInv, Held, Count, ClosedOnce
<1> QED
  BY <1>1, AlwaysSocket, PTL

-----------------------------------------------------------------------------
(* The go-ahead is sent from "working", which a cancel leaves for good.    *)

Silent(s) == \A i \in 1 .. Len(s) : s[i] # "apply"

LEMMA SilentSteps ==
    ASSUME NEW s \in Seq(ToHelper)
    PROVE  /\ Silent(<<>>)
           /\ Silent(s) => \A m \in {"request", "end", "cancel"} : Silent(Append(s, m))
           /\ Silent(s) /\ s # <<>> => Silent(Tail(s)) /\ Head(s) # "apply"
<1>1. Silent(<<>>)
  BY DEF Silent
<1>2. ASSUME Silent(s), NEW m \in {"request", "end", "cancel"} PROVE Silent(Append(s, m))
  BY <1>2, AppendProperties DEF Silent, ToHelper
<1>3. ASSUME Silent(s), s # <<>> PROVE Silent(Tail(s)) /\ Head(s) # "apply"
  <2>1. Len(s) \in Nat /\ Len(s) > 0 /\ Head(s) = s[1]
    BY <1>3, HeadTailProperties, EmptySeq, LenProperties
  <2>2. Len(Tail(s)) = Len(s) - 1 /\ \A i \in 1 .. Len(Tail(s)) : Tail(s)[i] = s[i + 1]
    BY <1>3, HeadTailProperties
  <2> QED
    BY <1>3, <2>1, <2>2 DEF Silent
<1> QED
  BY <1>1, <1>2, <1>3

Asked == stage = "working" => ~told.cancel
Unsent == stage = "working" \/ told.cancel => ~helper.apply
UnsentLine == stage = "working" \/ told.cancel => Silent(up)
GoAhead == helper.at \in {"await", "settle", "updated"} \cup Swapping => helper.apply

LEMMA CancelLine == ASSUME LineType, Cancel, Silent(up) PROVE Silent(up)'
BY SilentSteps DEF LineType, Cancel

LEMMA AskedStep == UserType /\ Asked /\ [Next]_vars => Asked'
<1> SUFFICES ASSUME UserType /\ Asked, [Next]_vars PROVE Asked'
  OBVIOUS
<1> USE DEF UserType, Asked
<1>1. CASE Begin
  BY <1>1 DEF Begin, user
<1>2. CASE CloseSheet
  BY <1>2 DEF CloseSheet, user
<1>3. CASE PressCancel
  BY <1>3 DEF PressCancel, Cancel, user
<1>4. CASE ApplySends
  BY <1>4 DEF ApplySends, ApplyFails, user
<1>5. CASE ApplyAnswered
  BY <1>5 DEF ApplyAnswered, ApplyFails, user
<1>6. CASE AnswerLate
  BY <1>6 DEF AnswerLate, ApplyFails, user
<1>7. CASE SeesFailed
  BY <1>7 DEF SeesFailed, Finish, user
<1>8. CASE SeesCancelled
  BY <1>8 DEF SeesCancelled, Finish, user
<1>9. CASE AppCloses
  BY <1>9 DEF AppCloses, user
<1>10. CASE AppOpens
  BY <1>10 DEF AppOpens, user
<1>11. CASE Connect \/ SendRequest \/ ReadAnswer \/ Download \/ SendEnd \/
          CheckCancel \/ ReadReport \/ LastCheck \/ SetReady \/ Shut \/
          ReadyCancelling \/ HRequest \/ HMake \/ HReceive \/ HUnpack \/ HPrepare \/
          HHold \/ HAwait \/ HSettle \/ HAside \/ HPlace \/ HUndo \/ Listen \/
          Report \/ UndoFails \/ HelperDies
  BY <1>11 DEF Connect, SendRequest, ReadAnswer, Download, SendEnd, CheckCancel,
      ReadReport, LastCheck, SetReady, Shut, ReadyCancelling, HRequest, HMake, HReceive,
      HUnpack, HPrepare, HHold, HAwait, HSettle, HAside, HPlace, HUndo, Listen, Report,
      UndoFails, HelperDies, folders, user
<1>12. CASE UNCHANGED vars
  BY <1>12 DEF vars
<1> QED
  BY StepCases, <1>1, <1>2, <1>3, <1>4, <1>5, <1>6, <1>7, <1>8, <1>9, <1>10, <1>11,
      <1>12

LEMMA UnsentStep == UserType /\ HelperType /\ LineType /\ Asked /\ Unsent /\
      UnsentLine /\ [Next]_vars => Unsent'
<1> SUFFICES ASSUME UserType /\ HelperType /\ LineType /\ Asked /\ Unsent /\
      UnsentLine, [Next]_vars PROVE Unsent'
  OBVIOUS
<1> USE DEF UserType, HelperType, Helpers, Asked, Unsent
<1>1. CASE Begin
  BY <1>1 DEF Begin, NoHelper
<1>2. CASE CloseSheet
  BY <1>2 DEF CloseSheet, user
<1>3. CASE PressCancel
  BY <1>3 DEF PressCancel, Cancel, user
<1>4. CASE ApplySends
  BY <1>4 DEF ApplySends, ApplyFails, user
<1>5. CASE ApplyAnswered
  BY <1>5 DEF ApplyAnswered, ApplyFails, user
<1>6. CASE AnswerLate
  BY <1>6 DEF AnswerLate, ApplyFails, user
<1>7. CASE SeesFailed
  BY <1>7 DEF SeesFailed, Finish, user
<1>8. CASE SeesCancelled
  BY <1>8 DEF SeesCancelled, Finish, user
<1>9. CASE AppCloses
  BY <1>9 DEF AppCloses, user
<1>10. CASE AppOpens
  BY <1>10 DEF AppOpens, user
<1>11. CASE Connect
  BY <1>11 DEF Connect, NoHelper, user
<1>12. CASE HRequest
  BY <1>12 DEF HRequest, Goes, user
<1>13. CASE HMake
  BY <1>13 DEF HMake, Fails, Leaves, Goes, user
<1>14. CASE HReceive
  BY <1>14 DEF HReceive, Fails, Leaves, Goes, user
<1>15. CASE HUnpack
  BY <1>15 DEF HUnpack, Fails, Leaves, Goes, user
<1>16. CASE HPrepare
  BY <1>16 DEF HPrepare, Fails, Leaves, Goes, user
<1>17. CASE HHold
  BY <1>17 DEF HHold, Leaves, Goes, user
<1>18. CASE HAwait
  BY <1>18 DEF HAwait, Leaves, Goes, user
<1>19. CASE HSettle
  BY <1>19 DEF HSettle, Leaves, Goes, user
<1>20. CASE HAside
  BY <1>20 DEF HAside, Goes, user
<1>21. CASE HPlace
  BY <1>21 DEF HPlace, Leaves, Goes, user
<1>22. CASE HUndo
  BY <1>22 DEF HUndo, Leaves, user
<1>23. CASE Listen
  BY <1>23, SilentSteps DEF Listen, LineType, UnsentLine, user
<1>24. CASE HelperDies
  BY <1>24 DEF HelperDies, user
<1>25. CASE SendRequest \/ ReadAnswer \/ Download \/ SendEnd \/ CheckCancel \/
          ReadReport \/ LastCheck \/ SetReady \/ Shut \/ ReadyCancelling \/ Report
          \/ UndoFails
  BY <1>25 DEF SendRequest, ReadAnswer, Download, SendEnd, CheckCancel, ReadReport,
      LastCheck, SetReady, Shut, ReadyCancelling, Report, UndoFails, folders, user
<1>26. CASE UNCHANGED vars
  BY <1>26 DEF vars
<1> QED
  BY StepCases, <1>1, <1>2, <1>3, <1>4, <1>5, <1>6, <1>7, <1>8, <1>9, <1>10, <1>11,
      <1>12, <1>13, <1>14, <1>15, <1>16, <1>17, <1>18, <1>19, <1>20, <1>21, <1>22,
      <1>23, <1>24, <1>25, <1>26

LEMMA UnsentLineStep == UserType /\ LineType /\ Asked /\ UnsentLine /\ [Next]_vars
      => UnsentLine'
<1> SUFFICES ASSUME UserType /\ LineType /\ Asked /\ UnsentLine, [Next]_vars PROVE
      UnsentLine'
  OBVIOUS
<1> USE DEF UserType, LineType, Asked, UnsentLine
<1>1. CASE Begin
  <2>1. CASE up' = <<>>
    BY <2>1, SilentSteps DEF LineType
  <2>2. CASE stage' = "failed" /\ UNCHANGED <<told, up>>
    BY <2>2
  <2> QED
    BY <1>1, <2>1, <2>2 DEF Begin
<1>2. CASE CloseSheet
  BY <1>2 DEF CloseSheet, user
<1>3. CASE PressCancel
  BY <1>3, CancelLine DEF PressCancel, Cancel, user
<1>4. CASE ApplySends
  BY <1>4 DEF ApplySends, ApplyFails, user
<1>5. CASE ApplyAnswered
  BY <1>5 DEF ApplyAnswered, ApplyFails, user
<1>6. CASE AnswerLate
  BY <1>6 DEF AnswerLate, ApplyFails, user
<1>7. CASE SeesFailed
  BY <1>7 DEF SeesFailed, Finish, user
<1>8. CASE SeesCancelled
  BY <1>8 DEF SeesCancelled, Finish, user
<1>9. CASE AppCloses
  BY <1>9 DEF AppCloses, user
<1>10. CASE AppOpens
  BY <1>10 DEF AppOpens, user
<1>11. CASE SendRequest
  BY <1>11, SilentSteps DEF SendRequest, JobFails, user
<1>12. CASE ReadAnswer
  BY <1>12, SilentSteps DEF ReadAnswer, JobFails, user
<1>13. CASE Download
  BY <1>13, SilentSteps DEF Download, JobFails, user
<1>14. CASE ReadReport
  BY <1>14, SilentSteps DEF ReadReport, JobFails, user
<1>15. CASE SendEnd
  BY <1>15, SilentSteps DEF SendEnd, JobFails, user
<1>16. CASE CheckCancel
  BY <1>16, SilentSteps DEF CheckCancel, user
<1>17. CASE ReadyCancelling
  BY <1>17, CancelLine DEF ReadyCancelling, Cancel, user
<1>18. CASE HRequest
  BY <1>18, SilentSteps DEF HRequest, Goes, user
<1>19. CASE HReceive
  BY <1>19, SilentSteps DEF HReceive, Fails, Leaves, Goes, user
<1>20. CASE Listen
  BY <1>20, SilentSteps DEF Listen, user
<1>21. CASE Connect \/ LastCheck \/ SetReady \/ Shut \/ HMake \/ HUnpack \/ HPrepare
          \/ HHold \/ HAwait \/ HSettle \/ HAside \/ HPlace \/ HUndo \/ Report \/
          UndoFails \/ HelperDies
  BY <1>21 DEF Connect, LastCheck, SetReady, Shut, HMake, HUnpack, HPrepare, HHold,
      HAwait, HSettle, HAside, HPlace, HUndo, Report, UndoFails, HelperDies, folders,
      user
<1>22. CASE UNCHANGED vars
  BY <1>22 DEF vars
<1> QED
  BY StepCases, <1>1, <1>2, <1>3, <1>4, <1>5, <1>6, <1>7, <1>8, <1>9, <1>10, <1>11,
      <1>12, <1>13, <1>14, <1>15, <1>16, <1>17, <1>18, <1>19, <1>20, <1>21, <1>22

LEMMA GoAheadStep == HelperType /\ GoAhead /\ [Next]_vars => GoAhead'
<1> SUFFICES ASSUME HelperType /\ GoAhead, [Next]_vars PROVE GoAhead'
  OBVIOUS
<1> USE DEF HelperType, Helpers, GoAhead, Swapping
<1>1. CASE Connect
  BY <1>1 DEF Connect, NoHelper
<1>2. CASE Begin
  BY <1>2 DEF Begin, NoHelper
<1>3. CASE HRequest
  BY <1>3 DEF HRequest, Goes
<1>4. CASE HMake
  BY <1>4 DEF HMake, Fails, Leaves, Goes
<1>5. CASE HReceive
  BY <1>5 DEF HReceive, Fails, Leaves, Goes
<1>6. CASE HUnpack
  BY <1>6 DEF HUnpack, Fails, Leaves, Goes
<1>7. CASE HPrepare
  BY <1>7 DEF HPrepare, Fails, Leaves, Goes
<1>8. CASE HHold
  BY <1>8 DEF HHold, Leaves, Goes
<1>9. CASE HAwait
  BY <1>9 DEF HAwait, Leaves, Goes
<1>10. CASE HSettle
  BY <1>10 DEF HSettle, Leaves, Goes
<1>11. CASE HAside
  BY <1>11 DEF HAside, Goes
<1>12. CASE HPlace
  BY <1>12 DEF HPlace, Leaves, Goes
<1>13. CASE HUndo
  BY <1>13 DEF HUndo, Leaves
<1>14. CASE Listen
  BY <1>14 DEF Listen
<1>15. CASE HelperDies
  BY <1>15 DEF HelperDies, Ended
<1>16. CASE SendRequest \/ ReadAnswer \/ Download \/ SendEnd \/ CheckCancel \/
          ReadReport \/ LastCheck \/ SetReady \/ Shut \/ CloseSheet \/ PressCancel
          \/ ReadyCancelling \/ ApplySends \/ ApplyAnswered \/ AnswerLate \/
          SeesFailed \/ SeesCancelled \/ AppCloses \/ AppOpens \/ Report \/
          UndoFails
  BY <1>16 DEF SendRequest, ReadAnswer, Download, SendEnd, CheckCancel, ReadReport,
      LastCheck, SetReady, Shut, CloseSheet, PressCancel, ReadyCancelling, ApplySends,
      ApplyAnswered, AnswerLate, SeesFailed, SeesCancelled, AppCloses, AppOpens, Report,
      UndoFails, folders, user
<1>17. CASE UNCHANGED vars
  BY <1>17 DEF vars
<1> QED
  BY StepCases, <1>1, <1>2, <1>3, <1>4, <1>5, <1>6, <1>7, <1>8, <1>9, <1>10, <1>11,
      <1>12, <1>13, <1>14, <1>15, <1>16, <1>17

CancelInv == Typed /\ Asked /\ Unsent /\ UnsentLine /\ GoAhead

(* A cancelled attempt sends no go-ahead: the invariant behind             *)
(* CancelRespected. *)
THEOREM AlwaysCancel == Spec => []CancelInv
<1>1. Init => CancelInv
  <2> SUFFICES ASSUME Init PROVE CancelInv
    OBVIOUS
  <2>1. Asked /\ Unsent
    BY DEF Init, Asked, Unsent, NoHelper
  <2>2. UnsentLine
    BY EmptySeq, SilentSteps DEF Init, UnsentLine
  <2>3. GoAhead
    BY DEF Init, GoAhead, NoHelper, Swapping
  <2> QED
    BY InitTyped, <2>1, <2>2, <2>3 DEF CancelInv
<1>2. CancelInv /\ [Next]_vars => CancelInv'
  BY StepTyped, TypeParts, AskedStep, UnsentStep, UnsentLineStep, GoAheadStep
     DEF CancelInv, Typed
<1> QED
  BY <1>1, <1>2, PTL DEF Spec

(* Once the user has pressed cancel the helper never replaces a file: it   *)
(* waits for a go-ahead, and none is or will be on its way. *)
THEOREM CancelHolds == Spec => []CancelRespected
<1>1. CancelInv => CancelRespected
  BY DEF CancelInv, Unsent, GoAhead, CancelRespected
<1> QED
  BY <1>1, AlwaysCancel, PTL

-----------------------------------------------------------------------------
(* The swap: where each entry is while it is under way, and what the       *)
(* folders are before and after. *)

InPlace(e) == /\ target[e] = "old" /\ e \in Old /\ e \notin work.backup
              /\ e \in New => e \in work.staged
Aside(e) == /\ target[e] = "none" /\ e \in work.staged
            /\ e \in Old <=> e \in work.backup
Placed(e) == /\ target[e] = "new" /\ e \in New /\ e \notin work.staged
             /\ e \in Old <=> e \in work.backup
EachEntry == \A e \in Entry : InPlace(e) \/ Aside(e) \/ Placed(e)

Before == {"receive", "unpack", "prepare", "hold", "await", "settle"}

(* The parts: the folders between swaps, before one, and during one; a job *)
(* about to connect has no helper; when the new entries start to go in the *)
(* old ones are out. *)
Whole == /\ helper.at \notin Swapping => target \in {OldFolder, NewFolder}
         /\ helper.at \notin Swapping /\ target # OldFolder => work.staged = {}
Untouched == helper.at \in Before => target = OldFolder /\ work.backup = {}
Staged == helper.at \in {"prepare", "hold", "await", "settle", "aside"} => work.staged = New
Underway == helper.at \in Swapping => EachEntry
Fresh == job.at = "connect" => helper.at = "off"
Cleared == helper.at = "place" => \A e \in New : target[e] # "old"
SwapInv == /\ Typed /\ Fresh
           /\ Unharmed => Whole /\ Untouched /\ Staged /\ Underway /\ Cleared

LEMMA HarmLasts ==
    ASSUME [Next]_vars, Unharmed'
    PROVE  Unharmed
<1>1. harm \subseteq harm'
  <2>1. CASE Begin
    BY <2>1 DEF Begin
  <2>2. CASE AnswerLate \/ UndoFails \/ HelperDies
    BY <2>2 DEF AnswerLate, UndoFails, HelperDies, Harmed
  <2>3. CASE Connect \/ SendRequest \/ ReadAnswer \/ Download \/ SendEnd \/
            CheckCancel \/ ReadReport \/ LastCheck \/ SetReady \/ Shut \/ CloseSheet
            \/ PressCancel \/ ReadyCancelling \/ ApplySends \/ ApplyAnswered \/
            SeesFailed \/ SeesCancelled \/ AppCloses \/ AppOpens \/ HRequest \/
            HMake \/ HReceive \/ HUnpack \/ HPrepare \/ HHold \/ HAwait \/ HSettle
            \/ HAside \/ HPlace \/ HUndo \/ Listen \/ Report
    BY <2>3 DEF Connect, SendRequest, ReadAnswer, Download, SendEnd, CheckCancel,
        ReadReport, LastCheck, SetReady, Shut, CloseSheet, PressCancel,
        ReadyCancelling, ApplySends, ApplyAnswered, SeesFailed, SeesCancelled,
        AppCloses, AppOpens, HRequest, HMake, HReceive, HUnpack, HPrepare, HHold,
        HAwait, HSettle, HAside, HPlace, HUndo, Listen, Report, user, tally
  <2>4. CASE UNCHANGED vars
    BY <2>4 DEF vars
  <2> QED
    BY StepCases, <2>1, <2>2, <2>3, <2>4
<1> QED
  BY <1>1 DEF Unharmed

(* In a step without such a fault the undo's renames work and the helper   *)
(* is not killed in the swap. *)
LEMMA NoFault ==
    ASSUME Unharmed, Unharmed'
    PROVE  /\ ~UndoFails
           /\ HelperDies => helper.at \notin Swapping
           /\ NewOut => \A n \in New : target[n] # "new"
BY DEF Unharmed, UndoFails, HelperDies, Harmed, NewOut

LEMMA Folders ==
    /\ OldFolder \in Folder /\ NewFolder \in Folder
    /\ OldFolder[Param] = "old" /\ NewFolder[Param] = "new"
BY UpdateAssumption DEF OldFolder, NewFolder, Folder, Entry

LEMMA SameFolder ==
    ASSUME NEW f \in Folder, NEW g \in Folder, \A e \in Entry : f[e] = g[e]
    PROVE  f = g
BY DEF Folder

LEMMA SameEntries ==
    ASSUME EachEntry, UNCHANGED folders
    PROVE  EachEntry'
BY DEF EachEntry, InPlace, Aside, Placed, folders

LEMMA SwapStarts ==
    ASSUME FolderType, target = OldFolder, work.backup = {}, work.staged = New
    PROVE  EachEntry
BY DEF EachEntry, InPlace, Aside, Placed, OldFolder, Entry

LEMMA SwapDone ==
    ASSUME FolderType, EachEntry, work.staged = {}
    PROVE  target = NewFolder
<1>1. \A e \in Entry : target[e] = NewFolder[e]
  BY DEF EachEntry, InPlace, Aside, Placed, NewFolder
<1> QED
  BY <1>1, Folders, SameFolder DEF FolderType

LEMMA SwapUndone ==
    ASSUME FolderType, EachEntry, work.backup = {}, \A n \in New : target[n] # "new"
    PROVE  target = OldFolder
<1>1. \A e \in Entry : target[e] = OldFolder[e]
  BY DEF EachEntry, InPlace, Aside, Placed, OldFolder
<1> QED
  BY <1>1, Folders, SameFolder DEF FolderType

LEMMA AskedOfOld ==
    ASSUME Whole, helper.at = "make", target[Param] = "old"
    PROVE  target = OldFolder
BY Folders DEF Whole, Swapping

LEMMA FreshStep == JobType /\ HelperType /\ Fresh /\ [Next]_vars => Fresh'
<1> SUFFICES ASSUME JobType /\ HelperType /\ Fresh, [Next]_vars PROVE Fresh'
  OBVIOUS
<1> USE DEF JobType, HelperType, Jobs, Helpers, Fresh
<1>1. CASE Connect
  BY <1>1 DEF Connect, Stopped, user
<1>2. CASE SendRequest
  BY <1>2 DEF SendRequest, JobFails, Stopped, user
<1>3. CASE ReadAnswer
  BY <1>3 DEF ReadAnswer, JobFails, Stopped, InPhase, user
<1>4. CASE Download
  BY <1>4 DEF Download, JobFails, Stopped, user
<1>5. CASE SendEnd
  BY <1>5 DEF SendEnd, JobFails, Stopped, InPhase, user
<1>6. CASE CheckCancel
  BY <1>6 DEF CheckCancel, Stopped, user
<1>7. CASE ReadReport
  BY <1>7 DEF ReadReport, JobFails, Stopped, user
<1>8. CASE LastCheck
  BY <1>8 DEF LastCheck, Stopped, user
<1>9. CASE SetReady
  BY <1>9 DEF SetReady, InPhase, user
<1>10. CASE Shut
  BY <1>10 DEF Shut, user
<1>11. CASE Begin
  BY <1>11 DEF Begin, NoHelper, NoJob
<1>12. CASE PressCancel
  BY <1>12 DEF PressCancel, Cancel, user
<1>13. CASE ReadyCancelling
  BY <1>13 DEF ReadyCancelling, Cancel, user
<1>14. CASE ApplySends
  BY <1>14 DEF ApplySends, ApplyFails, user
<1>15. CASE ApplyAnswered
  BY <1>15 DEF ApplyAnswered, ApplyFails, InPhase, user
<1>16. CASE AnswerLate
  BY <1>16 DEF AnswerLate, ApplyFails, user
<1>17. CASE SeesFailed
  BY <1>17 DEF SeesFailed, Finish, user
<1>18. CASE SeesCancelled
  BY <1>18 DEF SeesCancelled, Finish, user
<1>19. CASE AppCloses
  BY <1>19 DEF AppCloses, NoJob
<1>20. CASE HRequest
  BY <1>20 DEF HRequest, Goes, user
<1>21. CASE HMake
  BY <1>21 DEF HMake, Fails, Leaves, Goes, user
<1>22. CASE HReceive
  BY <1>22 DEF HReceive, Fails, Leaves, Goes, user
<1>23. CASE HUnpack
  BY <1>23 DEF HUnpack, Fails, Leaves, Goes, user
<1>24. CASE HPrepare
  BY <1>24 DEF HPrepare, Fails, Leaves, Goes, user
<1>25. CASE HHold
  BY <1>25 DEF HHold, Leaves, Goes, user
<1>26. CASE HAwait
  BY <1>26 DEF HAwait, Leaves, Goes, user
<1>27. CASE HSettle
  BY <1>27 DEF HSettle, Leaves, Goes, user
<1>28. CASE HAside
  BY <1>28 DEF HAside, Goes, user
<1>29. CASE HPlace
  BY <1>29 DEF HPlace, Leaves, Goes, user
<1>30. CASE HUndo
  BY <1>30 DEF HUndo, Leaves, user
<1>31. CASE Listen
  BY <1>31 DEF Listen, user
<1>32. CASE HelperDies
  BY <1>32 DEF HelperDies, HelperRuns, Ended, user
<1>33. CASE CloseSheet \/ AppOpens \/ Report \/ UndoFails
  BY <1>33 DEF CloseSheet, AppOpens, Report, UndoFails, folders, user
<1>34. CASE UNCHANGED vars
  BY <1>34 DEF vars
<1> QED
  BY StepCases, <1>1, <1>2, <1>3, <1>4, <1>5, <1>6, <1>7, <1>8, <1>9, <1>10, <1>11,
      <1>12, <1>13, <1>14, <1>15, <1>16, <1>17, <1>18, <1>19, <1>20, <1>21, <1>22,
      <1>23, <1>24, <1>25, <1>26, <1>27, <1>28, <1>29, <1>30, <1>31, <1>32, <1>33, <1>34

LEMMA WholeStep == HelperType /\ FolderType /\ Origin /\ Unharmed /\ Unharmed' /\
      Fresh /\ Whole /\ Untouched /\ Staged /\ Underway /\ [Next]_vars => Whole'
<1> SUFFICES ASSUME HelperType /\ FolderType /\ Origin /\ Unharmed /\ Unharmed' /\
      Fresh /\ Whole /\ Untouched /\ Staged /\ Underway, [Next]_vars PROVE Whole'
  OBVIOUS
<1> USE DEF HelperType, Helpers, FolderType, Works, Whole, Swapping
<1>1. CASE Connect
  BY <1>1 DEF Connect, NoHelper, folders, Fresh
<1>2. CASE Begin
  BY <1>2 DEF Begin, NoHelper, folders, HelperRuns, Ended
<1>3. CASE HRequest
  BY <1>3 DEF HRequest, Goes, folders, Untouched, Before, EmptyWork
<1>4. CASE HMake
  BY <1>4, AskedOfOld DEF HMake, Fails, Leaves, Goes, folders, Untouched, Before,
      EmptyWork
<1>5. CASE HReceive
  BY <1>5 DEF HReceive, Fails, Leaves, Goes, folders, Untouched, Before, EmptyWork
<1>6. CASE HUnpack
  BY <1>6 DEF HUnpack, Fails, Leaves, Goes, folders, Untouched, Before, EmptyWork
<1>7. CASE HPrepare
  BY <1>7 DEF HPrepare, Fails, Leaves, Goes, folders, Untouched, Before, EmptyWork
<1>8. CASE HHold
  BY <1>8 DEF HHold, Leaves, Goes, folders, Untouched, Before, EmptyWork
<1>9. CASE HAwait
  BY <1>9 DEF HAwait, Leaves, Goes, folders, Untouched, Before, EmptyWork
<1>10. CASE HSettle
  BY <1>10 DEF HSettle, Leaves, Goes, folders, Untouched, Before, EmptyWork
<1>11. CASE HAside
  BY <1>11 DEF HAside, Goes, folders, Untouched, Before, EmptyWork
<1>12. CASE HPlace
  BY <1>12, SwapDone DEF HPlace, Leaves, Goes, folders, EmptyWork, Underway
<1>13. CASE HUndo
  BY <1>13, SwapUndone, NoFault DEF HUndo, Leaves, folders, EmptyWork, Underway
<1>14. CASE Listen
  BY <1>14 DEF Listen, folders, Untouched, Before, EmptyWork
<1>15. CASE HelperDies
  BY <1>15, NoFault DEF HelperDies, folders, Untouched, Before, EmptyWork
<1>16. CASE SendRequest \/ ReadAnswer \/ Download \/ SendEnd \/ CheckCancel \/
          ReadReport \/ LastCheck \/ SetReady \/ Shut \/ CloseSheet \/ PressCancel
          \/ ReadyCancelling \/ ApplySends \/ ApplyAnswered \/ AnswerLate \/
          SeesFailed \/ SeesCancelled \/ AppCloses \/ AppOpens \/ Report \/
          UndoFails
  BY <1>16 DEF SendRequest, ReadAnswer, Download, SendEnd, CheckCancel, ReadReport,
      LastCheck, SetReady, Shut, CloseSheet, PressCancel, ReadyCancelling, ApplySends,
      ApplyAnswered, AnswerLate, SeesFailed, SeesCancelled, AppCloses, AppOpens, Report,
      UndoFails, folders, user
<1>17. CASE UNCHANGED vars
  BY <1>17 DEF vars
<1> QED
  BY StepCases, <1>1, <1>2, <1>3, <1>4, <1>5, <1>6, <1>7, <1>8, <1>9, <1>10, <1>11,
      <1>12, <1>13, <1>14, <1>15, <1>16, <1>17

LEMMA UntouchedStep == HelperType /\ FolderType /\ Origin /\ Unharmed /\ Unharmed'
      /\ Whole /\ Untouched /\ [Next]_vars => Untouched'
<1> SUFFICES ASSUME HelperType /\ FolderType /\ Origin /\ Unharmed /\ Unharmed' /\
      Whole /\ Untouched, [Next]_vars PROVE Untouched'
  OBVIOUS
<1> USE DEF HelperType, Helpers, FolderType, Works, Untouched, Before
<1>1. CASE Connect
  BY <1>1 DEF Connect, NoHelper, folders
<1>2. CASE Begin
  BY <1>2 DEF Begin, NoHelper, folders
<1>3. CASE HRequest
  BY <1>3 DEF HRequest, Goes, folders, EmptyWork, Swapping
<1>4. CASE HMake
  BY <1>4, AskedOfOld DEF HMake, Fails, Leaves, Goes, folders, EmptyWork, Swapping
<1>5. CASE HReceive
  BY <1>5 DEF HReceive, Fails, Leaves, Goes, folders, EmptyWork, Swapping
<1>6. CASE HUnpack
  BY <1>6 DEF HUnpack, Fails, Leaves, Goes, folders, EmptyWork, Swapping
<1>7. CASE HPrepare
  BY <1>7 DEF HPrepare, Fails, Leaves, Goes, folders, EmptyWork, Swapping
<1>8. CASE HHold
  BY <1>8 DEF HHold, Leaves, Goes, folders, EmptyWork, Swapping
<1>9. CASE HAwait
  BY <1>9 DEF HAwait, Leaves, Goes, folders, EmptyWork, Swapping
<1>10. CASE HSettle
  BY <1>10 DEF HSettle, Leaves, Goes, folders, EmptyWork, Swapping
<1>11. CASE HAside
  BY <1>11 DEF HAside, Goes, folders, EmptyWork, Swapping
<1>12. CASE HPlace
  BY <1>12 DEF HPlace, Leaves, Goes, folders, EmptyWork, Swapping
<1>13. CASE HUndo
  BY <1>13 DEF HUndo, Leaves, folders, EmptyWork, Swapping
<1>14. CASE Listen
  BY <1>14 DEF Listen, folders, EmptyWork, Swapping
<1>15. CASE HelperDies
  BY <1>15 DEF HelperDies, folders, Swapping
<1>16. CASE SendRequest \/ ReadAnswer \/ Download \/ SendEnd \/ CheckCancel \/
          ReadReport \/ LastCheck \/ SetReady \/ Shut \/ CloseSheet \/ PressCancel
          \/ ReadyCancelling \/ ApplySends \/ ApplyAnswered \/ AnswerLate \/
          SeesFailed \/ SeesCancelled \/ AppCloses \/ AppOpens \/ Report \/
          UndoFails
  BY <1>16 DEF SendRequest, ReadAnswer, Download, SendEnd, CheckCancel, ReadReport,
      LastCheck, SetReady, Shut, CloseSheet, PressCancel, ReadyCancelling, ApplySends,
      ApplyAnswered, AnswerLate, SeesFailed, SeesCancelled, AppCloses, AppOpens, Report,
      UndoFails, folders, user
<1>17. CASE UNCHANGED vars
  BY <1>17 DEF vars
<1> QED
  BY StepCases, <1>1, <1>2, <1>3, <1>4, <1>5, <1>6, <1>7, <1>8, <1>9, <1>10, <1>11,
      <1>12, <1>13, <1>14, <1>15, <1>16, <1>17

LEMMA StagedStep == HelperType /\ FolderType /\ Origin /\ Unharmed /\ Unharmed' /\
      Staged /\ [Next]_vars => Staged'
<1> SUFFICES ASSUME HelperType /\ FolderType /\ Origin /\ Unharmed /\ Unharmed' /\
      Staged, [Next]_vars PROVE Staged'
  OBVIOUS
<1> USE DEF HelperType, Helpers, FolderType, Works, Staged
<1>1. CASE Connect
  BY <1>1 DEF Connect, NoHelper, folders
<1>2. CASE Begin
  BY <1>2 DEF Begin, NoHelper, folders
<1>3. CASE HRequest
  BY <1>3 DEF HRequest, Goes, folders, EmptyWork, Swapping
<1>4. CASE HMake
  BY <1>4 DEF HMake, Fails, Leaves, Goes, folders, EmptyWork, Swapping
<1>5. CASE HReceive
  BY <1>5 DEF HReceive, Fails, Leaves, Goes, folders, EmptyWork, Swapping
<1>6. CASE HUnpack
  BY <1>6 DEF HUnpack, Fails, Leaves, Goes, folders, EmptyWork, Swapping
<1>7. CASE HPrepare
  BY <1>7 DEF HPrepare, Fails, Leaves, Goes, folders, EmptyWork, Swapping
<1>8. CASE HHold
  BY <1>8 DEF HHold, Leaves, Goes, folders, EmptyWork, Swapping
<1>9. CASE HAwait
  BY <1>9 DEF HAwait, Leaves, Goes, folders, EmptyWork, Swapping
<1>10. CASE HSettle
  BY <1>10 DEF HSettle, Leaves, Goes, folders, EmptyWork, Swapping
<1>11. CASE HAside
  BY <1>11 DEF HAside, Goes, folders, EmptyWork, Swapping
<1>12. CASE HPlace
  BY <1>12 DEF HPlace, Leaves, Goes, folders, EmptyWork, Swapping
<1>13. CASE HUndo
  BY <1>13 DEF HUndo, Leaves, folders, EmptyWork, Swapping
<1>14. CASE Listen
  BY <1>14 DEF Listen, folders, EmptyWork, Swapping
<1>15. CASE HelperDies
  BY <1>15 DEF HelperDies, folders, EmptyWork, Swapping
<1>16. CASE SendRequest \/ ReadAnswer \/ Download \/ SendEnd \/ CheckCancel \/
          ReadReport \/ LastCheck \/ SetReady \/ Shut \/ CloseSheet \/ PressCancel
          \/ ReadyCancelling \/ ApplySends \/ ApplyAnswered \/ AnswerLate \/
          SeesFailed \/ SeesCancelled \/ AppCloses \/ AppOpens \/ Report \/
          UndoFails
  BY <1>16 DEF SendRequest, ReadAnswer, Download, SendEnd, CheckCancel, ReadReport,
      LastCheck, SetReady, Shut, CloseSheet, PressCancel, ReadyCancelling, ApplySends,
      ApplyAnswered, AnswerLate, SeesFailed, SeesCancelled, AppCloses, AppOpens, Report,
      UndoFails, folders, user
<1>17. CASE UNCHANGED vars
  BY <1>17 DEF vars
<1> QED
  BY StepCases, <1>1, <1>2, <1>3, <1>4, <1>5, <1>6, <1>7, <1>8, <1>9, <1>10, <1>11,
      <1>12, <1>13, <1>14, <1>15, <1>16, <1>17

LEMMA ClearedStep == HelperType /\ FolderType /\ Origin /\ Unharmed /\ Unharmed' /\
      Cleared /\ [Next]_vars => Cleared'
<1> SUFFICES ASSUME HelperType /\ FolderType /\ Origin /\ Unharmed /\ Unharmed' /\
      Cleared, [Next]_vars PROVE Cleared'
  OBVIOUS
<1> USE DEF HelperType, Helpers, FolderType, Folder, Works, Cleared, Entry
<1>1. CASE Connect
  BY <1>1 DEF Connect, NoHelper, folders
<1>2. CASE Begin
  BY <1>2 DEF Begin, NoHelper, folders
<1>3. CASE HRequest
  BY <1>3 DEF HRequest, Goes, folders, EmptyWork
<1>4. CASE HMake
  BY <1>4 DEF HMake, Fails, Leaves, Goes, folders, EmptyWork
<1>5. CASE HReceive
  BY <1>5 DEF HReceive, Fails, Leaves, Goes, folders, EmptyWork
<1>6. CASE HUnpack
  BY <1>6 DEF HUnpack, Fails, Leaves, Goes, folders, EmptyWork
<1>7. CASE HPrepare
  BY <1>7 DEF HPrepare, Fails, Leaves, Goes, folders, EmptyWork
<1>8. CASE HHold
  BY <1>8 DEF HHold, Leaves, Goes, folders, EmptyWork
<1>9. CASE HAwait
  BY <1>9 DEF HAwait, Leaves, Goes, folders, EmptyWork
<1>10. CASE HSettle
  BY <1>10 DEF HSettle, Leaves, Goes, folders, EmptyWork
<1>11. CASE HAside
  BY <1>11 DEF HAside, Goes, folders, EmptyWork
<1>12. CASE HPlace
  BY <1>12 DEF HPlace, Leaves, Goes, folders, EmptyWork
<1>13. CASE HUndo
  BY <1>13 DEF HUndo, Leaves, folders, EmptyWork
<1>14. CASE Listen
  BY <1>14 DEF Listen, folders, EmptyWork
<1>15. CASE HelperDies
  BY <1>15 DEF HelperDies, folders, EmptyWork
<1>16. CASE SendRequest \/ ReadAnswer \/ Download \/ SendEnd \/ CheckCancel \/
          ReadReport \/ LastCheck \/ SetReady \/ Shut \/ CloseSheet \/ PressCancel
          \/ ReadyCancelling \/ ApplySends \/ ApplyAnswered \/ AnswerLate \/
          SeesFailed \/ SeesCancelled \/ AppCloses \/ AppOpens \/ Report \/
          UndoFails
  BY <1>16 DEF SendRequest, ReadAnswer, Download, SendEnd, CheckCancel, ReadReport,
      LastCheck, SetReady, Shut, CloseSheet, PressCancel, ReadyCancelling, ApplySends,
      ApplyAnswered, AnswerLate, SeesFailed, SeesCancelled, AppCloses, AppOpens, Report,
      UndoFails, folders, user
<1>17. CASE UNCHANGED vars
  BY <1>17 DEF vars
<1> QED
  BY StepCases, <1>1, <1>2, <1>3, <1>4, <1>5, <1>6, <1>7, <1>8, <1>9, <1>10, <1>11,
      <1>12, <1>13, <1>14, <1>15, <1>16, <1>17

LEMMA UnderwayStep == HelperType /\ FolderType /\ Origin /\ Unharmed /\ Unharmed' /\
      Untouched /\ Staged /\ Underway /\ Cleared /\ [Next]_vars => Underway'
<1> SUFFICES ASSUME HelperType /\ FolderType /\ Origin /\ Unharmed /\ Unharmed' /\
      Untouched /\ Staged /\ Underway /\ Cleared, [Next]_vars PROVE Underway'
  OBVIOUS
<1> USE DEF HelperType, Helpers, FolderType, Folder, Works, Underway, Swapping
<1>1. CASE Connect
  BY <1>1, SameEntries DEF Connect, NoHelper, folders
<1>2. CASE Begin
  BY <1>2, SameEntries DEF Begin, NoHelper, folders
<1>3. CASE HRequest
  BY <1>3, SameEntries DEF HRequest, Goes, folders, EmptyWork
<1>4. CASE HMake
  BY <1>4, SameEntries DEF HMake, Fails, Leaves, Goes, folders, EmptyWork
<1>5. CASE HReceive
  BY <1>5, SameEntries DEF HReceive, Fails, Leaves, Goes, folders, EmptyWork
<1>6. CASE HUnpack
  BY <1>6, SameEntries DEF HUnpack, Fails, Leaves, Goes, folders, EmptyWork
<1>7. CASE HPrepare
  BY <1>7, SameEntries DEF HPrepare, Fails, Leaves, Goes, folders, EmptyWork
<1>8. CASE HHold
  BY <1>8, SameEntries DEF HHold, Leaves, Goes, folders, EmptyWork
<1>9. CASE HAwait
  BY <1>9, SameEntries DEF HAwait, Leaves, Goes, folders, EmptyWork
<1>10. CASE HSettle
  <2>1. CASE Goes("aside") /\ UNCHANGED <<link, work>>
    <3>1. EachEntry
      BY <1>10, SwapStarts DEF HSettle, Untouched, Staged, Before
    <3>2. UNCHANGED folders
      BY <1>10, <2>1 DEF HSettle, folders
    <3> QED
      BY <3>1, <3>2, SameEntries
  <2>2. CASE Leaves("gone")
    BY <2>2 DEF Leaves
  <2> QED
    BY <1>10, <2>1, <2>2 DEF HSettle
<1>11. CASE HAside
  BY <1>11, SameEntries DEF HAside, Goes, folders, EachEntry, InPlace, Aside, Placed,
      Staged, Entry
<1>12. CASE HPlace
  <2>1. CASE \E e \in work.staged :
                /\ target' = [target EXCEPT ![e] = "new"]
                /\ work' = [work EXCEPT !.staged = @ \ {e}]
    <3>1. PICK d \in work.staged :
                /\ target' = [target EXCEPT ![d] = "new"]
                /\ work' = [work EXCEPT !.staged = @ \ {d}]
      BY <2>1
    <3>2. EachEntry /\ d \in New /\ target[d] # "old"
      BY <1>12, <3>1 DEF HPlace, Cleared
    <3>3. /\ work'.staged = work.staged \ {d} /\ work'.backup = work.backup
          /\ \A e \in Entry : target'[e] = IF e = d THEN "new" ELSE target[e]
      BY <3>1
    <3> QED
      BY <3>1, <3>2, <3>3 DEF EachEntry, InPlace, Aside, Placed
  <2>2. CASE Goes("undo") /\ UNCHANGED <<link, folders>>
    BY <1>12, <2>2, SameEntries DEF HPlace
  <2>3. CASE Leaves("updated")
    BY <2>3 DEF Leaves
  <2> QED
    BY <1>12, <2>1, <2>2, <2>3 DEF HPlace
<1>13. CASE HUndo
  <2>1. CASE \E e \in New :
                /\ target[e] = "new"
                /\ target' = [target EXCEPT ![e] = "none"]
                /\ work' = [work EXCEPT !.staged = @ \cup {e}]
    <3>1. PICK d \in New :
                /\ target[d] = "new"
                /\ target' = [target EXCEPT ![d] = "none"]
                /\ work' = [work EXCEPT !.staged = @ \cup {d}]
      BY <2>1
    <3> QED
      BY <1>13, <3>1 DEF HUndo, EachEntry, InPlace, Aside, Placed, Entry, Goes
  <2>2. CASE \E e \in work.backup :
                /\ NewOut
                /\ target' = [target EXCEPT ![e] = "old"]
                /\ work' = [work EXCEPT !.backup = @ \ {e}]
    <3>1. PICK d \in work.backup :
                /\ NewOut
                /\ target' = [target EXCEPT ![d] = "old"]
                /\ work' = [work EXCEPT !.backup = @ \ {d}]
      BY <2>2
    <3>2. d \in Old \cap New
      BY <3>1
    <3> QED
      BY <1>13, <3>1, <3>2, NoFault DEF HUndo, EachEntry, InPlace, Aside, Placed, Entry, Goes
  <2>3. CASE Leaves("gone")
    BY <2>3 DEF Leaves
  <2> QED
    BY <1>13, <2>1, <2>2, <2>3 DEF HUndo
<1>14. CASE Listen
  BY <1>14, SameEntries DEF Listen, folders, EmptyWork
<1>15. CASE HelperDies
  BY <1>15, SameEntries DEF HelperDies, folders, EmptyWork
<1>16. CASE UndoFails
  BY <1>16, NoFault DEF UndoFails, folders, EmptyWork
<1>17. CASE SendRequest \/ ReadAnswer \/ Download \/ SendEnd \/ CheckCancel \/
          ReadReport \/ LastCheck \/ SetReady \/ Shut \/ CloseSheet \/ PressCancel
          \/ ReadyCancelling \/ ApplySends \/ ApplyAnswered \/ AnswerLate \/
          SeesFailed \/ SeesCancelled \/ AppCloses \/ AppOpens \/ Report
  BY <1>17, SameEntries DEF SendRequest, ReadAnswer, Download, SendEnd, CheckCancel,
      ReadReport, LastCheck, SetReady, Shut, CloseSheet, PressCancel, ReadyCancelling,
      ApplySends, ApplyAnswered, AnswerLate, SeesFailed, SeesCancelled, AppCloses,
      AppOpens, Report, folders, user
<1>18. CASE UNCHANGED vars
  BY <1>18, SameEntries DEF vars, folders
<1> QED
  BY StepCases, <1>1, <1>2, <1>3, <1>4, <1>5, <1>6, <1>7, <1>8, <1>9, <1>10, <1>11,
      <1>12, <1>13, <1>14, <1>15, <1>16, <1>17, <1>18

(* The installed folder and the work folder during an update: the          *)
(* invariant behind TargetWhole and OldEntriesKept. *)
THEOREM AlwaysSwap == Spec => []SwapInv
<1>1. Init => SwapInv
  <2> SUFFICES ASSUME Init PROVE SwapInv
    OBVIOUS
  <2>1. helper.at = "off" /\ job.at = "none" /\ target = OldFolder
    BY DEF Init, NoHelper, NoJob
  <2> QED
    BY InitTyped, <2>1 DEF SwapInv, Fresh, Whole, Untouched, Staged, Underway,
       Cleared, Before, Swapping
<1>2. SwapInv /\ [Next]_vars => SwapInv'
  <2> SUFFICES ASSUME SwapInv, [Next]_vars PROVE SwapInv'
    OBVIOUS
  <2>1. JobType /\ HelperType /\ FolderType /\ Origin
    BY TypeParts DEF SwapInv, Typed
  <2>2. Typed' /\ Fresh'
    BY <2>1, StepTyped, FreshStep DEF SwapInv
  <2>3. CASE Unharmed'
    <3>1. Unharmed /\ Whole /\ Untouched /\ Staged /\ Underway /\ Cleared
      BY <2>3, HarmLasts DEF SwapInv
    <3>2. Whole' /\ Untouched' /\ Staged' /\ Underway' /\ Cleared'
      BY <2>1, <2>3, <3>1, WholeStep, UntouchedStep, StagedStep, UnderwayStep,
         ClearedStep DEF SwapInv
    <3> QED
      BY <2>2, <3>2 DEF SwapInv
  <2> QED
    BY <2>2, <2>3 DEF SwapInv
<1> QED
  BY <1>1, <1>2, PTL DEF Spec

(* Whenever no swap is under way the installed folder is one whole         *)
(* version, at whichever entry swap_entries had to stop, if its undo works *)
(* and no kill cut it short. *)
THEOREM FolderWhole == Spec => []TargetWhole
<1>1. SwapInv => TargetWhole
  BY DEF SwapInv, Whole, TargetWhole
<1> QED
  BY <1>1, AlwaysSwap, PTL

(* At every moment each entry of the old version is in place or in the     *)
(* backup, or the whole new version is in place: clean() never removes an  *)
(* only copy. *)
THEOREM OldKept == Spec => []OldEntriesKept
<1>1. SwapInv => OldEntriesKept
  <2> SUFFICES ASSUME SwapInv, Unharmed PROVE OldEntriesKept
    BY DEF OldEntriesKept
  <2>1. CASE helper.at \in Swapping
    BY <2>1 DEF SwapInv, Underway, EachEntry, InPlace, Aside, Placed, Entry, OldEntriesKept
  <2>2. CASE helper.at \notin Swapping
    <3>1. CASE target = OldFolder
      BY <3>1 DEF OldFolder, Entry, OldEntriesKept
    <3>2. CASE target = NewFolder
      BY <2>2, <3>1, <3>2 DEF SwapInv, Whole, OldEntriesKept
    <3> QED
      BY <2>2, <3>1, <3>2 DEF SwapInv, Whole
  <2> QED
    BY <2>1, <2>2
<1> QED
  BY <1>1, AlwaysSwap, PTL

--------------------------------------------------------------------------------
(***************************************************************************)
(* After "failed" is shown no file of the app is replaced, unless the      *)
(* helper's answer came too late.  The argument is the order of the lines  *)
(* in both directions.  No go-ahead is on its way while the attempt is at  *)
(* work; and when one is sent the thread has read everything up to         *)
(* "staged", so the only line the sheet can be waiting for is "applying",  *)
(* and a connection that ends without it is that of a helper which has     *)
(* ended without a swap.                                                   *)
(***************************************************************************)
(* Before "staged" is sent; and after the go-ahead is taken. *)
Early == {"off", "request", "make", "receive", "unpack", "prepare"}
AfterGo == {"await", "settle", "updated"} \cup Swapping
Attempting == stage \in {"working", "cancelling"}
Through == job.at \in {"last", "ready"} \/ job.phase = "ready"

Unstaged(s) == \A i \in 1 .. Len(s) : s[i] # "staged"
StagedLast(s) == \A i \in 1 .. Len(s) : s[i] = "staged" => i = Len(s)

(* The parts: a helper that runs holds its end; what the stages say of the *)
(* user's press and of a failure; which lines may be unread; and that no   *)
(* go-ahead outlives a failure. *)
Joined == HelperRuns => link.helper
Cancelling == stage = "cancelling" => told.cancel
FailedStage == told.failed => stage \in {"failed", "closed", "offer"}
FreshTold == job.at = "connect" => ~told.failed
Unread == Attempting => /\ StagedLast(down)
                        /\ helper.at \in Early => Unstaged(down)
Drained == Attempting /\ Through => down = <<>> /\ helper.at \notin Early
Answer == stage = "applying" =>
    \/ down = <<>> /\ helper.at \in {"hold", "gone", "dead"}
    \/ down = <<"applying">> /\ helper.at \notin Early \cup {"hold"}
Silenced == told.failed /\ "timeout" \notin harm =>
    /\ helper.at \notin AfterGo
    /\ HelperRuns => ~helper.apply /\ Silent(up)

(* What is known from the invariants above. *)
Known == /\ JobType /\ LinkType /\ LineType /\ HelperType /\ UserType
         /\ Unsent /\ UnsentLine /\ GoAhead /\ Held /\ Fresh

LEMMA KnownFacts == CancelInv /\ SocketInv /\ SwapInv => Known
BY TypeParts DEF CancelInv, SocketInv, SwapInv, Typed, Known

LEMMA StagedSteps ==
    ASSUME NEW s \in Seq(ToApp)
    PROVE  /\ Unstaged(<<>>) /\ StagedLast(<<>>)
           /\ Unstaged(s) => StagedLast(s) /\ StagedLast(Append(s, "staged"))
           /\ Unstaged(s) => \A m \in {"ready", "fail", "p", "applying"} :
                 Unstaged(Append(s, m)) /\ StagedLast(Append(s, m))
           /\ s # <<>> /\ StagedLast(s) => StagedLast(Tail(s))
           /\ s # <<>> /\ StagedLast(s) /\ Head(s) = "staged" => Tail(s) = <<>>
           /\ s # <<>> /\ Unstaged(s) => Unstaged(Tail(s)) /\ Head(s) # "staged"
<1>1. Unstaged(<<>>) /\ StagedLast(<<>>)
  BY DEF Unstaged, StagedLast
<1>2. ASSUME Unstaged(s) PROVE StagedLast(s) /\ StagedLast(Append(s, "staged"))
  BY <1>2, AppendProperties DEF Unstaged, StagedLast, ToApp
<1>3. ASSUME Unstaged(s), NEW m \in {"ready", "fail", "p", "applying"}
      PROVE  Unstaged(Append(s, m)) /\ StagedLast(Append(s, m))
  BY <1>3, AppendProperties DEF Unstaged, StagedLast, ToApp
<1>4. ASSUME s # <<>>
      PROVE  /\ Len(s) \in Nat /\ Len(s) > 0 /\ Head(s) = s[1]
             /\ Tail(s) \in Seq(ToApp) /\ Len(Tail(s)) = Len(s) - 1
             /\ \A i \in 1 .. Len(Tail(s)) : Tail(s)[i] = s[i + 1]
  BY <1>4, HeadTailProperties, EmptySeq, LenProperties
<1>5. ASSUME s # <<>>, StagedLast(s) PROVE StagedLast(Tail(s))
  BY <1>4, <1>5 DEF StagedLast
<1>6. ASSUME s # <<>>, StagedLast(s), Head(s) = "staged" PROVE Tail(s) = <<>>
  <2>1. Len(s) = 1
    BY <1>4, <1>6 DEF StagedLast
  <2>2. Len(Tail(s)) = 0
    BY <1>4, <1>6, <2>1
  <2> QED
    BY <1>4, <1>6, <2>2, EmptySeq
<1>7. ASSUME s # <<>>, Unstaged(s) PROVE Unstaged(Tail(s)) /\ Head(s) # "staged"
  BY <1>4, <1>7 DEF Unstaged
<1> QED
  BY <1>1, <1>2, <1>3, <1>5, <1>6, <1>7

LEMMA HarmGrows == [Next]_vars => harm \subseteq harm'
<1> SUFFICES ASSUME [Next]_vars PROVE harm \subseteq harm'
  OBVIOUS
<1>1. CASE AnswerLate \/ UndoFails \/ HelperDies
  BY <1>1 DEF AnswerLate, UndoFails, HelperDies, Harmed
<1>2. CASE Connect \/ SendRequest \/ ReadAnswer \/ Download \/ SendEnd \/
          CheckCancel \/ ReadReport \/ LastCheck \/ SetReady \/ Shut \/ Begin \/
          CloseSheet \/ PressCancel \/ ReadyCancelling \/ ApplySends \/
          ApplyAnswered \/ SeesFailed \/ SeesCancelled \/ AppCloses \/ AppOpens \/
          HRequest \/ HMake \/ HReceive \/ HUnpack \/ HPrepare \/ HHold \/ HAwait \/
          HSettle \/ HAside \/ HPlace \/ HUndo \/ Listen \/ Report
  BY <1>2 DEF Connect, SendRequest, ReadAnswer, Download, SendEnd, CheckCancel,
      ReadReport, LastCheck, SetReady, Shut, Begin, CloseSheet, PressCancel,
      ReadyCancelling, ApplySends, ApplyAnswered, SeesFailed, SeesCancelled, AppCloses,
      AppOpens, HRequest, HMake, HReceive, HUnpack, HPrepare, HHold, HAwait, HSettle,
      HAside, HPlace, HUndo, Listen, Report, user, tally
<1>3. CASE UNCHANGED vars
  BY <1>3 DEF vars
<1> QED
  BY StepCases, <1>1, <1>2, <1>3

-----------------------------------------------------------------------------
(* The parts, one step each *)

LEMMA JoinedStep == LinkType /\ HelperType /\ Joined /\ [Next]_vars => Joined'
<1> SUFFICES ASSUME LinkType /\ HelperType /\ Joined, [Next]_vars PROVE Joined'
  OBVIOUS
<1> USE DEF LinkType, HelperType, Links, Helpers, Joined, HelperRuns, Ended
<1>1. CASE Connect
  BY <1>1 DEF Connect, NoHelper, user
<1>2. CASE Shut
  BY <1>2 DEF Shut, user
<1>3. CASE Begin
  BY <1>3 DEF Begin, NoHelper
<1>4. CASE PressCancel
  BY <1>4 DEF PressCancel, Cancel, user
<1>5. CASE ReadyCancelling
  BY <1>5 DEF ReadyCancelling, Cancel, user
<1>6. CASE ApplySends
  BY <1>6 DEF ApplySends, ApplyFails, user
<1>7. CASE ApplyAnswered
  BY <1>7 DEF ApplyAnswered, ApplyFails, user
<1>8. CASE AnswerLate
  BY <1>8 DEF AnswerLate, ApplyFails, user
<1>9. CASE SeesFailed
  BY <1>9 DEF SeesFailed, Finish, user
<1>10. CASE SeesCancelled
  BY <1>10 DEF SeesCancelled, Finish, user
<1>11. CASE AppCloses
  BY <1>11 DEF AppCloses, user
<1>12. CASE HRequest
  BY <1>12 DEF HRequest, Goes, user
<1>13. CASE HMake
  BY <1>13 DEF HMake, Fails, Leaves, Goes, user
<1>14. CASE HReceive
  BY <1>14 DEF HReceive, Fails, Leaves, Goes, user
<1>15. CASE HUnpack
  BY <1>15 DEF HUnpack, Fails, Leaves, Goes, user
<1>16. CASE HPrepare
  BY <1>16 DEF HPrepare, Fails, Leaves, Goes, user
<1>17. CASE HHold
  BY <1>17 DEF HHold, Leaves, Goes, user
<1>18. CASE HAwait
  BY <1>18 DEF HAwait, Leaves, Goes, user
<1>19. CASE HSettle
  BY <1>19 DEF HSettle, Leaves, Goes, user
<1>20. CASE HAside
  BY <1>20 DEF HAside, Goes, user
<1>21. CASE HPlace
  BY <1>21 DEF HPlace, Leaves, Goes, user
<1>22. CASE HUndo
  BY <1>22 DEF HUndo, Leaves, user
<1>23. CASE Listen
  BY <1>23 DEF Listen, user
<1>24. CASE HelperDies
  BY <1>24 DEF HelperDies, user
<1>25. CASE SendRequest \/ ReadAnswer \/ Download \/ SendEnd \/ CheckCancel \/
          ReadReport \/ LastCheck \/ SetReady \/ CloseSheet \/ AppOpens \/ Report \/
          UndoFails
  BY <1>25 DEF SendRequest, ReadAnswer, Download, SendEnd, CheckCancel, ReadReport,
      LastCheck, SetReady, CloseSheet, AppOpens, Report, UndoFails, folders, user
<1>26. CASE UNCHANGED vars
  BY <1>26 DEF vars
<1> QED
  BY StepCases, <1>1, <1>2, <1>3, <1>4, <1>5, <1>6, <1>7, <1>8, <1>9, <1>10, <1>11,
      <1>12, <1>13, <1>14, <1>15, <1>16, <1>17, <1>18, <1>19, <1>20, <1>21, <1>22,
      <1>23, <1>24, <1>25, <1>26

LEMMA CancellingStep == UserType /\ Cancelling /\ [Next]_vars => Cancelling'
<1> SUFFICES ASSUME UserType /\ Cancelling, [Next]_vars PROVE Cancelling'
  OBVIOUS
<1> USE DEF UserType, Cancelling
<1>1. CASE Begin
  BY <1>1 DEF Begin
<1>2. CASE CloseSheet
  BY <1>2 DEF CloseSheet, user
<1>3. CASE PressCancel
  BY <1>3 DEF PressCancel, Cancel, user
<1>4. CASE ApplySends
  BY <1>4 DEF ApplySends, ApplyFails, user
<1>5. CASE ApplyAnswered
  BY <1>5 DEF ApplyAnswered, ApplyFails, user
<1>6. CASE AnswerLate
  BY <1>6 DEF AnswerLate, ApplyFails, user
<1>7. CASE SeesFailed
  BY <1>7 DEF SeesFailed, Finish, user
<1>8. CASE SeesCancelled
  BY <1>8 DEF SeesCancelled, Finish, user
<1>9. CASE AppCloses
  BY <1>9 DEF AppCloses, user
<1>10. CASE AppOpens
  BY <1>10 DEF AppOpens, user
<1>11. CASE Connect \/ SendRequest \/ ReadAnswer \/ Download \/ SendEnd \/
          CheckCancel \/ ReadReport \/ LastCheck \/ SetReady \/ Shut \/
          ReadyCancelling \/ HRequest \/ HMake \/ HReceive \/ HUnpack \/ HPrepare \/
          HHold \/ HAwait \/ HSettle \/ HAside \/ HPlace \/ HUndo \/ Listen \/
          Report \/ UndoFails \/ HelperDies
  BY <1>11 DEF Connect, SendRequest, ReadAnswer, Download, SendEnd, CheckCancel,
      ReadReport, LastCheck, SetReady, Shut, ReadyCancelling, HRequest, HMake, HReceive,
      HUnpack, HPrepare, HHold, HAwait, HSettle, HAside, HPlace, HUndo, Listen, Report,
      UndoFails, HelperDies, folders, user
<1>12. CASE UNCHANGED vars
  BY <1>12 DEF vars
<1> QED
  BY StepCases, <1>1, <1>2, <1>3, <1>4, <1>5, <1>6, <1>7, <1>8, <1>9, <1>10, <1>11,
      <1>12

LEMMA FailedStageStep == UserType /\ FailedStage /\ [Next]_vars => FailedStage'
<1> SUFFICES ASSUME UserType /\ FailedStage, [Next]_vars PROVE FailedStage'
  OBVIOUS
<1> USE DEF UserType, FailedStage
<1>1. CASE Begin
  BY <1>1 DEF Begin
<1>2. CASE CloseSheet
  BY <1>2 DEF CloseSheet, user
<1>3. CASE PressCancel
  BY <1>3 DEF PressCancel, Cancel, user
<1>4. CASE ApplySends
  BY <1>4 DEF ApplySends, ApplyFails, user
<1>5. CASE ApplyAnswered
  BY <1>5 DEF ApplyAnswered, ApplyFails, user
<1>6. CASE AnswerLate
  BY <1>6 DEF AnswerLate, ApplyFails, user
<1>7. CASE SeesFailed
  BY <1>7 DEF SeesFailed, Finish, user
<1>8. CASE SeesCancelled
  BY <1>8 DEF SeesCancelled, Finish, user
<1>9. CASE AppCloses
  BY <1>9 DEF AppCloses, user
<1>10. CASE AppOpens
  BY <1>10 DEF AppOpens, user
<1>11. CASE Connect \/ SendRequest \/ ReadAnswer \/ Download \/ SendEnd \/
          CheckCancel \/ ReadReport \/ LastCheck \/ SetReady \/ Shut \/
          ReadyCancelling \/ HRequest \/ HMake \/ HReceive \/ HUnpack \/ HPrepare \/
          HHold \/ HAwait \/ HSettle \/ HAside \/ HPlace \/ HUndo \/ Listen \/
          Report \/ UndoFails \/ HelperDies
  BY <1>11 DEF Connect, SendRequest, ReadAnswer, Download, SendEnd, CheckCancel,
      ReadReport, LastCheck, SetReady, Shut, ReadyCancelling, HRequest, HMake, HReceive,
      HUnpack, HPrepare, HHold, HAwait, HSettle, HAside, HPlace, HUndo, Listen, Report,
      UndoFails, HelperDies, folders, user
<1>12. CASE UNCHANGED vars
  BY <1>12 DEF vars
<1> QED
  BY StepCases, <1>1, <1>2, <1>3, <1>4, <1>5, <1>6, <1>7, <1>8, <1>9, <1>10, <1>11,
      <1>12

LEMMA FreshToldStep == JobType /\ UserType /\ FreshTold /\ [Next]_vars => FreshTold'
<1> SUFFICES ASSUME JobType /\ UserType /\ FreshTold, [Next]_vars PROVE FreshTold'
  OBVIOUS
<1> USE DEF JobType, Jobs, UserType, FreshTold
<1>1. CASE Connect
  BY <1>1 DEF Connect, Stopped, user
<1>2. CASE SendRequest
  BY <1>2 DEF SendRequest, JobFails, Stopped, user
<1>3. CASE ReadAnswer
  BY <1>3 DEF ReadAnswer, JobFails, Stopped, InPhase, user
<1>4. CASE Download
  BY <1>4 DEF Download, JobFails, Stopped, user
<1>5. CASE SendEnd
  BY <1>5 DEF SendEnd, JobFails, Stopped, InPhase, user
<1>6. CASE CheckCancel
  BY <1>6 DEF CheckCancel, Stopped, user
<1>7. CASE ReadReport
  BY <1>7 DEF ReadReport, JobFails, Stopped, user
<1>8. CASE LastCheck
  BY <1>8 DEF LastCheck, Stopped, user
<1>9. CASE SetReady
  BY <1>9 DEF SetReady, InPhase, user
<1>10. CASE Shut
  BY <1>10 DEF Shut, user
<1>11. CASE Begin
  BY <1>11 DEF Begin, NoJob
<1>12. CASE CloseSheet
  BY <1>12 DEF CloseSheet, user
<1>13. CASE PressCancel
  BY <1>13 DEF PressCancel, Cancel, user
<1>14. CASE ReadyCancelling
  BY <1>14 DEF ReadyCancelling, Cancel, user
<1>15. CASE ApplySends
  BY <1>15 DEF ApplySends, ApplyFails, user
<1>16. CASE ApplyAnswered
  BY <1>16 DEF ApplyAnswered, ApplyFails, InPhase, user
<1>17. CASE AnswerLate
  BY <1>17 DEF AnswerLate, ApplyFails, user
<1>18. CASE SeesFailed
  BY <1>18 DEF SeesFailed, Finish, user
<1>19. CASE SeesCancelled
  BY <1>19 DEF SeesCancelled, Finish, user
<1>20. CASE AppCloses
  BY <1>20 DEF AppCloses, NoJob
<1>21. CASE AppOpens
  BY <1>21 DEF AppOpens, user
<1>22. CASE HRequest \/ HMake \/ HReceive \/ HUnpack \/ HPrepare \/ HHold \/ HAwait
          \/ HSettle \/ HAside \/ HPlace \/ HUndo \/ Listen \/ Report \/ UndoFails
          \/ HelperDies
  BY <1>22 DEF HRequest, HMake, HReceive, HUnpack, HPrepare, HHold, HAwait, HSettle,
      HAside, HPlace, HUndo, Listen, Report, UndoFails, HelperDies, folders, user
<1>23. CASE UNCHANGED vars
  BY <1>23 DEF vars
<1> QED
  BY StepCases, <1>1, <1>2, <1>3, <1>4, <1>5, <1>6, <1>7, <1>8, <1>9, <1>10, <1>11,
      <1>12, <1>13, <1>14, <1>15, <1>16, <1>17, <1>18, <1>19, <1>20, <1>21, <1>22, <1>23

LEMMA UnreadStep == Known /\ Cancelling /\ Unread /\ [Next]_vars => Unread'
<1> SUFFICES ASSUME Known /\ Cancelling /\ Unread, [Next]_vars PROVE Unread'
  OBVIOUS
<1> USE DEF Known, LineType, HelperType, Helpers, UserType, Unread, Attempting, Early, Swapping, Ended
<1>1. CASE Connect
  BY <1>1 DEF Connect, Fresh, NoHelper, user
<1>2. CASE SendRequest
  BY <1>2 DEF SendRequest, JobFails, user
<1>3. CASE ReadAnswer
  BY <1>3, StagedSteps DEF ReadAnswer, JobFails, user
<1>4. CASE Download
  BY <1>4 DEF Download, JobFails, user
<1>5. CASE SendEnd
  BY <1>5 DEF SendEnd, JobFails, user
<1>6. CASE ReadReport
  BY <1>6, StagedSteps DEF ReadReport, JobFails, user
<1>7. CASE Begin
  BY <1>7, StagedSteps DEF Begin
<1>8. CASE CloseSheet
  BY <1>8 DEF CloseSheet, user
<1>9. CASE PressCancel
  BY <1>9 DEF PressCancel, Cancel, user
<1>10. CASE ReadyCancelling
  BY <1>10 DEF ReadyCancelling, Cancel, user
<1>11. CASE ApplySends
  BY <1>11 DEF ApplySends, ApplyFails, user
<1>12. CASE ApplyAnswered
  BY <1>12 DEF ApplyAnswered, ApplyFails, user
<1>13. CASE AnswerLate
  BY <1>13 DEF AnswerLate, ApplyFails, user
<1>14. CASE SeesFailed
  BY <1>14 DEF SeesFailed, Finish, user
<1>15. CASE SeesCancelled
  BY <1>15 DEF SeesCancelled, Finish, user
<1>16. CASE AppCloses
  BY <1>16 DEF AppCloses, user
<1>17. CASE AppOpens
  BY <1>17 DEF AppOpens, user
<1>18. CASE HRequest
  BY <1>18 DEF HRequest, Goes, user
<1>19. CASE HMake
  BY <1>19, StagedSteps DEF HMake, Fails, Leaves, Goes, user
<1>20. CASE HReceive
  BY <1>20, StagedSteps DEF HReceive, Fails, Leaves, Goes, user
<1>21. CASE HUnpack
  BY <1>21, StagedSteps DEF HUnpack, Fails, Leaves, Goes, user
<1>22. CASE HPrepare
  BY <1>22, StagedSteps DEF HPrepare, Fails, Leaves, Goes, user
<1>23. CASE HHold
  BY <1>23, StagedSteps DEF HHold, Leaves, Goes, Unsent, Cancelling, user
<1>24. CASE HAwait
  BY <1>24 DEF HAwait, Leaves, Goes, user
<1>25. CASE HSettle
  BY <1>25 DEF HSettle, Leaves, Goes, user
<1>26. CASE HAside
  BY <1>26 DEF HAside, Goes, user
<1>27. CASE HPlace
  BY <1>27 DEF HPlace, Leaves, Goes, user
<1>28. CASE HUndo
  BY <1>28 DEF HUndo, Leaves, user
<1>29. CASE Listen
  BY <1>29 DEF Listen, user
<1>30. CASE Report
  BY <1>30, StagedSteps DEF Report, user
<1>31. CASE HelperDies
  BY <1>31 DEF HelperDies, HelperRuns, user
<1>32. CASE CheckCancel \/ LastCheck \/ SetReady \/ Shut \/ UndoFails
  BY <1>32 DEF CheckCancel, LastCheck, SetReady, Shut, UndoFails, folders, user
<1>33. CASE UNCHANGED vars
  BY <1>33 DEF vars
<1> QED
  BY StepCases, <1>1, <1>2, <1>3, <1>4, <1>5, <1>6, <1>7, <1>8, <1>9, <1>10, <1>11,
      <1>12, <1>13, <1>14, <1>15, <1>16, <1>17, <1>18, <1>19, <1>20, <1>21, <1>22,
      <1>23, <1>24, <1>25, <1>26, <1>27, <1>28, <1>29, <1>30, <1>31, <1>32, <1>33

LEMMA DrainedStep == Known /\ Cancelling /\ Unread /\ Drained /\ [Next]_vars =>
      Drained'
<1> SUFFICES ASSUME Known /\ Cancelling /\ Unread /\ Drained, [Next]_vars PROVE
      Drained'
  OBVIOUS
<1> USE DEF Known, LineType, JobType, Jobs, HelperType, Helpers, UserType, Drained, Through, Attempting, Early, Swapping, Ended, Held
<1>1. CASE Connect
  BY <1>1 DEF Connect, Fresh, NoHelper, Stopped, user
<1>2. CASE SendRequest
  BY <1>2 DEF SendRequest, JobFails, Stopped, user
<1>3. CASE ReadAnswer
  BY <1>3 DEF ReadAnswer, JobFails, Stopped, InPhase, user
<1>4. CASE Download
  BY <1>4 DEF Download, JobFails, Stopped, user
<1>5. CASE SendEnd
  BY <1>5 DEF SendEnd, JobFails, Stopped, InPhase, user
<1>6. CASE CheckCancel
  BY <1>6 DEF CheckCancel, Stopped, user
<1>7. CASE ReadReport
  BY <1>7, StagedSteps DEF ReadReport, JobFails, Unread, Stopped, user
<1>8. CASE LastCheck
  BY <1>8 DEF LastCheck, Stopped, user
<1>9. CASE SetReady
  BY <1>9 DEF SetReady, InPhase, user
<1>10. CASE Shut
  BY <1>10 DEF Shut, user
<1>11. CASE Begin
  BY <1>11 DEF Begin, NoJob
<1>12. CASE CloseSheet
  BY <1>12 DEF CloseSheet, user
<1>13. CASE PressCancel
  BY <1>13 DEF PressCancel, Cancel, user
<1>14. CASE ReadyCancelling
  BY <1>14 DEF ReadyCancelling, Cancel, user
<1>15. CASE ApplySends
  BY <1>15 DEF ApplySends, ApplyFails, user
<1>16. CASE ApplyAnswered
  BY <1>16 DEF ApplyAnswered, ApplyFails, InPhase, user
<1>17. CASE AnswerLate
  BY <1>17 DEF AnswerLate, ApplyFails, user
<1>18. CASE SeesFailed
  BY <1>18 DEF SeesFailed, Finish, user
<1>19. CASE SeesCancelled
  BY <1>19 DEF SeesCancelled, Finish, user
<1>20. CASE AppCloses
  BY <1>20 DEF AppCloses, NoJob
<1>21. CASE AppOpens
  BY <1>21 DEF AppOpens, user
<1>22. CASE HRequest
  BY <1>22 DEF HRequest, Goes, user
<1>23. CASE HMake
  BY <1>23 DEF HMake, Fails, Leaves, Goes, user
<1>24. CASE HReceive
  BY <1>24 DEF HReceive, Fails, Leaves, Goes, user
<1>25. CASE HUnpack
  BY <1>25 DEF HUnpack, Fails, Leaves, Goes, user
<1>26. CASE HPrepare
  BY <1>26 DEF HPrepare, Fails, Leaves, Goes, user
<1>27. CASE HHold
  BY <1>27 DEF HHold, Leaves, Goes, Unsent, Cancelling, user
<1>28. CASE HAwait
  BY <1>28 DEF HAwait, Leaves, Goes, user
<1>29. CASE HSettle
  BY <1>29 DEF HSettle, Leaves, Goes, user
<1>30. CASE HAside
  BY <1>30 DEF HAside, Goes, user
<1>31. CASE HPlace
  BY <1>31 DEF HPlace, Leaves, Goes, user
<1>32. CASE HUndo
  BY <1>32 DEF HUndo, Leaves, user
<1>33. CASE Listen
  BY <1>33 DEF Listen, user
<1>34. CASE Report
  BY <1>34 DEF Report, user
<1>35. CASE HelperDies
  BY <1>35 DEF HelperDies, user
<1>36. CASE UndoFails
  BY <1>36 DEF UndoFails, folders, user
<1>37. CASE UNCHANGED vars
  BY <1>37 DEF vars
<1> QED
  BY StepCases, <1>1, <1>2, <1>3, <1>4, <1>5, <1>6, <1>7, <1>8, <1>9, <1>10, <1>11,
      <1>12, <1>13, <1>14, <1>15, <1>16, <1>17, <1>18, <1>19, <1>20, <1>21, <1>22,
      <1>23, <1>24, <1>25, <1>26, <1>27, <1>28, <1>29, <1>30, <1>31, <1>32, <1>33,
      <1>34, <1>35, <1>36, <1>37

LEMMA FirstLine == Append(<<>>, "applying") = <<"applying">>
OBVIOUS

LEMMA AnswerStep == Known /\ Drained /\ Answer /\ [Next]_vars => Answer'
<1> SUFFICES ASSUME Known /\ Drained /\ Answer, [Next]_vars PROVE Answer'
  OBVIOUS
<1> USE DEF Known, LineType, HelperType, Helpers, UserType, Answer, Early, Swapping, Ended, Held
<1>1. CASE Connect
  BY <1>1 DEF Connect, user
<1>2. CASE SendRequest
  BY <1>2 DEF SendRequest, JobFails, user
<1>3. CASE ReadAnswer
  BY <1>3 DEF ReadAnswer, JobFails, user
<1>4. CASE Download
  BY <1>4 DEF Download, JobFails, user
<1>5. CASE SendEnd
  BY <1>5 DEF SendEnd, JobFails, user
<1>6. CASE CheckCancel
  BY <1>6 DEF CheckCancel, user
<1>7. CASE ReadReport
  BY <1>7 DEF ReadReport, JobFails, user
<1>8. CASE LastCheck
  BY <1>8 DEF LastCheck, user
<1>9. CASE SetReady
  BY <1>9 DEF SetReady, user
<1>10. CASE Shut
  BY <1>10 DEF Shut, user
<1>11. CASE Begin
  BY <1>11 DEF Begin
<1>12. CASE CloseSheet
  BY <1>12 DEF CloseSheet, user
<1>13. CASE PressCancel
  BY <1>13 DEF PressCancel, Cancel, user
<1>14. CASE ReadyCancelling
  BY <1>14 DEF ReadyCancelling, Cancel, user
<1>15. CASE ApplySends
  <2>1. CASE stage' = "applying"
    <3>1. down = <<>> /\ helper.at \notin Early
      BY <1>15 DEF ApplySends, Drained, Attempting, Through
    <3>2. helper.at \notin AfterGo
      BY <1>15 DEF ApplySends, Unsent, GoAhead, AfterGo
    <3>3. helper.at \in {"hold", "gone", "dead"}
      BY <3>1, <3>2 DEF Early, AfterGo, HelperPlace
    <3> QED
      BY <1>15, <3>1, <3>3 DEF ApplySends
  <2>2. CASE ApplyFails
    BY <2>2 DEF ApplyFails
  <2> QED
    BY <1>15, <2>1, <2>2 DEF ApplySends
<1>16. CASE ApplyAnswered
  BY <1>16 DEF ApplyAnswered, ApplyFails, user
<1>17. CASE AnswerLate
  BY <1>17 DEF AnswerLate, ApplyFails, user
<1>18. CASE SeesFailed
  BY <1>18 DEF SeesFailed, Finish, user
<1>19. CASE SeesCancelled
  BY <1>19 DEF SeesCancelled, Finish, user
<1>20. CASE AppCloses
  BY <1>20 DEF AppCloses, user
<1>21. CASE AppOpens
  BY <1>21 DEF AppOpens, user
<1>22. CASE HRequest
  BY <1>22 DEF HRequest, Goes, user
<1>23. CASE HMake
  BY <1>23 DEF HMake, Fails, Leaves, Goes, user
<1>24. CASE HReceive
  BY <1>24 DEF HReceive, Fails, Leaves, Goes, user
<1>25. CASE HUnpack
  BY <1>25 DEF HUnpack, Fails, Leaves, Goes, user
<1>26. CASE HPrepare
  BY <1>26 DEF HPrepare, Fails, Leaves, Goes, user
<1>27. CASE HHold
  BY <1>27, FirstLine DEF HHold, Leaves, Goes, user
<1>28. CASE HAwait
  BY <1>28 DEF HAwait, Leaves, Goes, user
<1>29. CASE HSettle
  BY <1>29 DEF HSettle, Leaves, Goes, user
<1>30. CASE HAside
  BY <1>30 DEF HAside, Goes, user
<1>31. CASE HPlace
  BY <1>31 DEF HPlace, Leaves, Goes, user
<1>32. CASE HUndo
  BY <1>32 DEF HUndo, Leaves, user
<1>33. CASE Listen
  BY <1>33 DEF Listen, user
<1>34. CASE Report
  BY <1>34 DEF Report, user
<1>35. CASE HelperDies
  BY <1>35 DEF HelperDies, user
<1>36. CASE UndoFails
  BY <1>36 DEF UndoFails, folders, user
<1>37. CASE UNCHANGED vars
  BY <1>37 DEF vars
<1> QED
  BY StepCases, <1>1, <1>2, <1>3, <1>4, <1>5, <1>6, <1>7, <1>8, <1>9, <1>10, <1>11,
      <1>12, <1>13, <1>14, <1>15, <1>16, <1>17, <1>18, <1>19, <1>20, <1>21, <1>22,
      <1>23, <1>24, <1>25, <1>26, <1>27, <1>28, <1>29, <1>30, <1>31, <1>32, <1>33,
      <1>34, <1>35, <1>36, <1>37

LEMMA HelperGoes ==
    ASSUME HelperType, HMake \/ HReceive \/ HUnpack \/ HPrepare \/ HHold
    PROVE  /\ HelperRuns
           /\ helper'.apply = helper.apply
           /\ helper'.at \in AfterGo => helper.apply
           /\ UNCHANGED <<told, harm>>
<1> USE DEF HelperType, Helpers, HelperRuns, AfterGo, Swapping, Ended
<1>1. UNCHANGED <<told, harm>>
  BY DEF HMake, HReceive, HUnpack, HPrepare, HHold, user, tally
<1>2. CASE HMake
  BY <1>1, <1>2 DEF HMake, Fails, Leaves, Goes
<1>3. CASE HReceive
  BY <1>1, <1>3 DEF HReceive, Fails, Leaves
<1>4. CASE HUnpack
  BY <1>1, <1>4 DEF HUnpack, Fails, Leaves, Goes
<1>5. CASE HPrepare
  BY <1>1, <1>5 DEF HPrepare, Fails, Leaves, Goes
<1>6. CASE HHold
  BY <1>1, <1>6 DEF HHold, Leaves, Goes
<1> QED
  BY <1>2, <1>3, <1>4, <1>5, <1>6

LEMMA SilencedStep == Known /\ Joined /\ FailedStage /\ FreshTold /\ Answer /\
      Silenced /\ [Next]_vars => Silenced'
<1> SUFFICES ASSUME Known /\ Joined /\ FailedStage /\ FreshTold /\ Answer /\
      Silenced, [Next]_vars PROVE Silenced'
  OBVIOUS
<1> USE DEF Known, LineType, HelperType, Helpers, UserType, Silenced, AfterGo, Swapping, Ended, HelperRuns
<1>1. CASE Connect
  BY <1>1 DEF Connect, FreshTold, user, tally
<1>2. CASE SendRequest
  BY <1>2, SilentSteps DEF SendRequest, JobFails, user, tally
<1>3. CASE ReadAnswer
  BY <1>3, SilentSteps DEF ReadAnswer, JobFails, user, tally
<1>4. CASE Download
  BY <1>4, SilentSteps DEF Download, JobFails, user, tally
<1>5. CASE SendEnd
  BY <1>5, SilentSteps DEF SendEnd, JobFails, user, tally
<1>6. CASE CheckCancel
  BY <1>6, SilentSteps DEF CheckCancel, user, tally
<1>7. CASE ReadReport
  BY <1>7, SilentSteps DEF ReadReport, JobFails, user, tally
<1>8. CASE Begin
  <2>1. CASE told' = [cancel |-> FALSE, failed |-> FALSE]
    BY <2>1
  <2>2. CASE UNCHANGED <<up, helper, told>>
    BY <1>8, <2>2 DEF Begin
  <2> QED
    BY <1>8, <2>1, <2>2 DEF Begin
<1>9. CASE CloseSheet
  BY <1>9 DEF CloseSheet, user, tally
<1>10. CASE PressCancel
  BY <1>10, CancelLine DEF PressCancel, Cancel, user, tally
<1>11. CASE ReadyCancelling
  BY <1>11, CancelLine DEF ReadyCancelling, Cancel, user, tally
<1>12. CASE ApplySends
  <2>1. CASE stage' = "applying"
    BY <1>12, <2>1 DEF ApplySends, ApplyFails, FailedStage, user, tally
  <2>2. CASE ApplyFails /\ UNCHANGED <<up, helper, harm>>
    <3>1. ~helper.apply /\ Silent(up) /\ helper.at \notin AfterGo
      BY <1>12 DEF ApplySends, Unsent, UnsentLine, GoAhead, AfterGo
    <3> QED
      BY <2>2, <3>1
  <2> QED
    BY <1>12, <2>1, <2>2 DEF ApplySends, tally
<1>13. CASE ApplyAnswered
  <2>1. UNCHANGED <<up, helper, harm>>
    BY <1>13 DEF ApplyAnswered, tally
  <2>2. CASE UNCHANGED told
    BY <2>1, <2>2
  <2>3. CASE ApplyFails
    <3>1. ApplyFails => ~HelperRuns /\ helper.at \notin AfterGo
      <4>1. stage = "applying"
        BY <1>13 DEF ApplyAnswered
      <4>2. ASSUME down # <<>> PROVE Head(down) = "applying"
        BY <4>1, <4>2 DEF Answer
      <4>3. CASE down = <<>>
        <5>1. ~link.helper
          BY <1>13, <2>3, <4>3 DEF ApplyAnswered, ApplyFails
        <5>2. helper.at \in {"hold", "gone", "dead"}
          BY <4>1, <4>3 DEF Answer
        <5> QED
          BY <5>1, <5>2 DEF Joined, AfterGo
      <4>4. CASE down # <<>>
        BY <1>13, <2>3, <4>2, <4>4 DEF ApplyAnswered, ApplyFails
      <4> QED
        BY <4>3, <4>4
    <3> QED
      BY <2>1, <2>3, <3>1 DEF HelperRuns
  <2> QED
    BY <1>13, <2>2, <2>3 DEF ApplyAnswered
<1>14. CASE AnswerLate
  BY <1>14 DEF AnswerLate, ApplyFails, Harmed, user
<1>15. CASE SeesFailed
  <2>1. UNCHANGED <<up, helper, harm>>
    BY <1>15 DEF SeesFailed, tally
  <2>2. CASE UNCHANGED told
    BY <2>1, <2>2
  <2>3. CASE stage = "working"
    <3>1. ~helper.apply /\ Silent(up) /\ helper.at \notin AfterGo
      BY <2>3 DEF Unsent, UnsentLine, GoAhead, AfterGo
    <3> QED
      BY <2>1, <3>1
  <2> QED
    BY <1>15, <2>2, <2>3 DEF SeesFailed
<1>16. CASE SeesCancelled
  BY <1>16 DEF SeesCancelled, Finish, user, tally
<1>17. CASE AppCloses
  BY <1>17 DEF AppCloses, user, tally
<1>18. CASE AppOpens
  BY <1>18 DEF AppOpens, user, tally
<1>19. CASE HRequest
  BY <1>19, SilentSteps DEF HRequest, Goes, user, tally
<1>20. CASE HMake
  <2>1. UNCHANGED up
    BY <1>20 DEF HMake
  <2> QED
    BY <1>20, <2>1, HelperGoes
<1>21. CASE HReceive
  <2>1. Silent(up) => Silent(up)'
    BY <1>21, SilentSteps DEF HReceive
  <2> QED
    BY <1>21, <2>1, HelperGoes
<1>22. CASE HUnpack
  <2>1. UNCHANGED up
    BY <1>22 DEF HUnpack
  <2> QED
    BY <1>22, <2>1, HelperGoes
<1>23. CASE HPrepare
  <2>1. UNCHANGED up
    BY <1>23 DEF HPrepare
  <2> QED
    BY <1>23, <2>1, HelperGoes
<1>24. CASE HHold
  <2>1. UNCHANGED up
    BY <1>24 DEF HHold
  <2> QED
    BY <1>24, <2>1, HelperGoes
<1>25. CASE HAwait
  BY <1>25 DEF HAwait, Leaves, Goes, user, tally
<1>26. CASE HSettle
  BY <1>26 DEF HSettle, Leaves, Goes, user, tally
<1>27. CASE HAside
  BY <1>27 DEF HAside, Goes, user, tally
<1>28. CASE HPlace
  BY <1>28 DEF HPlace, Leaves, Goes, user, tally
<1>29. CASE HUndo
  BY <1>29 DEF HUndo, Leaves, user, tally
<1>30. CASE Listen
  BY <1>30, SilentSteps DEF Listen, user, tally
<1>31. CASE UndoFails
  BY <1>31, HarmGrows DEF UndoFails, Harmed, user
<1>32. CASE HelperDies
  BY <1>32, HarmGrows DEF HelperDies, Harmed, user
<1>33. CASE LastCheck \/ SetReady \/ Shut \/ Report
  BY <1>33 DEF LastCheck, SetReady, Shut, Report, folders, user, tally
<1>34. CASE UNCHANGED vars
  BY <1>34 DEF vars
<1> QED
  BY StepCases, <1>1, <1>2, <1>3, <1>4, <1>5, <1>6, <1>7, <1>8, <1>9, <1>10, <1>11,
      <1>12, <1>13, <1>14, <1>15, <1>16, <1>17, <1>18, <1>19, <1>20, <1>21, <1>22,
      <1>23, <1>24, <1>25, <1>26, <1>27, <1>28, <1>29, <1>30, <1>31, <1>32, <1>33, <1>34

-----------------------------------------------------------------------------
(* What was shown to have failed stays undone *)

FailInv == /\ Known /\ Joined /\ Cancelling /\ FailedStage /\ FreshTold
           /\ Unread /\ Drained /\ Answer /\ Silenced

(* The invariant behind FailedChangesNothing: which lines may be unread in *)
(* either direction at each stage of the sheet. *)
THEOREM AlwaysFailure == Spec => []FailInv
<1>1. Spec => []Known
  BY KnownFacts, AlwaysCancel, AlwaysSocket, AlwaysSwap, PTL
<1>2. Init /\ Known => FailInv
  <2> SUFFICES ASSUME Init, Known PROVE FailInv
    OBVIOUS
  <2>1. helper.at = "off" /\ job.at = "none" /\ stage \in {"closed", "offer"} /\ ~told.failed
    BY DEF Init, NoHelper, NoJob
  <2> QED
    BY <2>1 DEF FailInv, Joined, Cancelling, FailedStage, FreshTold, Unread, Drained,
       Answer, Silenced, Attempting, HelperRuns, Ended
<1>3. FailInv /\ Known' /\ [Next]_vars => FailInv'
  BY JoinedStep, CancellingStep, FailedStageStep, FreshToldStep, UnreadStep,
     DrainedStep, AnswerStep, SilencedStep DEF FailInv, Known
<1> QED
  BY <1>1, <1>2, <1>3, PTL DEF Spec

(* When the sheet says an attempt failed, no file has been replaced and    *)
(* none will be ("nothing was changed", tv/platform.hpp), unless the       *)
(* helper's answer came after the sheet had stopped waiting for it. *)
THEOREM FailureIsHarmless == Spec => []FailedChangesNothing
<1>1. FailInv => FailedChangesNothing
  BY DEF FailInv, Silenced, AfterGo, FailedChangesNothing
<1> QED
  BY <1>1, AlwaysFailure, PTL

--------------------------------------------------------------------------------
(***************************************************************************)
(* The refinement of AppUpdate.  The version changes with the last rename  *)
(* into place; what is left of the proof is that no other step reaches or  *)
(* leaves the whole new folder: an undo has always begun before its last   *)
(* entry, and a helper that finds the new version in place does not start. *)
(***************************************************************************)
Unfinished == helper.at = "undo" => work.staged # {}
OutcomeInv == SwapInv /\ CancelInv /\ FailInv /\ (Unharmed => Unfinished)

LEMMA UnfinishedStep ==
    ASSUME SwapInv, Unharmed, Unharmed', Unfinished, [Next]_vars
    PROVE  Unfinished'
<1>1. JobType /\ HelperType /\ FolderType /\ Staged /\ Param \in New
  BY TypeParts, UpdateAssumption DEF SwapInv, Typed
<1> USE <1>1 DEF HelperType, Helpers, FolderType, Works, Unfinished
<1>2. CASE Connect \/ Begin
  BY <1>2 DEF Connect, Begin, NoHelper, folders
<1>3. CASE HRequest \/ HMake \/ HReceive \/ HUnpack \/ HPrepare \/ HHold \/ HAwait \/ HSettle
  BY <1>3 DEF HRequest, HMake, HReceive, HUnpack, HPrepare, HHold, HAwait, HSettle, Fails,
      Leaves, Goes
<1>4. CASE HAside
  BY <1>4 DEF HAside, Goes, folders, Staged
<1>5. CASE HPlace
  BY <1>5 DEF HPlace, Leaves, Goes, folders
<1>6. CASE HUndo
  BY <1>6 DEF HUndo, Leaves
<1>7. CASE Listen \/ HelperDies \/ UndoFails
  <2>1. CASE Listen
    BY <2>1 DEF Listen, folders
  <2>2. CASE HelperDies
    BY <2>2 DEF HelperDies
  <2> QED
    BY <1>7, <2>1, <2>2, NoFault
<1>8. CASE SendRequest \/ ReadAnswer \/ Download \/ SendEnd \/ CheckCancel \/
          ReadReport \/ LastCheck \/ SetReady \/ Shut \/ CloseSheet \/ PressCancel
          \/ ReadyCancelling \/ ApplySends \/ ApplyAnswered \/ AnswerLate \/
          SeesFailed \/ SeesCancelled \/ AppCloses \/ AppOpens \/ Report
  BY <1>8 DEF SendRequest, ReadAnswer, Download, SendEnd, CheckCancel, ReadReport,
      LastCheck, SetReady, Shut, CloseSheet, PressCancel, ReadyCancelling,
      ApplySends, ApplyAnswered, AnswerLate, SeesFailed, SeesCancelled, AppCloses,
      AppOpens, Report, folders, user
<1>9. CASE UNCHANGED vars
  BY <1>9 DEF vars
<1> QED
  BY StepCases, <1>2, <1>3, <1>4, <1>5, <1>6, <1>7, <1>8, <1>9

(* The whole new folder is met at the end of a swap and outside of one.    *)
LEMMA WhereNew ==
    ASSUME OutcomeInv, Unharmed, target = NewFolder
    PROVE  /\ helper.at \notin Before \cup {"aside", "undo"}
           /\ helper.at = "place" => work.staged = {}
<1>1. FolderType /\ Untouched /\ Staged /\ Underway /\ Unfinished
  BY TypeParts DEF OutcomeInv, SwapInv, Typed
<1>2. helper.at \notin Before
  BY <1>1, Folders DEF Untouched
<1>3. helper.at \in Swapping => work.staged = {}
  <2> SUFFICES ASSUME helper.at \in Swapping, NEW e \in work.staged
               PROVE  FALSE
    OBVIOUS
  <2>1. e \in New /\ e \in Entry /\ target[e] = "new"
    BY <1>1 DEF FolderType, Works, NewFolder, Entry
  <2> QED
    BY <1>1, <2>1 DEF Underway, EachEntry, InPlace, Aside, Placed
<1>4. helper.at # "undo"
  BY <1>1, <1>3 DEF Unfinished, Swapping
<1>5. helper.at # "aside"
  BY <1>1, <1>3, UpdateAssumption DEF Staged, Swapping
<1> QED
  BY <1>2, <1>3, <1>4, <1>5 DEF Swapping

LEMMA FolderSteps ==
    ASSUME OutcomeInv, [Next]_vars, Unharmed, Unharmed'
    PROVE  /\ target = NewFolder => target' = NewFolder
           /\ target # NewFolder /\ target' = NewFolder =>
                helper.at = "place" /\ helper'.at = "place" /\ UNCHANGED <<told, harm>>
<1>1. FolderType /\ HelperType
  BY TypeParts DEF OutcomeInv, SwapInv, Typed
<1>2. CASE HAside
  <2>1. target' = target \/ \E e \in New : target' = [target EXCEPT ![e] = "none"]
    BY <1>2 DEF HAside, folders
  <2>2. ASSUME NEW e \in New, target' = [target EXCEPT ![e] = "none"]
        PROVE  target' # NewFolder
    BY <1>1, <2>2 DEF FolderType, Folder, Entry, NewFolder
  <2> QED
    BY <1>2, <2>1, <2>2, WhereNew DEF HAside
<1>3. CASE HUndo
  <2>1. \/ target' = target
        \/ \E e \in New : target' = [target EXCEPT ![e] = "none"]
        \/ \E e \in work.backup : target' = [target EXCEPT ![e] = "old"]
    BY <1>3 DEF HUndo
  <2>2. ASSUME NEW e \in New, target' = [target EXCEPT ![e] = "none"]
        PROVE  target' # NewFolder
    BY <1>1, <2>2 DEF FolderType, Folder, Entry, NewFolder
  <2>3. ASSUME NEW e \in work.backup, target' = [target EXCEPT ![e] = "old"]
        PROVE  target' # NewFolder
    <3>1. e \in New
      BY <1>1 DEF FolderType, Works
    <3> QED
      BY <1>1, <2>3, <3>1 DEF FolderType, Folder, Entry, NewFolder
  <2> QED
    BY <1>3, <2>1, <2>2, <2>3, WhereNew DEF HUndo
<1>4. CASE HPlace
  <2>1. target' = target \/ (work.staged # {} /\ helper' = helper)
    BY <1>4 DEF HPlace, folders
  <2>2. helper.at = "place" /\ UNCHANGED <<told, harm>>
    BY <1>4 DEF HPlace, user, tally
  <2> QED
    BY <2>1, <2>2, WhereNew
<1>5. CASE \/ HRequest \/ HMake \/ HReceive \/ HUnpack \/ HPrepare \/ HHold \/ HAwait \/ HSettle
           \/ Listen \/ Report \/ UndoFails \/ HelperDies
  BY <1>5 DEF HRequest, HMake, HReceive, HUnpack, HPrepare, HHold, HAwait, HSettle, Listen,
      Report, UndoFails, HelperDies, folders
<1>6. CASE Connect \/ SendRequest \/ ReadAnswer \/ Download \/ SendEnd \/ CheckCancel \/
          ReadReport \/ LastCheck \/ SetReady \/ Shut \/ Begin \/ CloseSheet \/ PressCancel
          \/ ReadyCancelling \/ ApplySends \/ ApplyAnswered \/ AnswerLate \/
          SeesFailed \/ SeesCancelled \/ AppCloses \/ AppOpens
  BY <1>6 DEF Connect, SendRequest, ReadAnswer, Download, SendEnd, CheckCancel, ReadReport,
      LastCheck, SetReady, Shut, Begin, CloseSheet, PressCancel, ReadyCancelling,
      ApplySends, ApplyAnswered, AnswerLate, SeesFailed, SeesCancelled, AppCloses,
      AppOpens, folders
<1>7. CASE UNCHANGED vars
  BY <1>7 DEF vars
<1> QED
  BY StepCases, <1>2, <1>3, <1>4, <1>5, <1>6, <1>7

(* An attempt that has replaced the app goes on having done so until the   *)
(* next is begun.                                                          *)
LEMMA ReplacedLasts ==
    ASSUME OutcomeInv, [Next]_vars, ~Begin, Unharmed, Unharmed', target = NewFolder
    PROVE  helper.at \in {"place", "updated"} <=> helper'.at \in {"place", "updated"}
<1>1. HelperType /\ Fresh
  BY TypeParts DEF OutcomeInv, SwapInv, Typed
<1> USE <1>1 DEF HelperType, Helpers
<1>2. CASE Connect
  BY <1>2 DEF Connect, NoHelper, Fresh
<1>3. CASE \/ HRequest \/ HMake \/ HReceive \/ HUnpack \/ HPrepare \/ HHold \/ HAwait
           \/ HSettle \/ HAside \/ HUndo
  <2>1. helper.at \notin Before \cup {"aside", "undo"}
    BY WhereNew
  <2>2. HRequest \/ HMake
    BY <1>3, <2>1 DEF HReceive, HUnpack, HPrepare, HHold, HAwait, HSettle, HAside, HUndo, Before
  <2> QED
    BY <2>2 DEF HRequest, HMake, Fails, Leaves, Goes
<1>4. CASE HPlace
  BY <1>4, WhereNew DEF HPlace, Leaves
<1>5. CASE Listen \/ UndoFails
  BY <1>5 DEF Listen, UndoFails
<1>6. CASE HelperDies
  BY <1>6, NoFault DEF HelperDies, HelperRuns, Ended, Swapping
<1>7. CASE SendRequest \/ ReadAnswer \/ Download \/ SendEnd \/ CheckCancel \/
          ReadReport \/ LastCheck \/ SetReady \/ Shut \/ CloseSheet \/ PressCancel
          \/ ReadyCancelling \/ ApplySends \/ ApplyAnswered \/ AnswerLate \/
          SeesFailed \/ SeesCancelled \/ AppCloses \/ AppOpens \/ Report
  BY <1>7 DEF SendRequest, ReadAnswer, Download, SendEnd, CheckCancel, ReadReport,
      LastCheck, SetReady, Shut, CloseSheet, PressCancel, ReadyCancelling,
      ApplySends, ApplyAnswered, AnswerLate, SeesFailed, SeesCancelled, AppCloses,
      AppOpens, Report
<1>8. CASE UNCHANGED vars
  BY <1>8 DEF vars
<1> QED
  BY StepCases, <1>2, <1>3, <1>4, <1>5, <1>6, <1>7, <1>8

(* What a step without a fault tells the user.                             *)
LEMMA ToldMoves ==
    ASSUME OutcomeInv, [Next]_vars, harm = {}, harm' = {}, ~Begin
    PROVE  \/ told' = told
           \/ told.cancel /\ told'.cancel /\ UNCHANGED <<target, helper>>
           \/ /\ ~told.cancel /\ ~told.failed /\ UNCHANGED <<target, helper>>
              /\ told'.cancel \/ told'.failed
<1>1. UserType /\ Asked /\ FailedStage /\ told \in [cancel : BOOLEAN, failed : BOOLEAN]
  BY TypeParts DEF OutcomeInv, SwapInv, CancelInv, FailInv, Typed, UserType
<1>2. CASE PressCancel
  BY <1>1, <1>2 DEF PressCancel, Asked, FailedStage, folders
<1>3. CASE ApplySends \/ SeesFailed
  BY <1>1, <1>3 DEF ApplySends, ApplyFails, SeesFailed, Asked, FailedStage, folders
<1>4. CASE ApplyAnswered
  <2>1. ~told.failed /\ UNCHANGED <<target, helper>>
    BY <1>1, <1>4 DEF ApplyAnswered, FailedStage, folders
  <2>2. told' = told \/ told' = [told EXCEPT !.failed = TRUE]
    BY <1>4 DEF ApplyAnswered, ApplyFails
  <2> QED
    BY <1>1, <2>1, <2>2
<1>5. CASE AnswerLate
  BY <1>5 DEF AnswerLate, Harmed
<1>6. CASE Connect \/ SendRequest \/ ReadAnswer \/ Download \/ SendEnd \/ CheckCancel \/
          ReadReport \/ LastCheck \/ SetReady \/ Shut \/ CloseSheet
          \/ ReadyCancelling \/ SeesCancelled \/ AppCloses \/ AppOpens
  BY <1>6 DEF Connect, SendRequest, ReadAnswer, Download, SendEnd, CheckCancel, ReadReport,
      LastCheck, SetReady, Shut, CloseSheet, ReadyCancelling, SeesCancelled, AppCloses,
      AppOpens, user
<1>7. CASE HRequest \/ HMake \/ HReceive \/ HUnpack \/ HPrepare \/ HHold \/ HAwait \/
          HSettle \/ HAside \/ HPlace \/ HUndo \/ Listen \/ Report \/ UndoFails \/ HelperDies
  BY <1>7 DEF HRequest, HMake, HReceive, HUnpack, HPrepare, HHold, HAwait, HSettle, HAside,
      HPlace, HUndo, Listen, Report, UndoFails, HelperDies, user
<1>8. CASE UNCHANGED vars
  BY <1>8 DEF vars
<1> QED
  BY StepCases, <1>2, <1>3, <1>4, <1>5, <1>6, <1>7, <1>8

(* What was told excludes that the app was replaced, and the reverse.      *)
LEMMA ToldExcludes ==
    ASSUME OutcomeInv, harm = {}, told.cancel \/ told.failed
    PROVE  helper.at \notin Swapping \cup {"updated"}
<1>1. CancelInv /\ Silenced
  BY DEF OutcomeInv, FailInv
<1> QED
  BY <1>1 DEF CancelInv, Unsent, GoAhead, Silenced, AfterGo

(* A step is one of AppUpdate's, or changes nothing of what it is about.   *)
LEMMA StepUpdates ==
    ASSUME OutcomeInv, OutcomeInv', [Next]_vars
    PROVE  [Update!Next]_(Update!vars)
<1> USE DEF Update!vars
<1>1. harm \subseteq harm' /\ (Unharmed' => Unharmed)
  BY HarmGrows, HarmLasts
<1>2. CASE harm' # {}
  <2>1. Outcome' = "unknown"
    BY <1>2 DEF Outcome
  <2>2. CASE ~Unharmed'
    BY <2>1, <2>2 DEF Version, Update!Next, Update!Break
  <2>3. CASE Unharmed'
    <3>1. Unharmed
      BY <1>1, <2>3
    <3>2. CASE (target = NewFolder) <=> (target' = NewFolder)
      <4>1. Version' = Version
        BY <2>3, <3>1, <3>2 DEF Version, NewFolder
      <4> QED
        BY <2>1, <4>1 DEF Update!Next, Update!Doubt
    <3>3. CASE target # NewFolder /\ target' = NewFolder
      <4>1. harm' = harm /\ Outcome = "unknown"
        BY <1>2, <2>3, <3>1, <3>3, FolderSteps DEF Outcome
      <4>2. Version = "old" /\ Version' = "new"
        BY <2>3, <3>1, <3>3 DEF Version, NewFolder
      <4> QED
        BY <2>1, <4>1, <4>2 DEF Update!Next, Update!Replace
    <3> QED
      BY <2>3, <3>1, <3>2, <3>3, FolderSteps DEF NewFolder
  <2> QED
    BY <2>2, <2>3
<1>3. CASE harm' = {}
  <2>1. harm = {} /\ Unharmed /\ Unharmed'
    BY <1>1, <1>3 DEF Unharmed
  <2>2. /\ target = NewFolder => target' = NewFolder
        /\ target # NewFolder /\ target' = NewFolder =>
             helper.at = "place" /\ helper'.at = "place" /\ told' = told
    BY <2>1, FolderSteps
  <2>3. /\ told.cancel \/ told.failed => helper.at \notin {"place", "updated"}
        /\ told'.cancel \/ told'.failed => helper'.at \notin {"place", "updated"}
    <3>1. told.cancel \/ told.failed => helper.at \notin Swapping \cup {"updated"}
      BY <2>1, ToldExcludes
    <3>2. told'.cancel \/ told'.failed => helper'.at \notin Swapping \cup {"updated"}
      <4>1. CancelInv' /\ Silenced'
        BY DEF OutcomeInv, FailInv
      <4> QED
        BY <1>3, <4>1 DEF CancelInv, Unsent, GoAhead, Silenced, AfterGo, Swapping
    <3> QED
      BY <1>3, <3>1, <3>2 DEF Swapping
  <2>4. CASE Begin
    <3>1. target' = target /\ Version' = Version
      BY <2>1, <2>4 DEF Begin, folders, Version, NewFolder
    <3>2. Outcome' = Outcome \/ Outcome' = "undecided"
      BY <1>3, <2>1, <2>4, <3>1 DEF Begin, NoHelper, Outcome, Replaced, NewFolder
    <3>3. Outcome # "unknown"
      BY <2>1 DEF Outcome
    <3> QED
      BY <3>1, <3>2, <3>3 DEF Update!Next, Update!Begin
  <2>5. CASE ~Begin /\ told' = told /\ target # NewFolder /\ target' = NewFolder
    <3>1. Version = "old" /\ Version' = "new"
      BY <2>1, <2>5 DEF Version, NewFolder
    <3>2. helper.at = "place" /\ helper'.at = "place" /\ ~told.cancel /\ ~told.failed
      BY <2>2, <2>3, <2>5
    <3>3. Outcome = "undecided" /\ Outcome' = "replaced"
      BY <1>3, <2>1, <2>5, <3>2 DEF Outcome, Replaced, NewFolder
    <3> QED
      BY <3>1, <3>3 DEF Update!Next, Update!Replace
  <2>6. CASE ~Begin /\ told' = told /\ ~(target # NewFolder /\ target' = NewFolder)
    <3>1. Version' = Version
      BY <2>1, <2>2, <2>6 DEF Version, NewFolder
    <3>2. Replaced' <=> Replaced
      BY <2>1, <2>2, <2>6, ReplacedLasts DEF Replaced, NewFolder
    <3>3. Outcome' = Outcome
      BY <1>3, <2>1, <2>6, <3>2 DEF Outcome
    <3> QED
      BY <3>1, <3>3
  <2>7. CASE told.cancel /\ told'.cancel /\ UNCHANGED <<target, helper>>
    BY <1>3, <2>1, <2>7 DEF Version, Outcome, NewFolder
  <2>8. CASE /\ ~told.cancel /\ ~told.failed /\ UNCHANGED <<target, helper>>
             /\ told'.cancel \/ told'.failed
    <3>1. Version' = Version
      BY <2>1, <2>8 DEF Version, NewFolder
    <3>2. Outcome = "undecided"
      BY <2>1, <2>3, <2>8 DEF Outcome, Replaced
    <3>3. Outcome' = "cancelled" \/ Outcome' = "failed"
      BY <1>3, <2>8 DEF Outcome
    <3> QED
      BY <3>1, <3>2, <3>3 DEF Update!Next, Update!Cancel, Update!Fail, Update!Settle
  <2> QED
    BY <1>3, <2>1, <2>4, <2>5, <2>6, <2>7, <2>8, ToldMoves
<1> QED
  BY <1>2, <1>3

(* The update as a whole: whatever the user and the two programs do, the   *)
(* installed version changes once, from old to new, in an attempt that is  *)
(* neither called off nor said to have failed, then or later.              *)
THEOREM UpdateImplemented == Spec => ImplementsUpdate
<1>1. Init => Update!Init
  <2> SUFFICES ASSUME Init PROVE Update!Init
    OBVIOUS
  <2>1. harm = {} /\ target = OldFolder /\ target # NewFolder
    BY Folders DEF Init
  <2>2. ~told.cancel /\ ~told.failed
    BY DEF Init
  <2> QED
    BY <2>1, <2>2 DEF Update!Init, Version, Outcome, Unharmed, Replaced
<1>2. Init => (Unharmed => Unfinished)
  BY DEF Init, NoHelper, Unfinished
<1>3. SwapInv /\ (Unharmed => Unfinished) /\ [Next]_vars => (Unharmed => Unfinished)'
  BY HarmLasts, UnfinishedStep
<1>4. Spec => []OutcomeInv
  <2>1. Spec => [](Unharmed => Unfinished)
    BY <1>2, <1>3, AlwaysSwap, PTL DEF Spec
  <2> QED
    BY <2>1, AlwaysSwap, AlwaysCancel, AlwaysFailure, PTL DEF OutcomeInv
<1>5. OutcomeInv /\ OutcomeInv' /\ [Next]_vars => [Update!Next]_(Update!vars)
  BY StepUpdates
<1> QED
  BY <1>1, <1>4, <1>5, PTL DEF Spec, ImplementsUpdate, Update!Spec

=============================================================================
