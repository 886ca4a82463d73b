------------------------------ MODULE JobLife ------------------------------
(***************************************************************************)
(* What becomes of the jobs of the programme guide, as one who looks at    *)
(* the drive sees it: an accepted job waits, is recorded at most once, and *)
(* then is on the drive or is over.  No two are recorded at a time, and    *)
(* none that is over or recorded begins again, whatever is refused, closed *)
(* or killed.  Only a restore turns back: it puts all jobs to where they   *)
(* were when a backup was made, while nothing is recorded.  Recording is   *)
(* shown to implement it.                                                  *)
(***************************************************************************)
CONSTANT Job
VARIABLES
  life,     \* of each job: "none", "waiting", "recording", "recorded", "over"
  copies    \* the lives that backups have

NoJobs == [j \in Job |-> "none"]
Init == life = NoJobs /\ copies = {NoJobs}

Becomes(j, to) == life' = [life EXCEPT ![j] = to]
NoneRecorded == \A k \in Job : life[k] # "recording"

Accept(j) == life[j] = "none" /\ Becomes(j, "waiting")
Start(j) == life[j] = "waiting" /\ NoneRecorded /\ Becomes(j, "recording")
Keep(j) == life[j] = "recording" /\ Becomes(j, "recorded")
End(j) == life[j] \in {"waiting", "recording"} /\ Becomes(j, "over")
GoesOn == life' # life /\ \E j \in Job : Accept(j) \/ Start(j) \/ Keep(j) \/ End(j)

Backup == NoneRecorded /\ copies' = copies \cup {life} /\ UNCHANGED life
Restore == NoneRecorded /\ life' \in copies /\ UNCHANGED copies

Next == (GoesOn /\ UNCHANGED copies) \/ Backup \/ Restore
Spec == Init /\ [][Next]_<<life, copies>>
=============================================================================
