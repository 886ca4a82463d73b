----------------------------- MODULE AppUpdate -----------------------------
(***************************************************************************)
(* What the self-update promises the user, whatever is pressed, closed,    *)
(* opened again or begun anew meanwhile: the installed app is the old      *)
(* version or the new one, it changes from the one to the other at one     *)
(* moment and never back, it changes only in an attempt of which the user  *)
(* was not told that it failed and which the user did not cancel, and of   *)
(* an attempt that has changed it neither is said later.  A fault that is  *)
(* not survived ends the promise.  SelfUpdate is shown to implement it.    *)
(***************************************************************************)
VARIABLES
    version,    \* what is installed, or "unknown" after such a fault
    outcome     \* of the last attempt

vars == <<version, outcome>>

Init == version = "old" /\ outcome = "undecided"

(* Another attempt, of the new version as well: it may have been installed *)
(* while the old one was running again. *)
Begin ==
    /\ outcome # "unknown"
    /\ outcome' = "undecided"
    /\ UNCHANGED version

(* The one moment at which the installed version changes. *)
Replace ==
    /\ version = "old" /\ version' = "new"
    /\ \/ outcome = "undecided" /\ outcome' = "replaced"
       \/ outcome = "unknown" /\ UNCHANGED outcome

Settle(end) ==
    /\ outcome = "undecided" /\ outcome' = end
    /\ UNCHANGED version
Cancel == Settle("cancelled")
Fail == Settle("failed")

(* An answer came too late: what the user was told may be wrong. *)
Doubt == outcome' = "unknown" /\ UNCHANGED version

(* A rename of the undo failed, or the helper was killed in the swap. *)
Break == version' = "unknown" /\ outcome' = "unknown"

Next == Begin \/ Replace \/ Cancel \/ Fail \/ Doubt \/ Break

Spec == Init /\ [][Next]_vars
=============================================================================
