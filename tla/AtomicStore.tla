---------------------------- MODULE AtomicStore ----------------------------
(***************************************************************************)
(* What SaveCatalog and LoadCatalog (src/src/iptv_store.cpp) promise the   *)
(* rest of the program: one catalogue is stored, a save replaces it whole  *)
(* or not at all, the end of the program falls on one side or the other, a *)
(* save answers ok exactly when the new catalogue is the stored one, and a *)
(* load answers the stored one or that it could not read.  Two failures of *)
(* the storage weaken the promise, and each is a step of its own: what was *)
(* not brought back (exposed) may be lost by a save that begins after it,  *)
(* and a load that could not read the stored catalogue though it is whole  *)
(* (misread) may bring an older one back.  CatalogStore is shown to        *)
(* implement it.                                                           *)
(***************************************************************************)
EXTENDS Naturals

CONSTANT NoCatalog      \* nothing that can be read

VARIABLES
    stored,     \* the catalogue a load would return, or NoCatalog
    exposed,    \* it lies where the next save removes it
    misread,    \* a load found it unreadable though it is whole
    phase,      \* "idle", "saving" before the change, "saved" after it
    incoming,   \* the catalogue of the save in progress
    answer      \* what the last finished operation told its caller

vars == <<stored, exposed, misread, phase, incoming, answer>>

Pending == [op |-> "pending", catalog |-> NoCatalog]
Failed == [op |-> "failed", catalog |-> NoCatalog]
Loaded(catalog) == [op |-> "loaded", catalog |-> catalog]

Init ==
    /\ stored \in {NoCatalog, 0}
    /\ exposed = FALSE
    /\ misread = FALSE
    /\ phase = "idle"
    /\ incoming = 0
    /\ answer = Pending

BeginSave ==
    /\ phase = "idle" /\ ~misread
    /\ phase' = "saving"
    /\ incoming' \in Nat
    /\ answer' = Pending
    /\ UNCHANGED <<stored, exposed, misread>>

(* The one moment at which the stored catalogue changes. *)
Replace ==
    /\ phase = "saving"
    /\ phase' = "saved"
    /\ stored' = incoming
    /\ exposed' = FALSE
    /\ UNCHANGED <<misread, incoming, answer>>

SaveOk ==
    /\ phase = "saved"
    /\ phase' = "idle"
    /\ answer' = [op |-> "saved", catalog |-> stored]
    /\ UNCHANGED <<stored, exposed, misread, incoming>>

(* Refused at once, or given up before the change. *)
SaveFailed ==
    /\ phase \in {"idle", "saving"} /\ ~misread
    /\ phase' = "idle"
    /\ answer' = Failed
    /\ UNCHANGED <<stored, exposed, misread, incoming>>

(* A load brings an exposed catalogue back, or finds that it cannot. *)
Load ==
    /\ phase = "idle" /\ ~misread
    /\ answer' \in {Loaded(stored), Failed}
    /\ exposed' \in BOOLEAN
    /\ UNCHANGED <<stored, misread, phase, incoming>>

(* A load that has begun and not yet answered, or the program's end. *)
Forget ==
    /\ phase' = "idle"
    /\ misread' = FALSE
    /\ answer' = Pending
    /\ UNCHANGED <<stored, exposed, incoming>>

-----------------------------------------------------------------------------
(* Failures of the storage *)

(* A save that failed could not undo its first half. *)
Expose ==
    /\ phase = "saving"
    /\ exposed' = TRUE
    /\ UNCHANGED <<stored, misread, phase, incoming, answer>>

(* A save removes what was exposed when it began. *)
Lose ==
    /\ phase = "saving"
    /\ exposed
    /\ stored' = NoCatalog
    /\ exposed' = FALSE
    /\ UNCHANGED <<misread, phase, incoming, answer>>

Misread ==
    /\ phase = "idle"
    /\ misread' = TRUE
    /\ UNCHANGED <<stored, exposed, phase, incoming, answer>>

(* An older catalogue takes the misread one's place, or is only answered. *)
Relapse ==
    /\ misread
    /\ \E older \in 0 .. stored :
          /\ stored' \in {stored, older}
          /\ answer' \in {answer, Loaded(older)}
    /\ misread' = FALSE
    /\ UNCHANGED <<exposed, phase, incoming>>

Next ==
    \/ BeginSave \/ Replace \/ SaveOk \/ SaveFailed \/ Load \/ Forget
    \/ Expose \/ Lose \/ Misread \/ Relapse

Spec == Init /\ [][Next]_vars
=============================================================================
