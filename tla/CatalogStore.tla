--------------------------- MODULE CatalogStore ---------------------------
(***************************************************************************)
(* SaveCatalog and LoadCatalog of src/src/iptv_store.cpp: the catalogue of *)
(* one source as three files, <path>, <path>.bak and <path>.new, read and  *)
(* changed one file operation at a time, any of which storage may refuse   *)
(* and any of which may be the last before the program ends.  The app uses *)
(* one path from one thread at a time (CatalogRefresh says where it does   *)
(* not), and in every session reads a path before it saves it              *)
(* (Model::load_cache).                                                    *)
(***************************************************************************)
EXTENDS Naturals

CONSTANTS
    NoFile,         \* no file of that name
    Unreadable,     \* a file LoadCatalogFile refuses: damaged, too new, unfinished
    MayFail,        \* the file operations storage may refuse, now and then
    MaxSaves        \* bound: catalogues saved in one behaviour

FileOps == {"dropStaging", "dropBackup", "setAside", "promote", "putBack", "dropOld",
            "readPrimary", "readBackup", "clearPrimary", "recover"}

ASSUME StoreAssumption ==
    /\ NoFile \notin Nat /\ Unreadable \notin Nat /\ NoFile # Unreadable
    /\ MayFail \subseteq FileOps
    /\ MaxSaves \in Nat

VARIABLES
    primary,        \* <path>
    backup,         \* <path>.bak
    staging,        \* <path>.new
    pc,             \* where the thread that uses this path stands
    incoming,       \* the catalogue being saved, the last one of this behaviour
    hadPrimary,     \* SaveCatalog's had_primary
    answer,         \* what the last finished call told its caller
    stranded        \* a good copy was left in <path>.bak by a refused operation

vars == <<primary, backup, staging, pc, incoming, hadPrimary, answer, stranded>>

(* Catalogues are numbered in the order they are saved; 0 is an older      *)
(* session's. *)
File == Nat \cup {NoFile, Unreadable}
Readable(file) == file \in Nat

Pending == [op |-> "pending", catalog |-> NoFile]
Saved == [op |-> "saved", catalog |-> incoming]
Failed == [op |-> "failed", catalog |-> NoFile]
Loaded(catalog) == [op |-> "loaded", catalog |-> catalog]

SavePcs == {"build", "commit", "measure", "dropBackup", "setAside", "promote",
            "putBack", "dropStaging", "dropOld"}
LoadPcs == {"readBackup", "clearPrimary", "recover"}

Fails(op) == op \in MayFail

(* What a load would find. *)
Recoverable ==
    IF Readable(primary) THEN primary
    ELSE IF Readable(backup) THEN backup ELSE NoFile

Init ==
    /\ primary \in {NoFile, Unreadable, 0}
    /\ backup \in {NoFile, Unreadable, 0}
    /\ staging \in {NoFile, Unreadable}
    /\ pc = "closed"
    /\ incoming = 0
    /\ hadPrimary = FALSE
    /\ answer = Pending
    /\ stranded = FALSE

-----------------------------------------------------------------------------
(* SaveCatalog *)

(* std::remove(staging): its result is not looked at, here and below. *)
StagingRemoved ==
    \/ staging' = NoFile
    \/ Fails("dropStaging") /\ UNCHANGED staging

(* The arguments are refused before any file is touched. *)
RefuseSave ==
    /\ pc = "idle"
    /\ answer' = Failed
    /\ UNCHANGED <<primary, backup, staging, pc, incoming, hadPrimary, stranded>>

BeginSave ==
    /\ pc = "idle"
    /\ incoming < MaxSaves
    /\ incoming' = incoming + 1
    /\ StagingRemoved
    /\ pc' = "build"
    /\ answer' = Pending
    /\ UNCHANGED <<primary, backup, hadPrimary, stranded>>

(* sqlite3_open_v2 of the staging file, the schema and BEGIN IMMEDIATE. A  *)
(* whole catalogue left there has the tables already: CreateSchema fails.  *)
CreateStaging ==
    /\ pc = "build"
    /\ ~Readable(staging)
    /\ staging' = Unreadable
    /\ pc' = "commit"
    /\ UNCHANGED <<primary, backup, incoming, hadPrimary, answer, stranded>>

(* InsertCatalog, COMMIT and the quick check. *)
CommitStaging ==
    /\ pc = "commit"
    /\ staging' = incoming
    /\ pc' = "measure"
    /\ UNCHANGED <<primary, backup, incoming, hadPrimary, answer, stranded>>

MeasureStaging ==
    /\ pc = "measure"
    /\ pc' = "dropBackup"
    /\ UNCHANGED <<primary, backup, staging, incoming, hadPrimary, answer, stranded>>

(* Any of the three may fail: the file cannot be opened, a statement fails,*)
(* the file is larger than a load would accept. *)
AbandonStaging ==
    /\ pc \in {"build", "commit", "measure"}
    /\ StagingRemoved
    /\ pc' = "idle"
    /\ answer' = Failed
    /\ UNCHANGED <<primary, backup, incoming, hadPrimary, stranded>>

(* std::remove(backup): its result is not looked at. *)
DropBackup ==
    /\ pc = "dropBackup"
    /\ \/ backup' = NoFile /\ stranded' = FALSE
       \/ Fails("dropBackup") /\ UNCHANGED <<backup, stranded>>
    /\ pc' = "setAside"
    /\ UNCHANGED <<primary, staging, incoming, hadPrimary, answer>>

(* A save that takes it for granted that the old catalogue was moved. *)
BadSetAsideUnchecked ==
    /\ pc = "setAside"
    /\ pc' = "promote"
    /\ hadPrimary' = TRUE
    /\ \/ primary # NoFile /\ backup' = primary /\ primary' = NoFile
       \/ /\ primary = NoFile \/ Fails("setAside")
          /\ UNCHANGED <<primary, backup>>
    /\ UNCHANGED <<staging, incoming, answer, stranded>>

(* had_primary = rename(path, backup) == 0 *)
SetAside ==
    /\ pc = "setAside"
    /\ pc' = "promote"
    /\ \/ /\ primary # NoFile
          /\ backup' = primary
          /\ primary' = NoFile
          /\ hadPrimary' = TRUE
          /\ stranded' = FALSE
       \/ /\ primary = NoFile \/ Fails("setAside")
          /\ hadPrimary' = FALSE
          /\ UNCHANGED <<primary, backup, stranded>>
    /\ UNCHANGED <<staging, incoming, answer>>

(* A save that forgets to put the old catalogue back. *)
BadPromoteNoWayBack ==
    /\ pc = "promote"
    /\ \/ /\ primary' = staging
          /\ staging' = NoFile
          /\ stranded' = FALSE
          /\ pc' = "dropOld"
       \/ /\ Fails("promote")
          /\ pc' = "dropStaging"
          /\ UNCHANGED <<primary, staging, stranded>>
    /\ UNCHANGED <<backup, incoming, hadPrimary, answer>>

Promote ==
    /\ pc = "promote"
    /\ \/ /\ primary' = staging
          /\ staging' = NoFile
          /\ stranded' = FALSE
          /\ pc' = "dropOld"
       \/ /\ Fails("promote")
          /\ pc' = IF hadPrimary THEN "putBack" ELSE "dropStaging"
          /\ UNCHANGED <<primary, staging, stranded>>
    /\ UNCHANGED <<backup, incoming, hadPrimary, answer>>

(* The undo: its result is not looked at either. *)
PutBack ==
    /\ pc = "putBack"
    /\ pc' = "dropStaging"
    /\ \/ primary' = backup /\ backup' = NoFile /\ stranded' = FALSE
       \/ /\ Fails("putBack")
          /\ stranded' = Readable(backup)
          /\ UNCHANGED <<primary, backup>>
    /\ UNCHANGED <<staging, incoming, hadPrimary, answer>>

(* The end of a save that could not promote its file: io_error. *)
DropStaging ==
    /\ pc = "dropStaging"
    /\ StagingRemoved
    /\ pc' = "idle"
    /\ answer' = Failed
    /\ UNCHANGED <<primary, backup, incoming, hadPrimary, stranded>>

(* The end of a save that did. *)
DropOld ==
    /\ pc = "dropOld"
    /\ \/ hadPrimary /\ backup' = NoFile
       \/ (~hadPrimary \/ Fails("dropOld")) /\ UNCHANGED backup
    /\ pc' = "idle"
    /\ answer' = Saved
    /\ UNCHANGED <<primary, staging, incoming, hadPrimary, stranded>>

-----------------------------------------------------------------------------
(* LoadCatalog *)

(* LoadCatalogFile refuses a file that is damaged, and may fail on a good  *)
(* one: it cannot be opened or read, memory runs out, it is too large.     *)
ReadPrimary ==
    /\ pc \in {"closed", "idle"}
    /\ \/ /\ Readable(primary)
          /\ pc' = "idle"
          /\ answer' = Loaded(primary)
       \/ /\ Readable(primary) => Fails("readPrimary")
          /\ pc' = "readBackup"
          /\ answer' = Pending
    /\ UNCHANGED <<primary, backup, staging, incoming, hadPrimary, stranded>>

(* Neither file was read: the primary's failure is the answer. *)
ReadBackup ==
    /\ pc = "readBackup"
    /\ \/ /\ Readable(backup)
          /\ pc' = "clearPrimary"
          /\ UNCHANGED <<answer, stranded>>
       \/ /\ Readable(backup) => Fails("readBackup")
          /\ pc' = "idle"
          /\ answer' = Failed
          /\ stranded' = (Readable(backup) /\ ~Readable(primary))
    /\ UNCHANGED <<primary, backup, staging, incoming, hadPrimary>>

(* std::remove(path), unlooked at: a rename replaces what it leaves. *)
ClearPrimary ==
    /\ pc = "clearPrimary"
    /\ \/ primary' = NoFile
       \/ Fails("clearPrimary") /\ UNCHANGED primary
    /\ pc' = "recover"
    /\ UNCHANGED <<backup, staging, incoming, hadPrimary, answer, stranded>>

(* A load that answers from the backup and leaves it there. *)
BadRecoverInPlace ==
    /\ pc = "recover"
    /\ pc' = "idle"
    /\ answer' = Loaded(backup)
    /\ UNCHANGED <<primary, backup, staging, incoming, hadPrimary, stranded>>

(* (void)std::rename(backup, path): the catalogue is answered either way. *)
Recover ==
    /\ pc = "recover"
    /\ \/ primary' = backup /\ backup' = NoFile /\ stranded' = FALSE
       \/ /\ Fails("recover")
          /\ stranded' = ~Readable(primary)
          /\ UNCHANGED <<primary, backup>>
    /\ pc' = "idle"
    /\ answer' = Loaded(backup)
    /\ UNCHANGED <<staging, incoming, hadPrimary>>

-----------------------------------------------------------------------------
(* The process ends anywhere: closed by force, or by the system.  What was *)
(* written stays.  (After a loss of power it need not: the file is written *)
(* with synchronous=OFF and renamed without an fsync.  Not modelled.)      *)
Crash ==
    /\ pc # "closed"
    /\ pc' = "closed"
    /\ hadPrimary' = FALSE
    /\ answer' = Pending
    /\ UNCHANGED <<primary, backup, staging, incoming, stranded>>

SaveStep ==
    \/ CreateStaging \/ CommitStaging \/ MeasureStaging \/ AbandonStaging
    \/ DropBackup \/ SetAside \/ Promote \/ PutBack \/ DropStaging \/ DropOld

LoadStep == ReadBackup \/ ClearPrimary \/ Recover

Next == RefuseSave \/ BeginSave \/ SaveStep \/ ReadPrimary \/ LoadStep \/ Crash

Spec == Init /\ [][Next]_vars

-----------------------------------------------------------------------------
(* Every file holds a catalogue that was saved, or none that can be read. *)
TypeOK ==
    /\ primary \in (0 .. incoming) \cup {NoFile, Unreadable}
    /\ backup \in (0 .. incoming) \cup {NoFile, Unreadable}
    /\ staging \in (0 .. incoming) \cup {NoFile, Unreadable}
    /\ pc \in {"closed", "idle"} \cup SavePcs \cup LoadPcs
    /\ incoming \in 0 .. MaxSaves
    /\ hadPrimary \in BOOLEAN
    /\ answer \in [op : {"pending", "saved", "failed", "loaded"},
                   catalog : (0 .. incoming) \cup {NoFile}]
    /\ stranded \in BOOLEAN

(* Between two calls the only good copy is not the one in <path>.bak,      *)
(* which the next SaveCatalog removes first of all, unless the operation   *)
(* that was to bring it back (SaveCatalog's restoring rename, LoadCatalog's*)
(* reading and moving of the backup) was itself refused and ignored. *)
OnlyCopyNotInBackup ==
    pc = "idle" => Readable(primary) \/ ~Readable(backup) \/ stranded

(* LoadCatalog could not read a good primary and goes on with the backup. *)
MisreadPrimary == pc \in {"clearPrimary", "recover"} /\ Readable(primary)

(* The catalogue that can be read changes at one step of a save, and only  *)
(* to the saved one; a save answers ok exactly when it did, and a load     *)
(* answers that catalogue or that it failed, whatever is refused or stops  *)
(* in between.  Only a copy stranded in the backup can be lost, and only by*)
(* a save; only a misread of a good primary can bring an older one back.   *)
Abstract == INSTANCE AtomicStore WITH
    NoCatalog <- NoFile,
    stored <- Recoverable,
    exposed <- stranded,
    misread <- MisreadPrimary,
    phase <- IF pc = "dropOld" THEN "saved"
             ELSE IF pc \in SavePcs THEN "saving" ELSE "idle"

ImplementsAtomicStore == Abstract!Spec

(* Whatever operations storage refuses, a catalogue that was replaced does *)
(* not come back: what can be read stays, is the one being saved, or is    *)
(* gone; a backup that could not be removed is not mistaken for a newer    *)
(* one.  The exception is LoadCatalog's: a primary that is good but could  *)
(* not be read is removed, and the backup beside it takes its place. *)
NoStaleReturn ==
    [][\/ Recoverable' \in {Recoverable, incoming, NoFile}
       \/ MisreadPrimary /\ Recoverable' = backup]_vars
=============================================================================
