------------------------ MODULE CatalogStore_proofs ------------------------
(***************************************************************************)
(* Proofs about CatalogStore, for every set of file operations that may be *)
(* refused: type correctness, that a replaced catalogue returns only by a  *)
(* misread of a good file, that the only good copy is left where the next  *)
(* save removes it only by a refused operation, and that the three files   *)
(* implement one atomic catalogue with these two ways to fail.             *)
(***************************************************************************)
EXTENDS CatalogStore, TLAPS

(* What each step of a call relies on. *)
Steps ==
    /\ pc \in {"measure", "dropBackup", "setAside", "promote"} => staging = incoming
    /\ pc = "promote" /\ hadPrimary => primary = NoFile
    /\ pc = "putBack" => primary = NoFile
    /\ pc = "dropOld" => primary = incoming
    /\ pc \in {"clearPrimary", "recover"} => Readable(backup)
    /\ Readable(primary) /\ Readable(backup) => backup <= primary
    /\ stranded => ~Readable(primary) /\ Readable(backup)
    /\ pc = "putBack" => ~stranded
    /\ pc = "promote" /\ hadPrimary => ~stranded

StoreInv == TypeOK /\ Steps

LEMMA InitStore == Init => StoreInv
<1> SUFFICES ASSUME Init PROVE StoreInv
  OBVIOUS
<1>1. 0 \in 0 .. incoming /\ 0 \in 0 .. MaxSaves
  BY StoreAssumption DEF Init
<1>2. answer \in [op : {"pending", "saved", "failed", "loaded"},
                 catalog : (0 .. incoming) \cup {NoFile}]
  BY DEF Init, Pending
<1>3. TypeOK
  BY <1>1, <1>2 DEF Init, TypeOK
<1>4. Steps
  BY StoreAssumption DEF Init, Steps, LoadPcs, Readable
<1>5. QED
  BY <1>3, <1>4 DEF StoreInv

(* One step of the program, as the proofs below split it. *)
LEMMA StepCases ==
    ASSUME Next
    PROVE  \/ RefuseSave \/ BeginSave \/ CreateStaging \/ CommitStaging
           \/ MeasureStaging \/ AbandonStaging \/ DropBackup \/ SetAside
           \/ Promote \/ PutBack \/ DropStaging \/ DropOld
           \/ ReadPrimary \/ ReadBackup \/ ClearPrimary \/ Recover \/ Crash
BY DEF Next, SaveStep, LoadStep

LEMMA StepStore == StoreInv /\ [Next]_vars => StoreInv'
<1> SUFFICES ASSUME StoreInv, [Next]_vars PROVE StoreInv'
  OBVIOUS
<1> USE StoreAssumption
        DEF StoreInv, TypeOK, Steps, SavePcs, LoadPcs, Readable, Fails, StagingRemoved
<1>1. CASE RefuseSave
  BY <1>1 DEF RefuseSave, Failed
<1>2. CASE BeginSave
  BY <1>2 DEF BeginSave, Pending
<1>3. CASE CreateStaging
  BY <1>3 DEF CreateStaging
<1>4. CASE CommitStaging
  BY <1>4 DEF CommitStaging
<1>5. CASE MeasureStaging
  BY <1>5 DEF MeasureStaging
<1>6. CASE AbandonStaging
  BY <1>6 DEF AbandonStaging, Failed
<1>7. CASE DropBackup
  <2>1. TypeOK'
    BY <1>7 DEF DropBackup
  <2>2. Steps'
    BY <1>7 DEF DropBackup
  <2>3. QED
    BY <2>1, <2>2
<1>8. CASE SetAside
  <2>1. TypeOK'
    BY <1>8 DEF SetAside
  <2>2. Steps'
    BY <1>8 DEF SetAside
  <2>3. QED
    BY <2>1, <2>2
<1>9. CASE Promote
  <2>1. TypeOK'
    BY <1>9 DEF Promote
  <2>2. Steps'
    BY <1>9 DEF Promote
  <2>3. QED
    BY <2>1, <2>2
<1>10. CASE PutBack
  <2>1. stranded' \in BOOLEAN
    <3>1. CASE stranded' = FALSE
      BY <3>1
    <3>2. CASE stranded' = Readable(backup)
      BY <3>2
    <3>3. QED
      BY <1>10, <3>1, <3>2 DEF PutBack
  <2>2. TypeOK'
    BY <1>10, <2>1 DEF PutBack
  <2>3. Steps'
    BY <1>10 DEF PutBack
  <2>4. QED
    BY <2>2, <2>3
<1>11. CASE DropStaging
  BY <1>11 DEF DropStaging, Failed
<1>12. CASE DropOld
  BY <1>12 DEF DropOld, Saved
<1>13. CASE ReadPrimary
  BY <1>13 DEF ReadPrimary, Loaded, Pending
<1>14. CASE ReadBackup
  <2>1. stranded' \in BOOLEAN
    BY <1>14 DEF ReadBackup
  <2>2. TypeOK'
    BY <1>14, <2>1 DEF ReadBackup, Failed
  <2>3. Steps'
    BY <1>14 DEF ReadBackup
  <2>4. QED
    BY <2>2, <2>3
<1>15. CASE ClearPrimary
  BY <1>15 DEF ClearPrimary
<1>16. CASE Recover
  BY <1>16 DEF Recover, Loaded
<1>17. CASE Crash
  BY <1>17 DEF Crash, Pending
<1>18. CASE UNCHANGED vars
  BY <1>18 DEF vars
<1> QED
  BY <1>1, <1>2, <1>3, <1>4, <1>5, <1>6, <1>7, <1>8, <1>9, <1>10, <1>11, <1>12,
     <1>13, <1>14, <1>15, <1>16, <1>17, <1>18, StepCases

THEOREM StoreInvariant == Spec => []StoreInv
<1>1. QED
  BY InitStore, StepStore, PTL DEF Spec

(* Every file, and every answer, holds a catalogue that was saved, and the *)
(* staging file none but the save's own: SaveCatalog and LoadCatalog. *)
THEOREM StoreTypeCorrect == Spec => []TypeOK
<1>1. StoreInv => TypeOK
  BY DEF StoreInv
<1>2. QED
  BY <1>1, StoreInvariant, PTL

(* Whatever operations storage refuses, what LoadCatalog finds stays, is   *)
(* the catalogue being saved, or is gone; an older one comes back only when*)
(* LoadCatalog could not read a primary that is good. *)
THEOREM NothingStaleReturns == Spec => NoStaleReturn
<1>1. StoreInv /\ [Next]_vars =>
          [\/ Recoverable' \in {Recoverable, incoming, NoFile}
           \/ MisreadPrimary /\ Recoverable' = backup]_vars
  <2> SUFFICES ASSUME StoreInv, Next
               PROVE  \/ Recoverable' \in {Recoverable, incoming, NoFile}
                      \/ MisreadPrimary /\ Recoverable' = backup
    OBVIOUS
  <2> USE StoreAssumption
          DEF StoreInv, TypeOK, Steps, LoadPcs, Readable, Recoverable, MisreadPrimary
  <2>1. CASE UNCHANGED <<primary, backup>>
    BY <2>1
  <2>2. CASE DropBackup
    BY <2>2 DEF DropBackup
  <2>3. CASE SetAside
    BY <2>3 DEF SetAside
  <2>4. CASE Promote
    BY <2>4 DEF Promote
  <2>5. CASE PutBack
    BY <2>5 DEF PutBack
  <2>6. CASE DropOld
    BY <2>6 DEF DropOld
  <2>7. CASE ClearPrimary
    BY <2>7 DEF ClearPrimary
  <2>8. CASE Recover
    BY <2>8 DEF Recover
  <2>9. QED
    BY <2>1, <2>2, <2>3, <2>4, <2>5, <2>6, <2>7, <2>8, StepCases
    DEF RefuseSave, BeginSave, CreateStaging, CommitStaging, MeasureStaging,
        AbandonStaging, DropStaging, ReadPrimary, ReadBackup, Crash
<1>2. QED
  BY <1>1, StoreInvariant, PTL DEF Spec, NoStaleReturn

-----------------------------------------------------------------------------
(* From the end of one call to the next save's first rename, and at the    *)
(* end of a save that failed, a good copy is not only in the backup. *)
Kept == Readable(primary) \/ ~Readable(backup) \/ stranded

Safe ==
    /\ pc \in {"idle", "build", "commit", "measure", "dropBackup", "setAside",
               "dropStaging"} => Kept
    /\ pc = "promote" /\ ~hadPrimary => Kept

LEMMA SafeStep ==
    ASSUME StoreInv, Safe, [Next]_vars
    PROVE  Safe'
<1> USE StoreAssumption
        DEF StoreInv, TypeOK, Steps, Safe, Kept, SavePcs, LoadPcs, Readable
<1>1. CASE RefuseSave
  BY <1>1 DEF RefuseSave
<1>2. CASE BeginSave
  BY <1>2 DEF BeginSave
<1>3. CASE CreateStaging
  BY <1>3 DEF CreateStaging
<1>4. CASE CommitStaging
  BY <1>4 DEF CommitStaging
<1>5. CASE MeasureStaging
  BY <1>5 DEF MeasureStaging
<1>6. CASE AbandonStaging
  BY <1>6 DEF AbandonStaging
<1>7. CASE DropBackup
  BY <1>7 DEF DropBackup
<1>8. CASE SetAside
  BY <1>8 DEF SetAside
<1>9. CASE Promote
  BY <1>9 DEF Promote
<1>10. CASE PutBack
  BY <1>10 DEF PutBack
<1>11. CASE DropStaging
  BY <1>11 DEF DropStaging
<1>12. CASE DropOld
  BY <1>12 DEF DropOld
<1>13. CASE ReadPrimary
  BY <1>13 DEF ReadPrimary
<1>14. CASE ReadBackup
  BY <1>14 DEF ReadBackup
<1>15. CASE ClearPrimary
  BY <1>15 DEF ClearPrimary
<1>16. CASE Recover
  BY <1>16 DEF Recover
<1>17. CASE Crash
  BY <1>17 DEF Crash
<1>18. CASE UNCHANGED vars
  BY <1>18 DEF vars
<1> QED
  BY <1>1, <1>2, <1>3, <1>4, <1>5, <1>6, <1>7, <1>8, <1>9, <1>10, <1>11, <1>12,
     <1>13, <1>14, <1>15, <1>16, <1>17, <1>18, StepCases

LEMMA SafeAlways == Spec => [](StoreInv /\ Safe)
<1>1. Init => Safe
  BY DEF Init, Safe
<1>2. StoreInv /\ Safe /\ [Next]_vars => Safe'
  BY SafeStep
<1>3. QED
  BY <1>1, <1>2, InitStore, StepStore, PTL DEF Spec

(* Whatever operations storage refuses, the only good copy is left in      *)
(* <path>.bak, where the next SaveCatalog deletes it, only when reading it *)
(* or moving it back was itself refused. *)
THEOREM OnlyCopyIsSafe == Spec => []OnlyCopyNotInBackup
<1>1. Safe => OnlyCopyNotInBackup
  BY DEF Safe, Kept, OnlyCopyNotInBackup
<1>2. QED
  BY <1>1, SafeAlways, PTL

(* With storage that reads the backup and carries out the two renames that *)
(* put it back, nothing is ever stranded there, whatever else is refused:  *)
(* between two calls <path> holds a good copy if there is one. *)
PutsBack == MayFail \cap {"putBack", "recover", "readBackup"} = {}

THEOREM NothingIsStranded ==
    ASSUME PutsBack
    PROVE  Spec => []~stranded /\ [](pc = "idle" => Readable(primary) \/ ~Readable(backup))
<1>1. Init => ~stranded
  BY DEF Init
<1>2. ~stranded /\ [Next]_vars => ~stranded'
  <2> SUFFICES ASSUME ~stranded, [Next]_vars PROVE ~stranded'
    OBVIOUS
  <2>1. CASE PutBack
    BY <2>1, PutsBack DEF PutBack, Fails, PutsBack
  <2>2. CASE ReadBackup
    BY <2>2, PutsBack DEF ReadBackup, Fails, PutsBack
  <2>3. CASE Recover
    BY <2>3, PutsBack DEF Recover, Fails, PutsBack
  <2>4. CASE UNCHANGED stranded
    BY <2>4
  <2>5. CASE DropBackup \/ SetAside \/ Promote
    BY <2>5 DEF DropBackup, SetAside, Promote
  <2>6. QED
    BY <2>1, <2>2, <2>3, <2>4, <2>5, StepCases
    DEF RefuseSave, BeginSave, CreateStaging, CommitStaging, MeasureStaging,
        AbandonStaging, DropStaging, DropOld, ReadPrimary, ClearPrimary, Crash, vars
<1>3. Spec => []~stranded
  BY <1>1, <1>2, PTL DEF Spec
<1>4. OnlyCopyNotInBackup /\ ~stranded =>
          (pc = "idle" => Readable(primary) \/ ~Readable(backup))
  BY DEF OnlyCopyNotInBackup
<1>5. QED
  BY <1>3, <1>4, OnlyCopyIsSafe, PTL

-----------------------------------------------------------------------------
(* The refinement. *)

LEMMA InitImplements == Init => Abstract!Init
BY StoreAssumption
DEF Init, Abstract!Init, Abstract!Pending, Pending, Recoverable, Readable, SavePcs,
    MisreadPrimary

(* Every file operation but the promoting rename leaves the catalogue that *)
(* can be read as it is, unless a save removes a copy that was stranded or *)
(* a load goes on with the backup beside a good primary. *)
LEMMA Unmoved ==
    ASSUME StoreInv, Safe, Next, ~(Promote /\ pc' = "dropOld")
    PROVE  \/ Recoverable' = Recoverable
           \/ /\ DropBackup \/ SetAside
              /\ stranded /\ ~stranded'
              /\ Recoverable' = NoFile
           \/ (ClearPrimary \/ Recover) /\ MisreadPrimary
<1> USE StoreAssumption
        DEF StoreInv, TypeOK, Steps, Safe, Kept, SavePcs, LoadPcs, Readable, Recoverable,
            MisreadPrimary
<1>1. CASE UNCHANGED <<primary, backup>>
  BY <1>1
<1>2. CASE DropBackup
  BY <1>2 DEF DropBackup
<1>3. CASE SetAside
  BY <1>3 DEF SetAside
<1>4. CASE Promote
  BY <1>4 DEF Promote
<1>5. CASE PutBack
  BY <1>5 DEF PutBack
<1>6. CASE DropOld
  BY <1>6 DEF DropOld
<1>7. CASE ClearPrimary
  BY <1>7 DEF ClearPrimary
<1>8. CASE Recover
  BY <1>8 DEF Recover
<1>9. QED
  BY <1>1, <1>2, <1>3, <1>4, <1>5, <1>6, <1>7, <1>8, StepCases
  DEF RefuseSave, BeginSave, CreateStaging, CommitStaging, MeasureStaging,
      AbandonStaging, DropStaging, ReadPrimary, ReadBackup, Crash

(* A load that could not read a good primary and goes on with the backup. *)
LEMMA RelapseImplements ==
    ASSUME StoreInv, ClearPrimary \/ Recover, MisreadPrimary
    PROVE  [Abstract!Next]_(Abstract!vars)
<1> USE StoreAssumption
        DEF StoreInv, TypeOK, Steps, SavePcs, Readable, Recoverable, MisreadPrimary
<1>1. Recoverable = primary /\ backup \in 0 .. Recoverable /\ ~stranded
  OBVIOUS
<1>2. CASE ClearPrimary /\ primary' = NoFile
  <2>1. Recoverable' = backup /\ ~MisreadPrimary'
    BY <1>2 DEF ClearPrimary
  <2>2. Abstract!Relapse
    BY <1>1, <1>2, <2>1 DEF ClearPrimary, Abstract!Relapse
  <2>3. QED
    BY <2>2 DEF Abstract!Next
<1>3. CASE ClearPrimary /\ primary' = primary
  BY <1>3 DEF ClearPrimary, Abstract!vars
<1>4. CASE Recover
  <2>1. Recoverable' \in {Recoverable, backup} /\ ~MisreadPrimary' /\ ~stranded'
    BY <1>4 DEF Recover
  <2>2. answer' = Abstract!Loaded(backup)
    BY <1>4 DEF Recover, Loaded, Abstract!Loaded
  <2>3. Abstract!Relapse
    BY <1>1, <1>4, <2>1, <2>2 DEF Recover, Abstract!Relapse
  <2>4. QED
    BY <2>3 DEF Abstract!Next
<1>5. QED
  BY <1>2, <1>3, <1>4 DEF ClearPrimary

LEMMA StepImplements ==
    ASSUME StoreInv, Safe, [Next]_vars
    PROVE  [Abstract!Next]_(Abstract!vars)
<1> USE DEF SavePcs, LoadPcs, Abstract!vars, Abstract!Failed, Abstract!Pending
<1>1. CASE UNCHANGED vars
  BY <1>1 DEF vars, Recoverable, Readable, MisreadPrimary
<1>2. CASE Promote /\ pc' = "dropOld"
  <2>1. Recoverable' = incoming
    BY <1>2, StoreAssumption DEF Promote, StoreInv, TypeOK, Steps, Recoverable, Readable
  <2>2. QED
    BY <1>2, <2>1 DEF Promote, MisreadPrimary, Abstract!Next, Abstract!Replace
<1>3. CASE (ClearPrimary \/ Recover) /\ MisreadPrimary
  BY <1>3, RelapseImplements
<1>4. CASE /\ DropBackup \/ SetAside
           /\ stranded /\ ~stranded'
           /\ Recoverable' = NoFile
  <2>1. stranded' = FALSE
    BY <1>4 DEF DropBackup, SetAside
  <2>2. QED
    BY <1>4, <2>1 DEF DropBackup, SetAside, MisreadPrimary, Abstract!Next, Abstract!Lose
<1>5. ASSUME Next, Recoverable' = Recoverable,
             ~(Promote /\ pc' = "dropOld"),
             ~((ClearPrimary \/ Recover) /\ MisreadPrimary)
      PROVE  [Abstract!Next]_(Abstract!vars)
  <2> USE <1>5
  <2>1. CASE CreateStaging \/ CommitStaging \/ MeasureStaging
    BY <2>1 DEF CreateStaging, CommitStaging, MeasureStaging, MisreadPrimary
  <2>2. CASE DropBackup \/ SetAside
    <3>1. stranded' = stranded
      BY <2>2, StoreAssumption
      DEF DropBackup, SetAside, StoreInv, TypeOK, Steps, Recoverable, Readable
    <3>2. QED
      BY <2>2, <3>1 DEF DropBackup, SetAside, MisreadPrimary
  <2>3. CASE Promote
    BY <2>3 DEF Promote, MisreadPrimary
  <2>4. CASE RefuseSave
    BY <2>4 DEF RefuseSave, Failed, MisreadPrimary, Abstract!Next, Abstract!SaveFailed
  <2>5. CASE BeginSave
    BY <2>5 DEF BeginSave, Pending, MisreadPrimary, StoreInv, TypeOK, Abstract!Next,
                Abstract!BeginSave
  <2>6. CASE AbandonStaging \/ DropStaging
    BY <2>6 DEF AbandonStaging, DropStaging, Failed, MisreadPrimary, Abstract!Next,
                Abstract!SaveFailed
  <2>7. CASE DropOld
    <3>1. Recoverable = incoming
      BY <2>7 DEF DropOld, StoreInv, TypeOK, Steps, Recoverable, Readable
    <3>2. QED
      BY <2>7, <3>1 DEF DropOld, Saved, MisreadPrimary, Abstract!Next, Abstract!SaveOk
  <2>8. CASE PutBack
    <3>1. ~stranded /\ stranded \in BOOLEAN
      BY <2>8 DEF PutBack, StoreInv, TypeOK, Steps
    <3>2. CASE stranded' = FALSE
      BY <2>8, <3>1, <3>2 DEF PutBack, MisreadPrimary
    <3>3. CASE stranded' = TRUE
      BY <2>8, <3>3 DEF PutBack, MisreadPrimary, Abstract!Next, Abstract!Expose
    <3>4. CASE stranded' = Readable(backup)
      <4>1. stranded' \in BOOLEAN
        BY <3>4 DEF Readable
      <4>2. QED
        BY <3>2, <3>3, <4>1
    <3>5. QED
      BY <2>8, <3>2, <3>4 DEF PutBack
  <2>9. CASE ReadPrimary
    BY <2>9 DEF ReadPrimary, Loaded, Pending, MisreadPrimary, Recoverable, StoreInv, TypeOK,
                Abstract!Next, Abstract!Load, Abstract!Loaded, Abstract!Forget
  <2>10. CASE ReadBackup /\ pc' = "idle"
    BY <2>10 DEF ReadBackup, Failed, MisreadPrimary, Readable, Abstract!Next, Abstract!Load
  <2>11. CASE ReadBackup /\ pc' = "clearPrimary"
    BY <2>11 DEF ReadBackup, MisreadPrimary, Readable, Abstract!Next, Abstract!Misread
  <2>12. CASE ClearPrimary
    <3>1. ~Readable(primary) /\ ~Readable(primary')
      BY <2>12, StoreAssumption DEF ClearPrimary, MisreadPrimary, Readable
    <3>2. QED
      BY <2>12, <3>1 DEF ClearPrimary, MisreadPrimary
  <2>13. CASE Recover
    <3>1. Recoverable = backup /\ ~MisreadPrimary
      BY <2>13 DEF Recover, Recoverable, MisreadPrimary, StoreInv, Steps
    <3>2. stranded' \in BOOLEAN
      BY <2>13 DEF Recover, Readable
    <3>3. QED
      BY <2>13, <3>1, <3>2 DEF Recover, Loaded, MisreadPrimary, Abstract!Next, Abstract!Load,
                               Abstract!Loaded
  <2>14. CASE Crash
    BY <2>14 DEF Crash, Pending, MisreadPrimary, Abstract!Next, Abstract!Forget
  <2>15. QED
    BY <2>1, <2>2, <2>3, <2>4, <2>5, <2>6, <2>7, <2>8, <2>9, <2>10, <2>11, <2>12, <2>13,
       <2>14, StepCases
    DEF ReadBackup
<1>6. QED
  BY <1>1, <1>2, <1>3, <1>4, <1>5, Unmoved

(* Whatever operations storage refuses and wherever the program stops, the *)
(* three files are one catalogue that a save replaces whole or not at all; *)
(* only a stranded copy is lost, and only a misread file gives way to an   *)
(* older one. *)
THEOREM StoreIsAtomic == Spec => ImplementsAtomicStore
<1>1. StoreInv /\ Safe /\ [Next]_vars => [Abstract!Next]_(Abstract!vars)
  BY StepImplements
<1>2. QED
  BY <1>1, InitImplements, SafeAlways, PTL
  DEF Spec, ImplementsAtomicStore, Abstract!Spec
=============================================================================
