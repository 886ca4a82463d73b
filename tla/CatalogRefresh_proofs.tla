----------------------- MODULE CatalogRefresh_proofs -----------------------
(***************************************************************************)
(* Proofs about CatalogRefresh, for any sources, accounts and revisions:   *)
(* type correctness, that a download is always the selected source's, that *)
(* what makes a list go away; and, unless a scheduled download has started *)
(* under a form, that the list shown is the selected source's own and that *)
(* no reader meets a save.                                                 *)
(***************************************************************************)
EXTENDS CatalogRefresh, TLAPS

WorkerPcs == {"none", "fetching", "fetched", "saving", "done"}
Workers == [pc : WorkerPcs, source : Sources \cup {None}, account : Accounts \cup {None},
            got : Lists]
Loads == [source : Sources \cup {None}, by : Accounts \cup {None}, before : Lists,
          met : BOOLEAN]

(* The parts of TypeOK a step of the frame loop or of a thread changes. *)
FrameType ==
    /\ account \in [Sources -> Accounts]
    /\ selected \in Sources
    /\ catalog \in Lists
    /\ queued \in BOOLEAN /\ stopping \in BOOLEAN /\ searching \in BOOLEAN
    /\ form \in Sources \cup {None}
    /\ session \in {"open", "closing", "closed"}
ThreadType ==
    /\ cache \in [Sources -> Lists]
    /\ worker \in Workers
    /\ discovery \in [on : BOOLEAN, left : SUBSET Sources, reading : Sources \cup {None}]
    /\ load \in Loads
    /\ revision \in [Accounts -> 0 .. MaxRevision]

(* No thread runs and no form is open between sessions; a download is of   *)
(* the selected source, and holds a list of a source while it saves it;    *)
(* the search thread and the jobs read only other sources' lists. *)
Apart ==
    /\ session = "closed" => worker.pc = "none" /\ form = None
    /\ Refreshing => worker.source = selected /\ worker.account \in Accounts
    /\ selected \notin discovery.left
    /\ discovery.reading # selected
    /\ load.by = None => load.source # selected

RefreshInv == FrameType /\ ThreadType /\ Apart

LEMMA TypeParts == TypeOK <=> FrameType /\ ThreadType /\ metForm \in BOOLEAN
BY DEF TypeOK, FrameType, ThreadType, Workers, WorkerPcs, Loads

LEMMA RecordTypes ==
    /\ NoWorker \in Workers
    /\ \A s \in Sources, a \in Accounts :
          [pc |-> "fetching", source |-> s, account |-> a, got |-> None] \in Workers
    /\ NoDiscovery \in [on : BOOLEAN, left : SUBSET Sources, reading : Sources \cup {None}]
    /\ NoLoad \in Loads
BY DEF NoWorker, NoDiscovery, NoLoad, Workers, WorkerPcs, Loads, Lists

LEMMA QuietDiscovery ==
    ASSUME NEW s \in Sources
    PROVE  s \notin NoDiscovery.left /\ NoDiscovery.reading # s
BY RefreshAssumption DEF NoDiscovery

LEMMA UsableType ==
    ASSUME NEW list \in Lists, NEW a
    PROVE  Usable(list, a) \in Lists
BY DEF Usable, Lists

LEMMA LoadCacheType ==
    ASSUME ThreadType, NEW s \in Sources, NEW a \in Accounts
    PROVE  LoadCache(s, a) \in Lists
BY UsableType DEF ThreadType, LoadCache

(* What the search's end and a new download leave, whatever came before. *)
LEMMA RefreshSteps ==
    ASSUME FrameType, ThreadType, NEW s \in Sources, NEW a \in Accounts, Refresh(s, a)
    PROVE  /\ searching' = FALSE /\ discovery' = NoDiscovery
           /\ queued' \in BOOLEAN /\ stopping' \in BOOLEAN
           /\ worker' \in Workers
           /\ Refreshing => worker' = worker
           /\ ~Refreshing => worker'.pc = "none" \/ (worker'.source = s /\ worker'.account = a)
<1>1. searching' = FALSE /\ discovery' = NoDiscovery
  BY DEF Refresh, EndSearch
<1>2. CASE Refreshing
  BY <1>1, <1>2 DEF Refresh, FrameType, ThreadType
<1>3. CASE ~Refreshing
  <2>1. queued' = FALSE /\ stopping' = FALSE
    BY <1>3 DEF Refresh
  <2>2. CASE worker' = NoWorker
    BY <1>1, <1>3, <2>1, <2>2, RecordTypes DEF NoWorker
  <2>3. CASE worker' = [pc |-> "fetching", source |-> s, account |-> a, got |-> None]
    BY <1>1, <1>3, <2>1, <2>3, RecordTypes
  <2>4. QED
    BY <1>3, <2>2, <2>3 DEF Refresh
<1>4. QED
  BY <1>2, <1>3

LEMMA SelectSteps ==
    ASSUME FrameType, ThreadType, NEW s \in Sources, NEW a \in Accounts,
           NEW shown \in Lists, Select(s, a, shown)
    PROVE  /\ selected' = s
           /\ catalog' = IF s = selected THEN shown ELSE LoadCache(s, a)
           /\ catalog' \in Lists
           /\ searching' = FALSE /\ discovery' = NoDiscovery
           /\ queued' \in BOOLEAN /\ stopping' \in BOOLEAN
           /\ worker' \in Workers
           /\ Refreshing => worker' = worker
           /\ ~Refreshing => worker'.pc = "none" \/ (worker'.source = s /\ worker'.account = a)
<1>1. catalog' \in Lists
  BY LoadCacheType DEF Select
<1>2. CASE Refresh(s, a)
  BY <1>1, <1>2, RefreshSteps DEF Select
<1>3. CASE EndSearch /\ UNCHANGED <<worker, queued, stopping>>
  BY <1>1, <1>3 DEF Select, EndSearch, FrameType, ThreadType, Refreshing
<1>4. QED
  BY <1>2, <1>3 DEF Select

LEMMA InitRefresh == Init => RefreshInv
<1> SUFFICES ASSUME Init PROVE RefreshInv
  OBVIOUS
<1>1. FrameType
  BY DEF Init, FrameType, Lists
<1>2. revision \in [Accounts -> 0 .. MaxRevision]
  BY RefreshAssumption DEF Init
<1>3. ThreadType
  BY <1>2, RecordTypes DEF Init, ThreadType, Lists
<1>4. Apart
  BY RefreshAssumption DEF Init, Apart, NoWorker, NoDiscovery, NoLoad, Refreshing
<1>5. QED
  BY <1>1, <1>3, <1>4 DEF RefreshInv

-----------------------------------------------------------------------------
(* The frame loop's steps *)

LEMMA StepOpen == RefreshInv /\ Open => RefreshInv'
<1> SUFFICES ASSUME RefreshInv, Open PROVE RefreshInv'
  OBVIOUS
<1> USE DEF RefreshInv, FrameType, ThreadType, Apart
<1>1. catalog' \in Lists
  BY LoadCacheType DEF Open
<1>2. ~Refreshing /\ form = None /\ account[selected] \in Accounts
  BY DEF Open, Refreshing
<1>3. CASE Refresh(selected, account[selected])
  <2>1. /\ session' = "open" /\ UNCHANGED <<account, selected, cache, form, load, revision>>
    BY DEF Open
  <2>2. QED
    BY <1>1, <1>2, <1>3, <2>1, RefreshSteps, RecordTypes, QuietDiscovery DEF Refreshing
<1>4. CASE queued' = FALSE /\ stopping' = FALSE /\ UNCHANGED <<worker, searching, discovery>>
  BY <1>1, <1>2, <1>4 DEF Open, Refreshing
<1>5. QED
  BY <1>3, <1>4 DEF Open

LEMMA StepSelect ==
    ASSUME RefreshInv, NEW s \in Sources, UseSavedSource(s)
    PROVE  RefreshInv'
<1> USE DEF RefreshInv, FrameType, ThreadType, Apart
<1>1. Select(s, account[s], catalog) /\ account[s] \in Accounts /\ ~Refreshing
  BY DEF UseSavedSource
<1>2. load.source # s
  BY RefreshAssumption DEF UseSavedSource, Free, Loading
<1>3. QED
  BY <1>1, <1>2, SelectSteps, RecordTypes, QuietDiscovery
  DEF UseSavedSource, Free, Refreshing

LEMMA StepAsk ==
    ASSUME RefreshInv, AskRefresh \/ ScheduledRefresh
    PROVE  RefreshInv'
<1> USE DEF RefreshInv, FrameType, ThreadType, Apart
<1>1. Refresh(selected, account[selected]) /\ account[selected] \in Accounts
  BY DEF AskRefresh, ScheduledRefresh
<1>2. session = "open"
      /\ UNCHANGED <<account, selected, catalog, cache, form, session, load, revision>>
  BY DEF AskRefresh, ScheduledRefresh, Free
<1>3. QED
  BY <1>1, <1>2, RefreshSteps, RecordTypes, QuietDiscovery DEF Refreshing

LEMMA BegunLoad ==
    ASSUME ThreadType, NEW s \in Sources, NEW a \in Accounts \cup {None}, BeginLoad(s, a)
    PROVE  load' \in Loads /\ load'.source = s /\ load'.by = a
BY DEF BeginLoad, SavingNow, ThreadType, Loads

LEMMA StepCommit ==
    ASSUME RefreshInv, NEW a \in Accounts, CommitForm(a)
    PROVE  RefreshInv'
<1> DEFINE shown == IF form = selected THEN LoadCache(form, a) ELSE catalog
<1> USE DEF RefreshInv, FrameType, ThreadType, Apart
<1>1. form \in Sources /\ session = "open" /\ load.source # form
  BY RefreshAssumption DEF CommitForm, Free, Loading
<1>2. shown \in Lists
  BY <1>1, LoadCacheType
<1>3. /\ account' \in [Sources -> Accounts]
      /\ form' = None
      /\ UNCHANGED <<cache, session, revision>>
  BY DEF CommitForm
<1>4. CASE Refreshing
  <2>1. UNCHANGED <<selected, catalog, worker, queued, stopping>>
    BY <1>4 DEF CommitForm
  <2>2. \/ EndSearch /\ BeginLoad(form, a)
        \/ UNCHANGED <<searching, discovery, load>>
    BY <1>4 DEF CommitForm
  <2>3. searching' \in BOOLEAN
        /\ discovery' \in [on : BOOLEAN, left : SUBSET Sources, reading : Sources \cup {None}]
        /\ selected \notin discovery'.left /\ discovery'.reading # selected
    BY <2>2, RecordTypes, QuietDiscovery DEF EndSearch
  <2>4. load' \in Loads /\ (load'.by = None => load'.source # selected)
    BY <1>1, <2>2, BegunLoad, RefreshAssumption
  <2>5. QED
    BY <1>1, <1>3, <2>1, <2>3, <2>4 DEF Refreshing
<1>5. CASE ~Refreshing
  <2>1. Select(form, a, shown) /\ UNCHANGED load
    BY <1>5 DEF CommitForm
  <2> HIDE DEF shown
  <2>2. QED
    BY <1>1, <1>2, <1>3, <1>5, <2>1, SelectSteps, RecordTypes, QuietDiscovery
    DEF Refreshing
<1>6. QED
  BY <1>4, <1>5

LEMMA OutcomesAreLists ==
    ASSUME ThreadType, Loading, NEW outcome \in Outcomes
    PROVE  /\ outcome[1] \in Lists /\ outcome[2] \in Lists
           /\ load.met \/ outcome[2] = cache[load.source]
BY DEF Outcomes, ThreadType, Loading, Loads, Workers, Lists

LEMMA StepLoad ==
    ASSUME RefreshInv, FinishLoad \/ \E s \in Sources : ReadForJob(s)
    PROVE  RefreshInv'
<1> USE DEF RefreshInv, FrameType, ThreadType, Apart
<1>1. ASSUME NEW s \in Sources, ReadForJob(s) PROVE RefreshInv'
  BY <1>1, BegunLoad DEF ReadForJob, Refreshing
<1>2. CASE FinishLoad
  <2>1. catalog' \in Lists /\ cache' \in [Sources -> Lists]
    BY <1>2, OutcomesAreLists, UsableType DEF FinishLoad, Loading, Loads
  <2>2. QED
    BY <1>2, <2>1, RecordTypes, RefreshAssumption DEF FinishLoad, NoLoad, Refreshing
<1>3. QED
  BY <1>1, <1>2

LEMMA StepConsume == RefreshInv /\ ConsumeRefresh => RefreshInv'
<1> SUFFICES ASSUME RefreshInv, ConsumeRefresh PROVE RefreshInv'
  OBVIOUS
<1> USE DEF RefreshInv, FrameType, ThreadType, Apart
<1>1. catalog' \in Lists /\ queued' = FALSE /\ session = "open"
      /\ UNCHANGED <<account, selected, cache, form, session, load, revision>>
  BY DEF ConsumeRefresh, Free, Workers
<1>2. /\ worker' \in Workers
      /\ worker'.pc = "none" \/ (worker'.source = selected /\ worker'.account \in Accounts)
  <2>1. worker' = NoWorker
        \/ worker' = [pc |-> "fetching", source |-> selected,
                      account |-> account[selected], got |-> None]
    BY DEF ConsumeRefresh
  <2>2. account[selected] \in Accounts
    OBVIOUS
  <2>3. QED
    BY <2>1, <2>2, RecordTypes DEF NoWorker
<1>3. /\ stopping' \in BOOLEAN /\ searching' \in BOOLEAN
      /\ discovery' = NoDiscovery \/ discovery' = discovery
  BY DEF ConsumeRefresh, EndSearch
<1>4. QED
  BY <1>1, <1>2, <1>3, RecordTypes, QuietDiscovery DEF Refreshing

(* The other steps of the frame loop start no download. *)
LEMMA StepFrame ==
    ASSUME RefreshInv,
           \/ CancelForm \/ Close \/ FinishClose \/ BeginSearch \/ CloseSearch
           \/ StartDiscovery \/ \E s \in Sources : OpenForm(s)
    PROVE  RefreshInv'
<1> USE DEF RefreshInv, FrameType, ThreadType, Apart
<1>1. CASE CancelForm
  BY <1>1 DEF CancelForm, Free, Refreshing
<1>2. CASE Close
  BY <1>2, RecordTypes, QuietDiscovery DEF Close, Free, EndSearch, Refreshing
<1>3. CASE FinishClose
  BY <1>3, RecordTypes DEF FinishClose, Refreshing, NoWorker
<1>4. CASE BeginSearch
  BY <1>4 DEF BeginSearch, Free, Refreshing
<1>5. CASE CloseSearch
  BY <1>5, RecordTypes, QuietDiscovery DEF CloseSearch, Free, EndSearch, Refreshing
<1>6. CASE StartDiscovery
  <2>1. discovery' = [on |-> TRUE, left |-> Sources \ {selected}, reading |-> None]
    BY <1>6 DEF StartDiscovery
  <2>2. QED
    BY <1>6, <2>1, RefreshAssumption DEF StartDiscovery, Free, Refreshing
<1>7. ASSUME NEW s \in Sources, OpenForm(s) PROVE RefreshInv'
  BY <1>7 DEF OpenForm, Free, Refreshing
<1>8. QED
  BY <1>1, <1>2, <1>3, <1>4, <1>5, <1>6, <1>7

-----------------------------------------------------------------------------
(* The threads' steps *)

LEMMA StepWorker ==
    ASSUME RefreshInv, Worker
    PROVE  RefreshInv'
<1> USE DEF RefreshInv, FrameType, ThreadType, Apart
<1>1. /\ UNCHANGED <<account, selected, catalog, queued, stopping, form, session,
                     searching, discovery, revision>>
      /\ Refreshing
  BY DEF Worker, Fetch, FetchFails, CheckStop, Save, Refreshing
<1>2. /\ worker' \in Workers
      /\ worker'.source = worker.source /\ worker'.account = worker.account
  <2>1. CASE Fetch
    <3> DEFINE list == [account |-> worker.account, revision |-> revision[worker.account]]
    <3>1. list \in Lists
      BY <1>1 DEF List, Lists
    <3>2. worker' = [worker EXCEPT !.pc = "fetched", !.got = list]
      BY <2>1 DEF Fetch
    <3> HIDE DEF list
    <3>3. QED
      BY <3>1, <3>2 DEF Workers, WorkerPcs
  <2>2. CASE FetchFails
    BY <2>2 DEF FetchFails, Workers, WorkerPcs
  <2>3. CASE CheckStop
    BY <2>3 DEF CheckStop, Workers, WorkerPcs, Lists
  <2>4. CASE Save
    BY <2>4 DEF Save, Workers, WorkerPcs
  <2>5. QED
    BY <2>1, <2>2, <2>3, <2>4 DEF Worker
<1>3. cache' \in [Sources -> Lists]
  BY DEF Worker, Fetch, FetchFails, CheckStop, Save, Workers
<1>4. load' \in Loads /\ load'.by = load.by /\ load'.source = load.source
  BY DEF Worker, Fetch, FetchFails, CheckStop, Save, MeetSave, Loads
<1>5. QED
  BY <1>1, <1>2, <1>3, <1>4 DEF Refreshing

LEMMA StepSearch ==
    ASSUME RefreshInv, Search
    PROVE  RefreshInv'
<1> USE DEF RefreshInv, FrameType, ThreadType, Apart
<1>1. UNCHANGED <<account, selected, catalog, cache, worker, queued, stopping, form,
                  session, searching, load, revision>>
  BY DEF Search, SavedRead, ReadSaved
<1>2. ASSUME NEW s \in Sources, ReadSaved(s)
      PROVE  /\ discovery' \in [on : BOOLEAN, left : SUBSET Sources,
                                reading : Sources \cup {None}]
             /\ selected \notin discovery'.left /\ discovery'.reading # selected
  BY <1>2 DEF ReadSaved
<1>3. CASE SavedRead
  <2>1. discovery' = NoDiscovery \/ discovery' = [discovery EXCEPT !.reading = None]
    BY <1>3 DEF SavedRead
  <2>2. /\ discovery' \in [on : BOOLEAN, left : SUBSET Sources,
                          reading : Sources \cup {None}]
        /\ selected \notin discovery'.left /\ discovery'.reading # selected
    BY <2>1, RecordTypes, QuietDiscovery, RefreshAssumption
  <2>3. QED
    BY <1>1, <2>2 DEF Refreshing
<1>4. ASSUME NEW s \in Sources, ReadSaved(s) PROVE RefreshInv'
  BY <1>1, <1>2, <1>4 DEF Refreshing
<1>5. QED
  BY <1>3, <1>4 DEF Search

LEMMA StepWorld ==
    ASSUME RefreshInv, Crash \/ \E a \in Accounts : Publish(a)
    PROVE  RefreshInv'
<1> USE DEF RefreshInv, FrameType, ThreadType, Apart
<1>1. CASE Crash
  <2>1. cache' \in [Sources -> Lists]
    BY <1>1 DEF Crash, Workers, Loads, Lists
  <2>2. QED
    BY <1>1, <2>1, RecordTypes, QuietDiscovery, RefreshAssumption
    DEF Crash, EndSearch, Refreshing, NoWorker, NoLoad, Lists
<1>2. ASSUME NEW a \in Accounts, Publish(a) PROVE RefreshInv'
  BY <1>2, RefreshAssumption DEF Publish, Refreshing
<1>3. QED
  BY <1>1, <1>2

LEMMA StepRefresh == RefreshInv /\ [Next]_vars => RefreshInv'
<1> SUFFICES ASSUME RefreshInv, [Next]_vars PROVE RefreshInv'
  OBVIOUS
<1>1. CASE FrameLoop
  BY <1>1, StepOpen, StepSelect, StepAsk, StepCommit, StepConsume, StepFrame,
      StepLoad
  DEF FrameLoop
<1>2. CASE Worker \/ Search \/ Crash \/ \E a \in Accounts : Publish(a)
  BY <1>2, StepWorker, StepSearch, StepWorld
<1>3. CASE UNCHANGED vars
  BY <1>3 DEF vars, RefreshInv, FrameType, ThreadType, Apart, Refreshing
<1>4. QED
  BY <1>1, <1>2, <1>3 DEF Next

THEOREM RefreshInvariant == Spec => []RefreshInv
<1>1. QED
  BY InitRefresh, StepRefresh, PTL DEF Spec

(* Only the end of the program forgets that a schedule met a form. *)
LEMMA StepMet ==
    Next => \/ metForm' = metForm
            \/ metForm' = (metForm \/ form # None)
            \/ Crash /\ metForm' = FALSE
<1> SUFFICES ASSUME Next PROVE \/ metForm' = metForm
                               \/ metForm' = (metForm \/ form # None)
                               \/ Crash /\ metForm' = FALSE
  OBVIOUS
<1>1. CASE Open \/ AskRefresh \/ CancelForm \/ ConsumeRefresh \/ Close \/ FinishClose
  BY <1>1 DEF Open, AskRefresh, CancelForm, ConsumeRefresh, Close, FinishClose
<1>2. CASE BeginSearch \/ CloseSearch \/ StartDiscovery \/ Search
  BY <1>2 DEF BeginSearch, CloseSearch, StartDiscovery, Search, SavedRead, ReadSaved
<1>3. CASE ScheduledRefresh
  BY <1>3 DEF ScheduledRefresh
<1>4. ASSUME NEW s \in Sources, UseSavedSource(s) \/ OpenForm(s) \/ ReadForJob(s)
      PROVE  metForm' = metForm
  BY <1>4 DEF UseSavedSource, OpenForm, ReadForJob
<1>5. ASSUME NEW a \in Accounts, CommitForm(a) \/ Publish(a) PROVE metForm' = metForm
  BY <1>5 DEF CommitForm, Publish
<1>6. CASE Worker \/ FinishLoad
  BY <1>6 DEF Worker, Fetch, FetchFails, CheckStop, Save, FinishLoad
<1>7. CASE Crash
  BY <1>7 DEF Crash
<1>8. QED
  BY <1>1, <1>2, <1>3, <1>4, <1>5, <1>6, <1>7 DEF Next, FrameLoop

MetIsFlag == metForm \in BOOLEAN

LEMMA MetType == Spec => []MetIsFlag
<1>1. Init => MetIsFlag
  BY DEF Init, MetIsFlag
<1>2. MetIsFlag /\ [Next]_vars => MetIsFlag'
  <2> SUFFICES ASSUME metForm \in BOOLEAN, [Next]_vars PROVE metForm' \in BOOLEAN
    BY DEF MetIsFlag
  <2>1. CASE UNCHANGED vars
    BY <2>1 DEF vars
  <2>2. CASE Next
    BY <2>2, StepMet
  <2>3. QED
    BY <2>1, <2>2
<1>3. QED
  BY <1>1, <1>2, PTL DEF Spec

(* Every list, thread and form of class Model holds what its type says. *)
THEOREM RefreshTypeCorrect == Spec => []TypeOK
<1>1. RefreshInv /\ MetIsFlag => TypeOK
  BY TypeParts DEF RefreshInv, MetIsFlag
<1>2. QED
  BY <1>1, RefreshInvariant, MetType, PTL

(* The selection never moves away from the source a download is for. *)
THEOREM DownloadIsOfSelected == Spec => []RefreshIsOfSelected
<1>1. RefreshInv => RefreshIsOfSelected
  BY DEF RefreshInv, Apart, RefreshIsOfSelected
<1>2. QED
  BY <1>1, RefreshInvariant, PTL

-----------------------------------------------------------------------------
(* While no scheduled download starts under a form, a form and a           *)
(* download exclude each other, so a download's account is still the       *)
(* selected source's when its list is installed. *)
Own ==
    /\ catalog # None => catalog.account = account[selected]
    /\ Refreshing => worker.account = account[selected]
    /\ worker.got # None => worker.got.account = worker.account
    /\ form # None => ~Refreshing
    /\ load.by = None

LEMMA LoadedIsOwn ==
    ASSUME NEW s, NEW a, LoadCache(s, a) # None
    PROVE  LoadCache(s, a).account = a
BY DEF LoadCache, Usable

LEMMA StartedIsOwn ==
    ASSUME NEW s, NEW a, Refresh(s, a), ~Refreshing
    PROVE  worker' = NoWorker \/ (worker'.account = a /\ worker'.got = None)
BY DEF Refresh

LEMMA SelectedIsOwn ==
    ASSUME NEW s, NEW a, NEW shown, Select(s, a, shown), ~Refreshing,
           worker.got # None => worker.got.account = worker.account
    PROVE  /\ selected' = s
           /\ catalog' = IF s = selected THEN shown ELSE LoadCache(s, a)
           /\ \/ worker' = NoWorker
              \/ worker'.account = a /\ worker'.got = None
              \/ worker' = worker
BY StartedIsOwn DEF Select

LEMMA InitOwn == Init => Own
BY DEF Init, Own, Refreshing, NoWorker, NoLoad

LEMMA CrashIsOwn == Crash => Own'
BY DEF Crash, Own, Refreshing, NoWorker, NoLoad

LEMMA StepOwn ==
    ASSUME ~metForm', RefreshInv, Own, [Next]_vars
    PROVE  Own'
<1> USE DEF Own
<1>0. account \in [Sources -> Accounts] /\ selected \in Sources
  BY DEF RefreshInv, FrameType
<1>1. CASE Open
  <2>1. ~Refreshing /\ form = None /\ UNCHANGED <<account, selected, form, load>>
    BY <1>1 DEF Open, Refreshing, RefreshInv, Apart
  <2>2. catalog' # None => catalog'.account = account[selected]
    BY <1>1, LoadedIsOwn DEF Open
  <2>3. worker' = NoWorker \/ worker' = worker
        \/ (worker'.account = account[selected] /\ worker'.got = None)
    BY <1>1, <2>1, StartedIsOwn DEF Open
  <2>4. QED
    BY <2>1, <2>2, <2>3 DEF Refreshing, NoWorker
<1>2. ASSUME NEW s \in Sources, UseSavedSource(s) PROVE Own'
  <2>1. Select(s, account[s], catalog) /\ ~Refreshing /\ form = None
        /\ UNCHANGED <<account, form, load>>
    BY <1>2 DEF UseSavedSource
  <2>2. catalog' # None => catalog'.account = account[s]
    BY <2>1, SelectedIsOwn, LoadedIsOwn
  <2>3. QED
    BY <2>1, <2>2, SelectedIsOwn DEF Refreshing, NoWorker
<1>3. CASE AskRefresh \/ ScheduledRefresh
  <2>1. /\ Refresh(selected, account[selected]) /\ form = None
        /\ UNCHANGED <<account, selected, catalog, form, load>>
    BY <1>3 DEF AskRefresh, ScheduledRefresh
  <2>2. worker' = worker \/ worker' = NoWorker
        \/ (worker'.account = account[selected] /\ worker'.got = None)
    BY <2>1, StartedIsOwn DEF Refresh
  <2>3. QED
    BY <2>1, <2>2 DEF Refreshing, NoWorker
<1>4. ASSUME NEW a \in Accounts, CommitForm(a) PROVE Own'
  <2> DEFINE shown == IF form = selected THEN LoadCache(form, a) ELSE catalog
  <2>1. form # None /\ form \in Sources /\ ~Refreshing /\ form' = None
        /\ account' = [account EXCEPT ![form] = a]
    BY <1>4 DEF CommitForm, RefreshInv, FrameType
  <2>2. Select(form, a, shown) /\ UNCHANGED load
    BY <1>4, <2>1 DEF CommitForm
  <2>3. account'[form] = a
    BY <1>0, <2>1
  <2>4. catalog' # None => catalog'.account = a
    BY <2>1, <2>2, SelectedIsOwn, LoadedIsOwn
  <2>5. selected' = form
        /\ (worker' = NoWorker \/ worker' = worker
            \/ (worker'.account = a /\ worker'.got = None))
    BY <2>1, <2>2, SelectedIsOwn
  <2>6. QED
    BY <2>1, <2>2, <2>3, <2>4, <2>5 DEF Refreshing, NoWorker
<1>5. CASE ConsumeRefresh
  <2>1. Refreshing /\ form = None /\ UNCHANGED <<account, selected, form, load>>
    BY <1>5 DEF ConsumeRefresh, Refreshing
  <2>2. catalog' = IF worker.got # None THEN worker.got ELSE catalog
    BY <1>5 DEF ConsumeRefresh
  <2>3. worker' = NoWorker \/ (worker'.account = account[selected] /\ worker'.got = None)
    BY <1>5 DEF ConsumeRefresh
  <2>4. QED
    BY <2>1, <2>2, <2>3 DEF Refreshing, NoWorker
<1>6. CASE Worker
  <2>1. Refreshing /\ UNCHANGED <<account, selected, catalog, form>>
        /\ worker \in Workers /\ load'.by = load.by
    BY <1>6 DEF Worker, Fetch, FetchFails, CheckStop, Save, MeetSave, Loads, Refreshing,
                RefreshInv, ThreadType
  <2>2. worker'.account = worker.account
        /\ (worker'.got # None => worker'.got.account = worker'.account)
    <3> USE <2>1 DEF Workers
    <3>1. CASE Fetch
      BY <3>1 DEF Fetch
    <3>2. CASE FetchFails
      BY <3>2 DEF FetchFails
    <3>3. CASE CheckStop
      BY <3>3 DEF CheckStop
    <3>4. CASE Save
      BY <3>4 DEF Save
    <3>5. QED
      BY <1>6, <3>1, <3>2, <3>3, <3>4 DEF Worker
  <2>3. QED
    BY <2>1, <2>2 DEF Refreshing
<1>7. CASE CancelForm \/ Close \/ BeginSearch \/ CloseSearch \/ StartDiscovery \/ Search
  <2>1. UNCHANGED <<account, selected, catalog, worker, load>> /\ (form' = form \/ form' = None)
    BY <1>7 DEF CancelForm, Close, BeginSearch, CloseSearch, StartDiscovery, Search,
                ReadSaved, SavedRead
  <2>2. QED
    BY <2>1 DEF Refreshing
<1>8. CASE FinishClose \/ Crash
  <2>1. CASE FinishClose
    BY <2>1 DEF FinishClose, Refreshing, NoWorker
  <2>2. QED
    BY <1>8, <2>1, CrashIsOwn
<1>9. ASSUME NEW s \in Sources, OpenForm(s) \/ ReadForJob(s) PROVE Own'
  BY <1>9 DEF OpenForm, ReadForJob, BeginLoad, Refreshing
<1>10. ASSUME NEW a \in Accounts, Publish(a) PROVE Own'
  BY <1>10 DEF Publish, Refreshing
<1>11. CASE UNCHANGED vars
  BY <1>11 DEF vars, Refreshing
<1>12. CASE FinishLoad
  BY <1>12 DEF FinishLoad, NoLoad, Refreshing
<1>13. QED
  BY <1>1, <1>2, <1>3, <1>4, <1>5, <1>6, <1>7, <1>8, <1>9, <1>10, <1>11, <1>12
  DEF Next, FrameLoop

OwnUnlessMet == metForm \/ Own

LEMMA StepOwnUnlessMet ==
    ASSUME RefreshInv, metForm \in BOOLEAN, OwnUnlessMet, [Next]_vars
    PROVE  OwnUnlessMet'
<1>1. CASE metForm'
  BY <1>1 DEF OwnUnlessMet
<1>2. CASE ~metForm' /\ UNCHANGED vars
  BY <1>2, StepOwn DEF OwnUnlessMet, vars
<1>3. CASE ~metForm' /\ Next
  BY <1>3, StepMet, StepOwn, CrashIsOwn DEF OwnUnlessMet
<1>4. QED
  BY <1>1, <1>2, <1>3

LEMMA AlwaysOwn == Spec => []OwnUnlessMet
<1>1. Init => OwnUnlessMet
  BY InitOwn DEF OwnUnlessMet
<1>2. RefreshInv /\ MetIsFlag /\ OwnUnlessMet /\ [Next]_vars => OwnUnlessMet'
  BY StepOwnUnlessMet DEF MetIsFlag
<1>3. QED
  BY <1>1, <1>2, RefreshInvariant, MetType, PTL DEF Spec

(* Unless a scheduled download has started while a form was open, the list *)
(* shown is always of the account the selected source has now: what the    *)
(* comment in commit_source asks for. *)
THEOREM ShownIsOwn == Spec => []ShownIsOwnUnlessMet
<1>1. OwnUnlessMet => ShownIsOwnUnlessMet
  BY DEF OwnUnlessMet, Own, ShownIsOwnUnlessMet
<1>2. QED
  BY <1>1, AlwaysOwn, PTL

(* discover_saved, load_cache and poll_programme_jobs never read the files *)
(* the worker's SaveCatalog replaces, but for the load of a form under     *)
(* which a scheduled download has started. *)
THEOREM ReaderAndSaveApart == Spec => []NoReaderMeetsSave
<1>1. RefreshInv /\ MetIsFlag /\ OwnUnlessMet => NoReaderMeetsSave
  BY DEF RefreshInv, Apart, OwnUnlessMet, Own, MetIsFlag, NoReaderMeetsSave, Refreshing
<1>2. QED
  BY <1>1, RefreshInvariant, MetType, AlwaysOwn, PTL

-----------------------------------------------------------------------------
(* What is fetched and not yet dropped is a list, so a save writes one. *)
SavesAList == worker.pc \in {"fetched", "saving"} => worker.got # None

LEMMA InitSaves == Init => SavesAList
BY DEF Init, SavesAList, NoWorker

LEMMA StartedSavesNothing ==
    ASSUME NEW s, NEW a, Refresh(s, a)
    PROVE  worker' = worker \/ worker'.pc \in {"none", "fetching"}
BY DEF Refresh, NoWorker

LEMMA StepSaves ==
    ASSUME RefreshInv, SavesAList, [Next]_vars
    PROVE  SavesAList'
<1> USE DEF SavesAList
<1>1. CASE Open \/ AskRefresh \/ ScheduledRefresh
  BY <1>1, StartedSavesNothing DEF Open, AskRefresh, ScheduledRefresh
<1>2. ASSUME NEW s \in Sources, UseSavedSource(s) PROVE SavesAList'
  BY <1>2, StartedSavesNothing DEF UseSavedSource, Select
<1>3. ASSUME NEW a \in Accounts, CommitForm(a) PROVE SavesAList'
  BY <1>3, StartedSavesNothing DEF CommitForm, Select
<1>4. CASE ConsumeRefresh \/ FinishClose \/ Crash \/ FinishLoad
  BY <1>4 DEF ConsumeRefresh, FinishClose, Crash, FinishLoad, NoWorker
<1>5. CASE Worker
  <2>1. worker \in Workers
    BY DEF RefreshInv, ThreadType
  <2>2. CASE Fetch
    <3> DEFINE list == [account |-> worker.account, revision |-> revision[worker.account]]
    <3>1. list \in List
      BY <2>2 DEF Fetch, RefreshInv, ThreadType, Apart, Refreshing, List
    <3>2. list # None
      BY <3>1, ListAssumption
    <3>3. worker' = [worker EXCEPT !.pc = "fetched", !.got = list]
      BY <2>2 DEF Fetch
    <3> HIDE DEF list
    <3>4. QED
      BY <2>1, <3>2, <3>3 DEF Workers
  <2>3. CASE FetchFails \/ Save
    BY <2>1, <2>3 DEF FetchFails, Save, Workers
  <2>4. CASE CheckStop
    BY <2>1, <2>4 DEF CheckStop, Workers
  <2>5. QED
    BY <1>5, <2>2, <2>3, <2>4 DEF Worker
<1>6. CASE CancelForm \/ Close \/ BeginSearch \/ CloseSearch \/ StartDiscovery \/ Search
  BY <1>6 DEF CancelForm, Close, BeginSearch, CloseSearch, StartDiscovery, Search,
              ReadSaved, SavedRead
<1>7. ASSUME NEW s \in Sources, OpenForm(s) \/ ReadForJob(s) PROVE SavesAList'
  BY <1>7 DEF OpenForm, ReadForJob
<1>8. ASSUME NEW a \in Accounts, Publish(a) PROVE SavesAList'
  BY <1>8 DEF Publish
<1>9. CASE UNCHANGED vars
  BY <1>9 DEF vars
<1>10. QED
  BY <1>1, <1>2, <1>3, <1>4, <1>5, <1>6, <1>7, <1>8, <1>9 DEF Next, FrameLoop

(* A step that takes the list off the screen, and one that writes a file. *)
ListGoes == catalog # None /\ catalog' = None
FilesStay ==
    \A s \in Sources : cache[s] # None =>
        cache'[s] # None \/ (load.source = s /\ load.met)
MayGo ==
    \/ selected' # selected \/ session' = "closed"
    \/ form = selected
    \/ load.by # None

LEMMA StepList ==
    ASSUME Next, ListGoes
    PROVE  MayGo
<1> USE DEF ListGoes, MayGo
<1>1. CASE Open \/ AskRefresh \/ ScheduledRefresh \/ CancelForm \/ ConsumeRefresh
  BY <1>1 DEF Open, AskRefresh, ScheduledRefresh, CancelForm, ConsumeRefresh
<1>2. CASE Close \/ FinishClose \/ BeginSearch \/ CloseSearch \/ StartDiscovery
  BY <1>2 DEF Close, FinishClose, BeginSearch, CloseSearch, StartDiscovery
<1>3. ASSUME NEW s \in Sources, UseSavedSource(s) \/ OpenForm(s) \/ ReadForJob(s)
      PROVE  MayGo
  BY <1>3 DEF UseSavedSource, OpenForm, ReadForJob, Select
<1>4. ASSUME NEW a \in Accounts, CommitForm(a) PROVE MayGo
  <2>1. CASE Refreshing
    BY <1>4, <2>1 DEF CommitForm
  <2>2. CASE ~Refreshing
    BY <1>4, <2>2 DEF CommitForm, Select
  <2>3. QED
    BY <2>1, <2>2
<1>5. CASE Worker \/ Search
  BY <1>5 DEF Worker, Fetch, FetchFails, CheckStop, Save, Search, SavedRead, ReadSaved
<1>6. CASE Crash \/ FinishLoad \/ \E a \in Accounts : Publish(a)
  BY <1>6 DEF Crash, FinishLoad, Publish
<1>7. QED
  BY <1>1, <1>2, <1>3, <1>4, <1>5, <1>6 DEF Next, FrameLoop

LEMMA StepFiles ==
    ASSUME RefreshInv, SavesAList, Next
    PROVE  FilesStay
<1>1. cache \in [Sources -> Lists]
  BY DEF RefreshInv, ThreadType
<1>2. CASE UNCHANGED cache
  BY <1>2 DEF FilesStay
<1>3. CASE worker.pc = "saving" /\ cache' = [cache EXCEPT ![worker.source] = worker.got]
  BY <1>1, <1>3 DEF FilesStay, SavesAList
<1>4. CASE FrameLoop
  <2>1. CASE Open \/ AskRefresh \/ ScheduledRefresh \/ CancelForm \/ ConsumeRefresh
             \/ Close \/ FinishClose \/ BeginSearch \/ CloseSearch \/ StartDiscovery
    BY <1>2, <2>1 DEF Open, AskRefresh, ScheduledRefresh, CancelForm, ConsumeRefresh,
                      Close, FinishClose, BeginSearch, CloseSearch, StartDiscovery
  <2>2. ASSUME NEW s \in Sources, UseSavedSource(s) \/ OpenForm(s) \/ ReadForJob(s)
        PROVE  FilesStay
    BY <1>2, <2>2 DEF UseSavedSource, OpenForm, ReadForJob
  <2>3. ASSUME NEW a \in Accounts, CommitForm(a) PROVE FilesStay
    BY <1>2, <2>3 DEF CommitForm
  <2>4. CASE FinishLoad
    BY <1>1, <2>4, OutcomesAreLists
    DEF FinishLoad, FilesStay, RefreshInv, Loading, ThreadType, Loads
  <2>5. QED
    BY <1>4, <2>1, <2>2, <2>3, <2>4 DEF FrameLoop
<1>5. CASE Worker \/ Search
  BY <1>2, <1>3, <1>5
  DEF Worker, Fetch, FetchFails, CheckStop, Save, Search, SavedRead, ReadSaved
<1>6. CASE Crash \/ \E a \in Accounts : Publish(a)
  BY <1>1, <1>2, <1>3, <1>6 DEF Crash, Publish, FilesStay
<1>7. QED
  BY <1>4, <1>5, <1>6 DEF Next

(* A list that can be shown goes away only with its source, its account or *)
(* the program, whatever fails in run_refresh; a saved one only by a load  *)
(* that met its save. *)
THEOREM ListsAreKept == Spec => ListIsKept
<1> DEFINE Kept == /\ catalog # None /\ catalog' = None =>
                        \/ selected' # selected \/ session' = "closed"
                        \/ form = selected
                        \/ load.by # None
                   /\ \A s \in Sources : cache[s] # None =>
                        cache'[s] # None \/ (load.source = s /\ load.met)
<1>1. RefreshInv /\ SavesAList /\ [Next]_vars => SavesAList'
  BY StepSaves
<1>2. RefreshInv /\ SavesAList /\ [Next]_vars => [Kept]_vars
  BY StepList, StepFiles DEF ListGoes, MayGo, FilesStay
<1> HIDE DEF Kept
<1>3. Spec => [][Kept]_vars
  BY <1>1, <1>2, InitSaves, RefreshInvariant, PTL DEF Spec
<1>4. QED
  BY <1>3 DEF Kept, ListIsKept
=============================================================================
