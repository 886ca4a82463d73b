-------------------------- MODULE CatalogRefresh --------------------------
(***************************************************************************)
(* The channel list of class ptv::Model (opengl-ui/src/tv/model.cpp,       *)
(* model_library.cpp and model_search.cpp): the list of the selected       *)
(* source, the worker thread that downloads and saves a new one, the forms *)
(* that change a source's account, the search thread that reads the other  *)
(* sources' saved lists, and the sessions opened and closed around         *)
(* playback.  A channel list is the account it was downloaded with and the *)
(* provider's revision; CatalogStore shows that one save or load of a list *)
(* may be taken as one step, which a crash leaves undone or done, while    *)
(* one thread uses its files; what a refused undo or a file that could not *)
(* be read may cost beyond that is left to it.  The frame loop loads a     *)
(* list in one step where no download can run, and in two where it may run *)
(* beside a save.                                                          *)
(***************************************************************************)
EXTENDS Naturals

CONSTANTS
    Sources,            \* the saved sources
    Playlists,          \* those whose form is a playlist address
    Accounts,           \* what source_id() tells apart: address and credentials
    None,
    MaxRevision         \* bound: revisions of a provider's list

ASSUME RefreshAssumption ==
    /\ Playlists \subseteq Sources
    /\ None \notin Sources \cup Accounts
    /\ MaxRevision \in Nat

VARIABLES
    account,    \* sources_: each source's account, as the library saved it
    selected,   \* selected_source_id_
    catalog,    \* catalog_, None while catalog_loaded_ is false
    cache,      \* the saved list of each source, cache_path()
    worker,     \* the refresh thread and its refresh_ and pending_ members
    queued,     \* refresh_queued_
    stopping,   \* stop_requested_
    form,       \* the source whose form is on screen, editing_source_id_
    session,    \* "open", "closing" while close() waits for the worker, "closed"
    searching,  \* searching_
    discovery,  \* the thread of discover_saved: running, the lists it reads
    load,       \* the frame loop inside LoadCatalog, while other threads run
    revision,   \* each provider's current list
    metForm     \* ghost: a scheduled download has started under a form

vars == <<account, selected, catalog, cache, worker, queued, stopping, form, session,
          searching, discovery, load, revision, metForm>>

List == [account : Accounts, revision : 0 .. MaxRevision]
Lists == List \cup {None}

ASSUME ListAssumption == None \notin List

NoWorker == [pc |-> "none", source |-> None, account |-> None, got |-> None]
NoDiscovery == [on |-> FALSE, left |-> {}, reading |-> None]

(* A load of source's list for account by (None: for a programme's job),   *)
(* what was saved before it, and whether a save of that list met it. *)
NoLoad == [source |-> None, by |-> None, before |-> None, met |-> FALSE]

Refreshing == worker.pc # "none"        \* refresh_thread_ != nullptr
Loading == load.source # None
Free == session = "open" /\ ~Loading    \* the frame loop serves the menu
SavingNow(source) == worker.pc = "saving" /\ worker.source = source

(* load_cache() takes the saved list only if it is this account's. *)
BadUsableAnyAccount(list, by) == list

Usable(list, by) == IF list # None /\ list.account = by THEN list ELSE None

LoadCache(source, by) == Usable(cache[source], by)

Init ==
    /\ account \in [Sources -> Accounts]
    /\ selected \in Sources
    /\ cache = [s \in Sources |-> None]
    /\ catalog = None
    /\ worker = NoWorker
    /\ queued = FALSE
    /\ stopping = FALSE
    /\ form = None
    /\ session = "closed"
    /\ searching = FALSE
    /\ discovery = NoDiscovery
    /\ load = NoLoad
    /\ revision = [a \in Accounts |-> 0]
    /\ metForm = FALSE

-----------------------------------------------------------------------------
(* Parts of the frame loop's operations *)

(* end_search(): the search thread is stopped and joined. *)
EndSearch ==
    /\ searching' = FALSE
    /\ discovery' = NoDiscovery

(* refresh() for the source and account given.  The thread may not start. *)
Refresh(source, by) ==
    /\ EndSearch
    /\ IF Refreshing
       THEN queued' = TRUE /\ UNCHANGED <<worker, stopping>>
       ELSE /\ queued' = FALSE
            /\ stopping' = FALSE
            /\ \/ worker' = [pc |-> "fetching", source |-> source, account |-> by,
                             got |-> None]
               \/ worker' = NoWorker

(* select_source_record(), load_cache() if it is another source, and       *)
(* refresh() if refresh_needed(): no list, a playlist of an old release, or*)
(* a schedule that has come due. *)
Select(source, by, shown) ==
    /\ selected' = source
    /\ catalog' = IF source = selected THEN shown ELSE LoadCache(source, by)
    /\ \/ Refresh(source, by)
       \/ /\ catalog' # None
          /\ EndSearch
          /\ UNCHANGED <<worker, queued, stopping>>

-----------------------------------------------------------------------------
(* The frame loop *)

(* open(): a list still in memory is kept. *)
Open ==
    /\ session = "closed"
    /\ session' = "open"
    /\ catalog' = IF catalog # None THEN catalog ELSE LoadCache(selected, account[selected])
    /\ \/ Refresh(selected, account[selected])
       \/ /\ catalog' # None
          /\ queued' = FALSE /\ stopping' = FALSE
          /\ UNCHANGED <<worker, searching, discovery>>
    /\ UNCHANGED <<account, selected, cache, form, revision, load, metForm>>

(* use_saved_source(), from the Sources screen, the phone or a search.     *)
(* The choice is saved first (select_source), or nothing changes. *)
BadUseDuringRefresh(source) ==
    /\ Free /\ form = None
    /\ Select(source, account[source], catalog)
    /\ UNCHANGED <<account, cache, form, session, revision, load, metForm>>

UseSavedSource(source) ==
    /\ Free /\ form = None
    /\ ~Refreshing
    /\ Select(source, account[source], catalog)
    /\ UNCHANGED <<account, cache, form, session, revision, load, metForm>>

(* The user's refresh(): the On Demand tab of a playlist asks for it even  *)
(* while one runs. *)
AskRefresh ==
    /\ Free /\ form = None
    /\ ~Refreshing \/ selected \in Playlists
    /\ Refresh(selected, account[selected])
    /\ UNCHANGED <<account, selected, catalog, cache, form, session, revision, load, metForm>>

(* The last conjunct of poll(): the list in memory is due. *)
ScheduledRefresh ==
    /\ Free
    /\ catalog # None /\ ~Refreshing /\ ~searching
    /\ Refresh(selected, account[selected])
    /\ metForm' = (metForm \/ form # None)
    /\ UNCHANGED <<account, selected, catalog, cache, form, session, load, revision>>

(* edit_saved_source(), and continue_account_form() over the frames after. *)
OpenForm(source) ==
    /\ Free /\ form = None
    /\ ~Refreshing
    /\ form' = source
    /\ UNCHANGED <<account, selected, catalog, cache, worker, queued, stopping, session,
                   searching, discovery, revision, load, metForm>>

(* The form is left, is not accepted, or the library cannot save it; a     *)
(* playlist's address is refused while a download runs (apply_custom_url). *)
CancelForm ==
    /\ form # None
    /\ Free
    /\ form' = None
    /\ UNCHANGED <<account, selected, catalog, cache, worker, queued, stopping, session,
                   searching, discovery, revision, load, metForm>>

(* LoadCatalog on the frame loop while another thread may save. *)
BeginLoad(source, by) ==
    load' = [source |-> source, by |-> by, before |-> cache[source],
             met |-> SavingNow(source)]

(* commit_source(), from apply_account_password, on_portal_mac,            *)
(* commit_local_form or apply_custom_url: the source's record is replaced, *)
(* the list of the selected source is loaded for its new account, and      *)
(* use_saved_source() selects the source unless a download runs.  With no  *)
(* download no other thread uses that list, so its load is in this step. *)
CommitForm(by) ==
    LET own == form = selected
        shown == IF own THEN LoadCache(form, by) ELSE catalog
    IN  /\ Free /\ form # None
        /\ ~Refreshing \/ form \notin Playlists
        /\ account' = [account EXCEPT ![form] = by]
        /\ form' = None
        /\ IF Refreshing
           THEN /\ IF own THEN EndSearch /\ BeginLoad(form, by)
                   ELSE UNCHANGED <<searching, discovery, load>>
                /\ UNCHANGED <<selected, catalog, worker, queued, stopping>>
           ELSE Select(form, by, shown) /\ UNCHANGED load
        /\ UNCHANGED <<cache, session, revision, metForm>>

(* poll_programme_jobs(): a recording of another source needs its list. *)
BadReadForJobAny(source) ==
    /\ Free
    /\ BeginLoad(source, None)
    /\ UNCHANGED <<account, selected, catalog, cache, worker, queued, stopping, form,
                   session, searching, discovery, revision, metForm>>

ReadForJob(source) ==
    /\ Free
    /\ source # selected
    /\ BeginLoad(source, None)
    /\ UNCHANGED <<account, selected, catalog, cache, worker, queued, stopping, form,
                   session, searching, discovery, revision, metForm>>

(* What a load finds, and what it leaves saved.  Between the renames of a  *)
(* save it may find the list before it, the new one or none; and it may    *)
(* put the list before it back, or remove the new one and then find the    *)
(* backup gone. *)
Outcomes ==
    IF load.met
    THEN {None, load.before, worker.got} \X {None, load.before, cache[load.source]}
    ELSE {<<cache[load.source], cache[load.source]>>}

(* load_cache() ends, or the job's; use_saved_source() refuses then, as a  *)
(* download is not consumed while the frame loop is here. *)
FinishLoad ==
    /\ session = "open" /\ Loading
    /\ \E outcome \in Outcomes :
          /\ catalog' = IF load.by = None THEN catalog ELSE Usable(outcome[1], load.by)
          /\ cache' = [cache EXCEPT ![load.source] = outcome[2]]
    /\ load' = NoLoad
    /\ UNCHANGED <<account, selected, worker, queued, stopping, form, session, searching,
                   discovery, revision, metForm>>

(* consume_refresh(): a download that failed leaves the list as it is. *)
BadConsumeForgetsQueue ==
    /\ Free
    /\ worker.pc = "done"
    /\ catalog' = IF worker.got # None THEN worker.got ELSE catalog
    /\ worker' = NoWorker
    /\ UNCHANGED <<account, selected, cache, queued, stopping, form, session, searching,
                   discovery, revision, load, metForm>>

BadConsumeFailure ==
    /\ Free
    /\ worker.pc = "done"
    /\ catalog' = worker.got
    /\ worker' = NoWorker /\ queued' = FALSE
    /\ UNCHANGED <<account, selected, cache, stopping, form, session, searching,
                   discovery, revision, load, metForm>>

ConsumeRefresh ==
    /\ Free
    /\ worker.pc = "done"
    /\ catalog' = IF worker.got # None THEN worker.got ELSE catalog
    /\ queued' = FALSE
    /\ IF queued
       THEN /\ EndSearch
            /\ stopping' = FALSE
            /\ \/ worker' = [pc |-> "fetching", source |-> selected,
                             account |-> account[selected], got |-> None]
               \/ worker' = NoWorker
       ELSE worker' = NoWorker /\ UNCHANGED <<stopping, searching, discovery>>
    /\ UNCHANGED <<account, selected, cache, form, session, revision, load, metForm>>

(* close(): before playback, and at the end of the program.  It asks the   *)
(* worker to stop, breaks its connections, and waits for it. *)
Close ==
    /\ Free
    /\ session' = "closing"
    /\ EndSearch
    /\ stopping' = TRUE
    /\ UNCHANGED <<account, selected, catalog, cache, worker, queued, form, revision, load, metForm>>

FinishClose ==
    /\ session = "closing"
    /\ worker.pc \in {"none", "done"}
    /\ session' = "closed"
    /\ worker' = NoWorker
    /\ queued' = FALSE /\ stopping' = FALSE
    /\ form' = None
    /\ UNCHANGED <<account, selected, catalog, cache, searching, discovery, revision, load, metForm>>

-----------------------------------------------------------------------------
(* The refresh thread, run_refresh() *)

Fetch ==
    /\ worker.pc = "fetching"
    /\ ~stopping
    /\ worker' = [worker EXCEPT
                    !.pc = "fetched",
                    !.got = [account |-> worker.account,
                             revision |-> revision[worker.account]]]
    /\ UNCHANGED <<account, selected, catalog, cache, queued, stopping, form, session,
                   searching, discovery, revision, load, metForm>>

(* The connection, the sign-in or the list fails, or close() broke it. *)
FetchFails ==
    /\ worker.pc = "fetching"
    /\ worker' = [worker EXCEPT !.pc = "done"]
    /\ UNCHANGED <<account, selected, catalog, cache, queued, stopping, form, session,
                   searching, discovery, revision, load, metForm>>

(* A load of the list about to be saved meets the save. *)
MeetSave ==
    load' = [load EXCEPT !.met = @ \/ (worker'.pc = "saving" /\ load.source = worker.source)]

(* A list that came too late is not saved and not indexed: it is not used. *)
BadStopAbandons ==
    /\ worker.pc = "fetched"
    /\ worker' = IF stopping THEN [worker EXCEPT !.pc = "abandoned"]
                 ELSE [worker EXCEPT !.pc = "saving"]
    /\ MeetSave
    /\ UNCHANGED <<account, selected, catalog, cache, queued, stopping, form, session,
                   searching, discovery, revision, metForm>>

CheckStop ==
    /\ worker.pc = "fetched"
    /\ worker' = IF stopping THEN [worker EXCEPT !.pc = "done", !.got = None]
                 ELSE [worker EXCEPT !.pc = "saving"]
    /\ MeetSave
    /\ UNCHANGED <<account, selected, catalog, cache, queued, stopping, form, session,
                   searching, discovery, revision, metForm>>

(* SaveCatalog(refresh_cache_path_, ...) succeeds or changes nothing. *)
Save ==
    /\ worker.pc = "saving"
    /\ \/ cache' = [cache EXCEPT ![worker.source] = worker.got]
       \/ UNCHANGED cache
    /\ worker' = [worker EXCEPT !.pc = "done"]
    /\ UNCHANGED <<account, selected, catalog, queued, stopping, form, session, searching,
                   discovery, revision, load, metForm>>

-----------------------------------------------------------------------------
(* The search, begin_search() to end_search(), and its thread *)

BeginSearch ==
    /\ Free /\ form = None
    /\ ~searching
    /\ searching' = TRUE
    /\ UNCHANGED <<account, selected, catalog, cache, worker, queued, stopping, form,
                   session, discovery, revision, load, metForm>>

CloseSearch ==
    /\ Free /\ form = None
    /\ searching
    /\ EndSearch
    /\ UNCHANGED <<account, selected, catalog, cache, worker, queued, stopping, form,
                   session, revision, load, metForm>>

(* poll_discovery(): every saved list but the selected source's. *)
BadStartDiscoveryAll ==
    /\ Free
    /\ searching /\ ~discovery.on
    /\ discovery' = [on |-> TRUE, left |-> Sources, reading |-> None]
    /\ UNCHANGED <<account, selected, catalog, cache, worker, queued, stopping, form,
                   session, searching, revision, load, metForm>>

StartDiscovery ==
    /\ Free
    /\ searching /\ ~discovery.on
    /\ discovery' = [on |-> TRUE, left |-> Sources \ {selected}, reading |-> None]
    /\ UNCHANGED <<account, selected, catalog, cache, worker, queued, stopping, form,
                   session, searching, revision, load, metForm>>

(* discover_saved(): LoadCatalog of one list after another. *)
ReadSaved(source) ==
    /\ discovery.on /\ source \in discovery.left
    /\ discovery.reading = None
    /\ discovery' = [discovery EXCEPT !.left = @ \ {source}, !.reading = source]
    /\ UNCHANGED <<account, selected, catalog, cache, worker, queued, stopping, form,
                   session, searching, revision, load, metForm>>

SavedRead ==
    /\ discovery.on
    /\ discovery' = IF discovery.reading # None /\ discovery.left # {}
                    THEN [discovery EXCEPT !.reading = None]
                    ELSE NoDiscovery
    /\ discovery.reading # None \/ discovery.left = {}
    /\ UNCHANGED <<account, selected, catalog, cache, worker, queued, stopping, form,
                   session, searching, revision, load, metForm>>

-----------------------------------------------------------------------------
(* The world *)

Publish(by) ==
    /\ revision[by] < MaxRevision
    /\ revision' = [revision EXCEPT ![by] = @ + 1]
    /\ UNCHANGED <<account, selected, catalog, cache, worker, queued, stopping, form,
                   session, searching, discovery, load, metForm>>

(* The app is closed by force: what is saved remains, and a save under way *)
(* is done or not. *)
Crash ==
    /\ session' = "closed"
    /\ catalog' = None
    /\ \/ UNCHANGED cache
       \/ worker.pc = "saving" /\ cache' = [cache EXCEPT ![worker.source] = worker.got]
       \/ load.met /\ \E left \in {None, load.before} :
                          cache' = [cache EXCEPT ![load.source] = left]
    /\ load' = NoLoad
    /\ worker' = NoWorker
    /\ queued' = FALSE /\ stopping' = FALSE
    /\ form' = None
    /\ metForm' = FALSE
    /\ EndSearch
    /\ UNCHANGED <<account, selected, revision>>

FrameLoop ==
    \/ Open \/ AskRefresh \/ ScheduledRefresh \/ CancelForm \/ ConsumeRefresh
    \/ Close \/ FinishClose \/ BeginSearch \/ CloseSearch \/ StartDiscovery
    \/ FinishLoad
    \/ \E s \in Sources : UseSavedSource(s) \/ OpenForm(s) \/ ReadForJob(s)
    \/ \E a \in Accounts : CommitForm(a)

Worker == Fetch \/ FetchFails \/ CheckStop \/ Save

Search == SavedRead \/ \E s \in Sources : ReadSaved(s)

Next == FrameLoop \/ Worker \/ Search \/ Crash \/ \E a \in Accounts : Publish(a)

(* The scheduler runs every thread; a request ends by itself, by its       *)
(* timeout or because close() cancels it again and again; a load ends;     *)
(* poll() consumes a download on every frame the menu has, whatever loads  *)
(* come between; and close() returns when the worker is joined. *)
Fairness ==
    /\ WF_vars(Worker)
    /\ WF_vars(FinishLoad)
    /\ SF_vars(ConsumeRefresh)
    /\ WF_vars(FinishClose)

Spec == Init /\ [][Next]_vars /\ Fairness

-----------------------------------------------------------------------------
TypeOK ==
    /\ account \in [Sources -> Accounts]
    /\ selected \in Sources
    /\ catalog \in Lists
    /\ cache \in [Sources -> Lists]
    /\ worker \in [pc : {"none", "fetching", "fetched", "saving", "done"},
                   source : Sources \cup {None}, account : Accounts \cup {None},
                   got : Lists]
    /\ queued \in BOOLEAN /\ stopping \in BOOLEAN /\ searching \in BOOLEAN
    /\ form \in Sources \cup {None}
    /\ session \in {"open", "closing", "closed"}
    /\ discovery \in [on : BOOLEAN, left : SUBSET Sources, reading : Sources \cup {None}]
    /\ load \in [source : Sources \cup {None}, by : Accounts \cup {None},
                 before : Lists, met : BOOLEAN]
    /\ revision \in [Accounts -> 0 .. MaxRevision]
    /\ metForm \in BOOLEAN

(* The list on screen is of the account the selected source has now.       *)
(* model_library.cpp, commit_source: "Editing the selected source must     *)
(* discard the old source's in-memory catalog."  (Nothing is drawn during  *)
(* the load of a form.) *)
ShownIsSelected ==
    catalog # None /\ load.by = None => catalog.account = account[selected]

(* The same, unless a scheduled download has started under an open form.   *)
ShownIsOwnUnlessMet ==
    catalog # None /\ ~metForm => catalog.account = account[selected]

(* The source a download is for stays the selected one until its result is *)
(* consumed, so consume_refresh(), which does not ask, installs no other's.*)
RefreshIsOfSelected ==
    Refreshing => worker.source = selected

(* Nobody reads the files SaveCatalog is replacing, for which the recovery *)
(* of a backup would be wrong: neither the search thread nor a due job,    *)
(* and a form's load only when a scheduled download has started under it. *)
NoReaderMeetsSave ==
    worker.pc = "saving" =>
        /\ discovery.reading # worker.source
        /\ load.source = worker.source => load.by # None /\ metForm

(* A list that can be shown goes away only when another source is chosen,  *)
(* the selected one's form is saved, or the program ends: a failed         *)
(* download, one that close() stopped, or a session in between leaves it.  *)
(* And a saved list is never taken away, but by a load that meets a save. *)
ListIsKept ==
    [][/\ catalog # None /\ catalog' = None =>
             \/ selected' # selected \/ session' = "closed"
             \/ form = selected
             \/ load.by # None
       /\ \A s \in Sources : cache[s] # None =>
             cache'[s] # None \/ (load.source = s /\ load.met)]_vars

(* A refresh asked for during another one is started when that one ends,   *)
(* unless the menu is closed first. *)
QueuedIsServed == queued ~> ~queued

(* close() does not wait for ever. *)
CloseReturns == session = "closing" ~> session = "closed"
=============================================================================
