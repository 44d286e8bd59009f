---------------------------- MODULE RequestStore ----------------------------
(***************************************************************************)
(* The Core Data cache of the user's requests: CDHandler, the part of the  *)
(* app delegate that sets up the saved locale, and the part of the landing *)
(* screen that feeds a fetched list to the cache and reads it back.        *)
(*                                                                         *)
(* The cache is written row by row, each row with its own context.save(),  *)
(* on the main thread.  No other handler runs in between, but the process  *)
(* can be killed between any two rows and any single fetch or save can     *)
(* throw, so every iteration of the loops of updateSavedRequests is an     *)
(* action.  Rows are processed in any order: the sort by dateCreated only  *)
(* orders them, and rows of one request share it.                          *)
(*                                                                         *)
(* A row stands for a CDRequest with its CDRequestItems (they are written  *)
(* and deleted together: the relationship cascades).  Of its attributes    *)
(* the model keeps the ones updateSavedRequests reads or changes, and the  *)
(* language the item names were fetched in; the rest is determined by the  *)
(* id.                                                                     *)
(***************************************************************************)
EXTENDS Naturals, FiniteSets

CONSTANTS
    Ids,        \* keys of requests in the realtime database
    Statuses,   \* status codes of a request ("sent", "prep", "otw", "done")
    Locales,    \* values of Locale.current.languageCode
    Objs,       \* NSManagedObjectIDs: the identities rows can have
    Absent,     \* no row, no request, or no saved locale
    MaxFetchErrors  \* bound on the number of context.fetch calls that throw

Row == [id: Ids, status: Statuses, isNew: BOOLEAN, lang: Locales]

(***************************************************************************)
(* Absent is none of the values it stands in for.                          *)
(***************************************************************************)
ASSUME AbsentAssumption ==
    /\ Absent \notin Row
    /\ Absent \notin Statuses
    /\ Absent \notin Locales

ASSUME MaxFetchErrorsAssumption == MaxFetchErrors \in Nat

\* A store holds finitely many rows.
ASSUME ObjsAssumption == IsFiniteSet(Objs)

VARIABLES
    pc,             \* "off"; "loaded": no list applied since launch;
                    \* "update": in updateSavedRequests; "synced": after it
    ctx,            \* rows as the view context sees them (unsaved changes too)
    disk,           \* rows in the persistent store
    currLocale,     \* UserDefaults "currLocale"
    locale,         \* Locale.current.languageCode of this process
    oldRequests,    \* local: what loadAllRequests returned and is unprocessed
    newRequests,    \* local: the mutable copy of the fetched list
    changedLocale,  \* local: the saved locale is not the current one
    userRequests,   \* LandingViewController.userRequests
    fetched,        \* the parameter newRequests, as the server list was read
    before,         \* history: the rows at the start of the last update
    tainted,        \* history: a change of language did not reach the disk
    fetchErrors,    \* history: how many calls of context.fetch have thrown
    health          \* history: what the fetch errors so far leave to expect

vars == <<pc, ctx, disk, currLocale, locale, oldRequests, newRequests,
          changedLocale, userRequests, fetched, before, tainted, fetchErrors,
          health>>

(***************************************************************************)
(* A table of rows, and a list of requests as it comes from the server: at *)
(* most one request per id, because postRequest links every request once,  *)
(* under a key of its own.                                                 *)
(***************************************************************************)
Table == [Objs -> Row \cup {Absent}]
RequestList == [Ids -> Statuses \cup {Absent}]

NoRows == [x \in Objs |-> Absent]
NoRequests == [i \in Ids |-> Absent]

Present(t) == {x \in Objs : t[x] # Absent}
Listed(l) == {i \in Ids : l[i] # Absent}

\* Mutants of HasMatch: the status, or the change of language, is ignored.
HasMatchById(r) == ~changedLocale /\ newRequests[r.id] # Absent
HasMatchAnyLocale(r) == newRequests[r.id] = r.status

(***************************************************************************)
(* oldRequests.first!.id == newRequests[i].id && ...status == ...status,   *)
(* for some i, unless the scan breaks because the locale changed.          *)
(***************************************************************************)
HasMatch(r) == ~changedLocale /\ newRequests[r.id] = r.status

(***************************************************************************)
(* context.fetch with the predicate id == i, when it does not throw, and   *)
(* the two outcomes of a fetch.                                            *)
(***************************************************************************)
FetchById(i) == {x \in Present(ctx) : ctx[x].id = i}

FetchReturns == UNCHANGED fetchErrors

FetchThrows ==
    /\ fetchErrors < MaxFetchErrors
    /\ fetchErrors' = fetchErrors + 1

(***************************************************************************)
(* What the fetches of updateSavedRequests did to the cache.  "failed": a  *)
(* fetch of the last update threw.  "suspect": rows may be duplicated.     *)
(* "unique": one update without a throw has ended since.  "exact": two     *)
(* have, or no fetch ever threw.                                           *)
(***************************************************************************)
Healths == {"failed", "suspect", "unique", "exact"}

NoteFetch == health' = IF fetchErrors' = fetchErrors THEN health ELSE "failed"

(***************************************************************************)
(* try context.save(): writes every pending change of the context, or      *)
(* throws; the error is printed and the changes stay pending.              *)
(***************************************************************************)
ContextSave == disk' = ctx' \/ disk' = disk

\* Mutant of saveRequest: the status is not copied.
saveRequestNoStatus(i, s) ==
    /\ \E x \in Objs :
        /\ ctx[x] = Absent
        /\ ctx' = [ctx EXCEPT ![x] = [id |-> i, status |-> Absent,
                                      isNew |-> TRUE, lang |-> locale]]
    /\ ContextSave

(***************************************************************************)
(* CDHandler.saveRequest: insert a row, flagged new, and save.             *)
(***************************************************************************)
saveRequest(i, s) ==
    /\ \E x \in Objs :
        /\ ctx[x] = Absent
        /\ ctx' = [ctx EXCEPT ![x] =
                      [id |-> i, status |-> s, isNew |-> TRUE, lang |-> locale]]
    /\ ContextSave

\* Mutants of deleteRequest: the row stays in the context; rows are deleted
\* only if the fetch found exactly one.
deleteRequestKeepsRow(i) == FetchReturns /\ UNCHANGED <<ctx, disk>>

deleteRequestOnlyUnique(i) ==
    \/ /\ FetchReturns
       /\ IF \A x, y \in FetchById(i) : x = y
          THEN \E x \in FetchById(i) : ctx' = [ctx EXCEPT ![x] = Absent]
          ELSE ctx' = ctx
       /\ ContextSave
    \/ FetchThrows /\ UNCHANGED <<ctx, disk>>

(***************************************************************************)
(* CDHandler.deleteRequest: delete the first row with this id, if any, and *)
(* save.  The fetch is not sorted: any row with the id can be the first.   *)
(* A fetch that throws skips the save too.                                 *)
(***************************************************************************)
deleteRequest(i) ==
    \/ /\ FetchReturns
       /\ IF FetchById(i) = {}
          THEN ctx' = ctx
          ELSE \E x \in FetchById(i) : ctx' = [ctx EXCEPT ![x] = Absent]
       /\ ContextSave
    \/ FetchThrows /\ UNCHANGED <<ctx, disk>>

\* Mutant of markRequestAsOld: the flag is not cleared.
markRequestAsOldNoOp(i) == FetchReturns /\ ctx' = ctx /\ ContextSave

(***************************************************************************)
(* CDHandler.markRequestAsOld: clear isNew in the first row with this id.  *)
(***************************************************************************)
markRequestAsOld(i) ==
    \/ /\ FetchReturns
       /\ IF FetchById(i) = {}
          THEN ctx' = ctx
          ELSE \E x \in FetchById(i) : ctx' = [ctx EXCEPT ![x].isNew = FALSE]
       /\ ContextSave
    \/ FetchThrows /\ UNCHANGED <<ctx, disk>>

\* Mutant of loadAllRequests: requests seen before are filtered out.
loadAllRequestsOnlyNew(rows, list) ==
    /\ FetchReturns
    /\ list = [x \in Objs |-> IF x \in Present(rows) /\ rows[x].isNew
                              THEN rows[x] ELSE Absent]

(***************************************************************************)
(* CDHandler.loadAllRequests: list is the rows of the context, or nothing  *)
(* when the fetch throws: the caller cannot tell an error from an empty    *)
(* cache.                                                                  *)
(***************************************************************************)
loadAllRequests(rows, list) ==
    \/ FetchReturns /\ list = rows
    \/ FetchThrows /\ list = NoRows

(***************************************************************************)
(* AppDelegate.didFinishLaunching and LandingViewController.viewDidLoad:   *)
(* the first launch ever records the locale; the landing screen shows what *)
(* the store holds.  l is the language the device is set to.               *)
(***************************************************************************)
Launch(l) ==
    /\ pc = "off"
    /\ pc' = "loaded"
    /\ locale' = l
    /\ currLocale' = IF currLocale = Absent THEN l ELSE currLocale
    /\ ctx' = disk
    /\ loadAllRequests(disk, userRequests')
    /\ UNCHANGED <<disk, oldRequests, newRequests, changedLocale, fetched,
                   before, tainted, health>>

(***************************************************************************)
(* refreshData's completion with a list f: updateSavedRequests starts by   *)
(* loading the saved rows, copying f and comparing the locales.            *)
(***************************************************************************)
BeginUpdate(f) ==
    /\ pc \in {"loaded", "synced"}
    /\ pc' = "update"
    /\ loadAllRequests(ctx, oldRequests')
    /\ newRequests' = f
    /\ changedLocale' = (currLocale # locale)
    /\ fetched' = f
    /\ before' = ctx
    /\ health' = IF fetchErrors' # fetchErrors THEN "failed"
                 ELSE IF health = "failed" THEN "suspect" ELSE health
    /\ UNCHANGED <<ctx, disk, currLocale, locale, userRequests, tainted>>

(***************************************************************************)
(* One iteration of the while loop that finds a match: the row is marked   *)
(* old if it was new, and both entries leave their lists.                  *)
(***************************************************************************)
LeaveMatching(x) ==
    /\ pc = "update"
    /\ oldRequests[x] # Absent
    /\ HasMatch(oldRequests[x])
    /\ IF oldRequests[x].isNew
       THEN markRequestAsOld(oldRequests[x].id)
       ELSE UNCHANGED <<ctx, disk, fetchErrors>>
    /\ NoteFetch
    /\ newRequests' = [newRequests EXCEPT ![oldRequests[x].id] = Absent]
    /\ oldRequests' = [oldRequests EXCEPT ![x] = Absent]
    /\ UNCHANGED <<pc, currLocale, locale, changedLocale, userRequests,
                   fetched, before, tainted>>

\* Mutant of DeleteOld: the deleted request stays at the head of the list.
DeleteOldNoRemoveFirst(x) ==
    /\ pc = "update"
    /\ oldRequests[x] # Absent
    /\ ~HasMatch(oldRequests[x])
    /\ deleteRequest(oldRequests[x].id)
    /\ NoteFetch
    /\ UNCHANGED <<pc, currLocale, locale, newRequests, changedLocale,
                   userRequests, fetched, before, tainted, oldRequests>>

(***************************************************************************)
(* One iteration of the while loop that finds no match.                    *)
(***************************************************************************)
DeleteOld(x) ==
    /\ pc = "update"
    /\ oldRequests[x] # Absent
    /\ ~HasMatch(oldRequests[x])
    /\ deleteRequest(oldRequests[x].id)
    /\ NoteFetch
    /\ oldRequests' = [oldRequests EXCEPT ![x] = Absent]
    /\ UNCHANGED <<pc, currLocale, locale, newRequests, changedLocale,
                   userRequests, fetched, before, tainted>>

(***************************************************************************)
(* One iteration of the loop that saves what is left of the new list.      *)
(***************************************************************************)
SaveNew(i) ==
    /\ pc = "update"
    /\ Present(oldRequests) = {}
    /\ newRequests[i] # Absent
    /\ saveRequest(i, newRequests[i])
    /\ newRequests' = [newRequests EXCEPT ![i] = Absent]
    /\ UNCHANGED <<pc, currLocale, locale, oldRequests, changedLocale,
                   userRequests, fetched, before, tainted, fetchErrors, health>>

(***************************************************************************)
(* The end of updateSavedRequests, and the reload of the landing screen's  *)
(* list that follows it in the same callback.                              *)
(***************************************************************************)
FinishUpdate ==
    /\ pc = "update"
    /\ Present(oldRequests) = {}
    /\ Listed(newRequests) = {}
    /\ pc' = "synced"
    /\ currLocale' = IF changedLocale THEN locale ELSE currLocale
    /\ loadAllRequests(ctx, userRequests')
    /\ tainted' = IF changedLocale THEN disk # ctx \/ health = "failed"
                                   ELSE tainted
    /\ health' = CASE health = "failed" -> "failed"
                   [] health = "suspect" -> "unique"
                   [] OTHER -> "exact"
    /\ UNCHANGED <<ctx, disk, locale, oldRequests, newRequests, changedLocale,
                   fetched, before>>

(***************************************************************************)
(* The process is killed: the context and all locals are gone.             *)
(***************************************************************************)
Crash ==
    /\ pc # "off"
    /\ pc' = "off"
    /\ ctx' = NoRows
    /\ userRequests' = NoRows
    /\ oldRequests' = NoRows
    /\ newRequests' = NoRequests
    /\ changedLocale' = FALSE
    /\ fetched' = NoRequests
    /\ before' = NoRows
    /\ tainted' = (tainted \/ (pc = "update" /\ changedLocale))
    /\ health' = IF health = "exact" /\ (fetchErrors = 0 \/ disk = ctx)
                 THEN "exact"
                 ELSE IF health = "unique" /\ disk = ctx THEN "unique"
                                                         ELSE "suspect"
    /\ UNCHANGED <<disk, currLocale, locale, fetchErrors>>

Init ==
    /\ pc = "off"
    /\ ctx = NoRows
    /\ disk = NoRows
    /\ currLocale = Absent
    /\ locale \in Locales
    /\ oldRequests = NoRows
    /\ newRequests = NoRequests
    /\ changedLocale = FALSE
    /\ userRequests = NoRows
    /\ fetched = NoRequests
    /\ before = NoRows
    /\ tainted = FALSE
    /\ fetchErrors = 0
    /\ health = "exact"

(***************************************************************************)
(* The steps of the running handler; they are the ones that must happen.   *)
(***************************************************************************)
UpdateStep ==
    \/ \E x \in Objs : LeaveMatching(x) \/ DeleteOld(x)
    \/ \E i \in Ids : SaveNew(i)
    \/ FinishUpdate

Next ==
    \/ \E l \in Locales : Launch(l)
    \/ \E f \in RequestList : BeginUpdate(f)
    \/ UpdateStep
    \/ Crash

Spec == Init /\ [][Next]_vars

(***************************************************************************)
(* The main thread runs a handler to its end, unless the process dies.     *)
(***************************************************************************)
FairSpec == Spec /\ WF_vars(UpdateStep)

-----------------------------------------------------------------------------
(***************************************************************************)
(* Every variable has its type.                                            *)
(***************************************************************************)
TypeOK ==
    /\ pc \in {"off", "loaded", "update", "synced"}
    /\ ctx \in Table
    /\ disk \in Table
    /\ currLocale \in Locales \cup {Absent}
    /\ locale \in Locales
    /\ oldRequests \in Table
    /\ newRequests \in RequestList
    /\ changedLocale \in BOOLEAN
    /\ userRequests \in Table
    /\ fetched \in RequestList
    /\ before \in Table
    /\ tainted \in BOOLEAN
    /\ fetchErrors \in Nat
    /\ health \in Healths

UniqueIds(t) ==
    \A x, y \in Present(t) : t[x].id = t[y].id => x = y

(***************************************************************************)
(* No request is cached twice, in memory or on disk, while no fetch        *)
(* throws: Core Data has no uniqueness constraint on CDRequest.id, so this *)
(* rests on the matching in updateSavedRequests, whatever saves fail and   *)
(* wherever it is killed.                                                  *)
(***************************************************************************)
NoDuplicateRequests == fetchErrors = 0 => UniqueIds(ctx) /\ UniqueIds(disk)

(***************************************************************************)
(* A fetch that throws can duplicate rows (loadAllRequests then returns an *)
(* empty list and every fetched request is saved again).  One complete     *)
(* refresh without a throw removes all duplicates: deleteRequest removes   *)
(* one row per unmatched copy.                                             *)
(***************************************************************************)
DuplicatesHeal == health \in {"unique", "exact"} => UniqueIds(ctx)

(***************************************************************************)
(* A completed refresh leaves exactly the fetched requests, with their     *)
(* fetched status, in the cache, whatever an earlier interrupted update    *)
(* left behind; after a fetch has thrown, from the second complete refresh *)
(* on (the first can delete the wrong one of two copies).  The landing     *)
(* screen shows the cache, or nothing if its own fetch threw.              *)
(***************************************************************************)
Mirrors(t, l) ==
    /\ \A x \in Present(t) : l[t[x].id] = t[x].status
    /\ \A i \in Listed(l) : \E x \in Present(t) : t[x].id = i

SyncedMirrorsFetched ==
    pc = "synced" =>
        /\ health = "exact" => Mirrors(ctx, fetched)
        /\ userRequests = ctx \/ (fetchErrors > 0 /\ userRequests = NoRows)

(***************************************************************************)
(* The "new" badge: after a refresh in an unchanged language a request is  *)
(* flagged new exactly if the rows before it held no row with its id and   *)
(* status, that is, if it is unknown or its status has changed.            *)
(***************************************************************************)
BadgeTellsNews ==
    (pc = "synced" /\ ~changedLocale /\ health = "exact") =>
        \A x \in Present(ctx) :
            ctx[x].isNew <=> \A y \in Present(before) :
                                 \/ before[y].id # ctx[x].id
                                 \/ before[y].status # ctx[x].status

(***************************************************************************)
(* The saved locale tells the truth: unless a switch of language was       *)
(* interrupted or did not reach every row on disk, each row at rest holds  *)
(* item names in the language UserDefaults says, so that comparing it with *)
(* the current language finds every stale row.                             *)
(***************************************************************************)
InLanguage(t, l) == \A x \in Present(t) : t[x].lang = l

SavedLocaleTellsTruth ==
    ~tainted /\ pc # "update" =>
        InLanguage(ctx, currLocale) /\ InLanguage(disk, currLocale)

(***************************************************************************)
(* updateSavedRequests terminates: its while loop has no counter, each     *)
(* iteration must consume an old request.                                  *)
(***************************************************************************)
UpdateTerminates == pc = "update" ~> pc # "update"
=============================================================================
