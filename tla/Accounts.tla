------------------------------ MODULE Accounts ------------------------------
(***************************************************************************)
(* Several accounts on one device: the session of SignIn together with the *)
(* landing screen's list, the request cache and the refreshes that fill    *)
(* both.                                                                   *)
(*                                                                         *)
(* The landing screen is the root of the window.  It is loaded once per    *)
(* launch, stays under the login screen, and outlives every session; so do *)
(* the refreshes it has begun, each with the uid it found.  Neither a      *)
(* sign-out nor a sign-in touches the list or the cache.                   *)
(*                                                                         *)
(* Of the list and the cache only this is kept: whose requests are in it.  *)
(* RequestFetch has the callbacks of a refresh, the table's reload and the *)
(* spinner in detail, RequestStore the update of the cache.                *)
(***************************************************************************)
EXTENDS SignIn

CONSTANT MaxRefreshes   \* bound on the refreshes of an account under way

VARIABLES
    list,       \* LandingViewController.userRequests: whose are in it
    cache,      \* the rows of CDRequest in the context: whose are in it
    fetches,    \* for each account, the refreshes begun for it and not over
    refreshed,  \* history: the current user's list has been fetched and put in
                \* the cache since it became the current user, in this run of
                \* the app, and no update of the cache has failed since
    leftover    \* history: another's refresh was under way when it became so,
                \* or when a refresh of its own last came to its end

landing == <<list, cache, fetches>>
session == <<refreshed, leftover>>
allVars == <<vars, landing, session>>

UnderWay == {u \in Users : fetches[u] > 0}

OthersUnderWay == UnderWay \ {currentUser} # {}

Room == \A u \in Users : u = currentUser => fetches[u] < MaxRefreshes

(***************************************************************************)
(* refreshData and fetchAllUserRequests: the uid is read once, now.        *)
(* Without one nothing is begun, and nobody is told.                       *)
(***************************************************************************)
fetchAllUserRequests ==
    fetches' = [u \in Users |-> fetches[u] + IF u = currentUser THEN 1 ELSE 0]

(***************************************************************************)
(* What a step of the session means for the history.                       *)
(***************************************************************************)
SessionGoesOn ==
    /\ refreshed' = (refreshed /\ currentUser' = currentUser)
    /\ leftover' = IF currentUser' = currentUser THEN leftover
                   ELSE OthersUnderWay'

(***************************************************************************)
(* A launch loads the landing screen, under the login screen or not: its   *)
(* viewDidLoad shows what the cache has, nothing if that cannot be read,   *)
(* and begins a refresh.                                                   *)
(***************************************************************************)
LaunchLanding ==
    /\ Launch
    /\ list' \in {cache, {}}
    /\ fetchAllUserRequests
    /\ UNCHANGED <<cache, session>>

(***************************************************************************)
(* Signing in and out leaves the landing screen as it is.                  *)
(***************************************************************************)
SessionStep ==
    /\ \/ \E k \in Attempts :
            \/ \E u \in Users \cup {None} : clickedSignIn(k, u)
            \/ AttemptStep(k)
       \/ handleSignOut
       \/ SessionEnds
    /\ UNCHANGED landing
    /\ SessionGoesOn

(***************************************************************************)
(* The table is pulled down (objcRefreshData), or a request has been sent  *)
(* (unwindToLandingVC).                                                    *)
(***************************************************************************)
refreshData ==
    /\ screen = "landing"
    /\ Room
    /\ fetchAllUserRequests
    /\ UNCHANGED <<vars, list, cache, session>>

\* Mutant of updateSavedRequests: the rows that the server has not sent stay.
updateSavedRequestsKeepsRows(fetched) == cache' = cache \cup fetched

(***************************************************************************)
(* updateSavedRequests: the rows become those of the fetched list.         *)
(***************************************************************************)
updateSavedRequests(fetched) == cache' = fetched

(***************************************************************************)
(* A fetch throws on the way: the one of loadAllRequests, and no row is    *)
(* deleted, or that of a deleteRequest, and its row stays.                 *)
(***************************************************************************)
updateThrows(fetched) == \E stay \in SUBSET cache : cache' = stay \cup fetched

(***************************************************************************)
(* The completion of refreshData: the cache becomes the list fetched for u *)
(* (which may be empty), whoever is signed in by now, and the list is read *)
(* back from it, empty if that throws.                                     *)
(***************************************************************************)
Complete(u) ==
    /\ fetches[u] > 0
    /\ UNCHANGED vars
    /\ fetches' = [fetches EXCEPT ![u] = @ - 1]
    /\ \E fetched \in {{}, {u}} :
        \/ /\ updateSavedRequests(fetched)
           /\ refreshed' = (refreshed \/ u = currentUser)
           /\ leftover' = IF u = currentUser THEN OthersUnderWay' ELSE leftover
        \/ /\ updateThrows(fetched)
           /\ refreshed' = FALSE
           /\ UNCHANGED leftover
    /\ list' \in {cache', {}}

(***************************************************************************)
(* A refresh is never over: the server refuses one of its reads (they have *)
(* no cancel block), say because another user is signed in by now, or a    *)
(* request it comes to is empty.                                           *)
(***************************************************************************)
Stall(u) ==
    /\ fetches[u] > 0
    /\ fetches' = [fetches EXCEPT ![u] = @ - 1]
    /\ UNCHANGED <<vars, list, cache, session>>

(***************************************************************************)
(* The process is killed.  What the store has then depends on the saves    *)
(* that worked and on the row updateSavedRequests had come to: rows of any *)
(* of the accounts (RequestStore tells which).                             *)
(***************************************************************************)
KillLanding ==
    /\ Kill
    /\ cache' \in SUBSET Users
    /\ list' = {}
    /\ fetches' = [u \in Users |-> 0]
    /\ refreshed' = FALSE
    /\ leftover' = FALSE

AccountsInit ==
    /\ Init
    /\ list = {}
    /\ cache = {}
    /\ fetches = [u \in Users |-> 0]
    /\ refreshed = FALSE
    /\ leftover = FALSE

AccountsNext ==
    \/ LaunchLanding
    \/ SessionStep
    \/ refreshData
    \/ \E u \in Users : Complete(u) \/ Stall(u)
    \/ KillLanding

AccountsSpec == AccountsInit /\ [][AccountsNext]_allVars

(***************************************************************************)
(* Both services answer sign-in attempts, and callbacks run.               *)
(***************************************************************************)
AccountsFairSpec ==
    AccountsSpec /\ \A k \in Attempts : WF_vars(AttemptStep(k))

-----------------------------------------------------------------------------
(***************************************************************************)
(* Every variable of the landing screen has its type.                      *)
(***************************************************************************)
LandingTypeOK ==
    /\ list \subseteq Users
    /\ cache \subseteq Users
    /\ fetches \in [Users -> Nat]
    /\ refreshed \in BOOLEAN
    /\ leftover \in BOOLEAN

(***************************************************************************)
(* Once the requests of the current user have been fetched, nobody else's  *)
(* are in the list or in the cache, through any number of refreshes, other *)
(* sign-in attempts and changes of the account, unless                     *)
(*   - the last update of the cache failed to read it, which leaves rows   *)
(*     of whoever was signed in before; or                                 *)
(*   - a refresh begun for another account was still under way when this   *)
(*     one signed in and when its own last refresh was over.               *)
(* So the next refresh that goes well always sets right what either has    *)
(* left.  (Until the first one the list has whatever an earlier account    *)
(* left: nothing clears it.)                                               *)
(***************************************************************************)
OwnRequestsOnly ==
    (refreshed /\ ~leftover) => list \cup cache \subseteq {currentUser}
=============================================================================
