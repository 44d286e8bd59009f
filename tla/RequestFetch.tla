---------------------------- MODULE RequestFetch ----------------------------
(***************************************************************************)
(* Fetching the user's requests: LandingViewController.refreshData and     *)
(* fetchAllUserRequests, getRequest and getAllItems.                       *)
(*                                                                         *)
(* A refresh reads the list of the user's requests, then every request on  *)
(* it, then every item of each.  No read waits for another: the answers    *)
(* are joined by counters (zoneCount, a requestCount for each zone, a      *)
(* counter for each request), in callbacks on the main thread.  Nothing    *)
(* keeps a second refresh from starting before the first has completed.    *)
(* The reads are made without a cancel block: one that the server refuses  *)
(* never calls back, and its join stays open.                              *)
(*                                                                         *)
(* The list a refresh delivers goes through the cache, which hands back    *)
(* the same requests (RefreshMirrors in RequestStoreProofs).               *)
(***************************************************************************)
EXTENDS Naturals, FiniteSets

CONSTANTS
    Ids,            \* keys of requests
    Zones,          \* keys of the zones they are filed under
    Items,          \* keys of items
    None,           \* no id, no item
    MaxRefreshes,   \* bound on the calls of refreshData
    InOrder         \* whether the connection answers reads in their order

ASSUME NoneAssumption == None \notin Ids \cup Items

ASSUME BoundsAssumption == MaxRefreshes \in Nat \ {0} /\ InOrder \in BOOLEAN

ASSUME FiniteAssumption ==
    IsFiniteSet(Ids) /\ IsFiniteSet(Zones) /\ IsFiniteSet(Items)

VARIABLES
    zone, content, wellFormed,  \* server: zone, items and soundness of requests
    linked,         \* server: the requests under userRequests/uid
    signedIn,       \* Auth.currentUser is not nil
    started,        \* number of refreshes begun
    net,            \* reads that have not called back
    refused,        \* the reads among them that the server has refused
    sent,           \* batches of reads sent
    listed,         \* local: the children of the list's snapshot
    zoneCount, requestCount, counter,   \* local: the counters of the joins
    requests,       \* local: the list under construction
    calls,          \* how often onComplete was called
    userRequests,   \* LandingViewController.userRequests
    rows,           \* the requests the table view has rows for
    reloads,        \* reloads scheduled, 0.7 s after a completion
    refreshing,     \* refreshControl.isRefreshing
    unasked,        \* history: the refreshes begun without a user
    pulled          \* history: the refresh the last pull began

server == <<zone, content, wellFormed, linked>>
local == <<listed, zoneCount, requestCount, counter, requests>>
screen == <<userRequests, rows, reloads, refreshing>>
history == <<unasked, pulled>>
vars == <<server, signedIn, started, net, refused, sent, local, calls, screen,
          history>>

Refreshes == 1..MaxRefreshes

Query == [refresh: Refreshes, kind: {"list", "request", "item"},
          id: Ids \cup {None}, item: Items \cup {None}, ticket: Nat]

(***************************************************************************)
(* observeSingleEvent: a batch of reads goes out, and one of those still   *)
(* to be answered is next.                                                 *)
(***************************************************************************)
Send(batch, rest) ==
    /\ net' = rest \cup
              {[refresh |-> q[1], kind |-> q[2], id |-> q[3], item |-> q[4],
                ticket |-> IF InOrder THEN sent ELSE 0] : q \in batch}
    /\ sent' = IF InOrder THEN sent + 1 ELSE sent

Answerable(q) ==
    /\ q \notin refused
    /\ InOrder => \A p \in net \ refused : q.ticket <= p.ticket

(***************************************************************************)
(* refreshData up to its first read: without a user it ends there.         *)
(***************************************************************************)
refreshData ==
    /\ started < MaxRefreshes
    /\ started' = started + 1
    /\ IF signedIn
       THEN Send({<<started', "list", None, None>>}, net)
       ELSE UNCHANGED <<net, sent>>
    /\ unasked' = IF signedIn THEN unasked ELSE unasked \cup {started'}
    /\ UNCHANGED <<server, signedIn, refused, local, calls, userRequests, rows,
                   reloads>>

\* objcRefreshData: the refresh control fires only if it is not refreshing.
objcRefreshData ==
    /\ ~refreshing
    /\ refreshing' = TRUE
    /\ refreshData
    /\ pulled' = started'

\* The way back from a new request.
unwindToLandingVC == refreshData /\ UNCHANGED <<refreshing, pulled>>

\* Mutants of onComplete: the requests are added to the ones shown; the table
\* is reloaded at once, with the requests it had; an empty list is not worth a
\* reload.
onCompleteAppends(k, list) ==
    /\ calls' = [calls EXCEPT ![k] = @ + 1]
    /\ userRequests' = userRequests \cup list
    /\ reloads' = reloads + 1
    /\ UNCHANGED <<rows, refreshing>>

onCompleteReloadsFirst(k, list) ==
    /\ calls' = [calls EXCEPT ![k] = @ + 1]
    /\ userRequests' = list
    /\ rows' = userRequests
    /\ refreshing' = FALSE
    /\ UNCHANGED reloads

onCompleteQuietly(k, list) ==
    /\ calls' = [calls EXCEPT ![k] = @ + 1]
    /\ userRequests' = list
    /\ reloads' = IF list = {} THEN reloads ELSE reloads + 1
    /\ UNCHANGED <<rows, refreshing>>

(***************************************************************************)
(* refreshData's completion: the list replaces the one shown, and a reload *)
(* of the table is scheduled.                                              *)
(***************************************************************************)
onComplete(k, list) ==
    /\ calls' = [calls EXCEPT ![k] = @ + 1]
    /\ userRequests' = list
    /\ reloads' = reloads + 1
    /\ UNCHANGED <<rows, refreshing>>

(***************************************************************************)
(* The list is answered: complete at once if it is empty, else ask for     *)
(* every request on it.                                                    *)
(***************************************************************************)
ListAnswered(q) ==
    LET k == q.refresh
        InZone(z) == {i \in linked : zone[i] = z}
    IN  /\ q.kind = "list"
        /\ listed' = [listed EXCEPT ![k] = linked]
        /\ zoneCount' = [zoneCount EXCEPT ![k] =
                            Cardinality({z \in Zones : InZone(z) # {}})]
        /\ requestCount' = [requestCount EXCEPT ![k] =
                               [z \in Zones |-> Cardinality(InZone(z))]]
        /\ Send({<<k, "request", i, None>> : i \in linked}, net \ {q})
        /\ IF linked = {} THEN onComplete(k, {})
                          ELSE UNCHANGED <<calls, screen>>
        /\ UNCHANGED <<server, signedIn, started, counter, requests>>

\* Mutants of RequestJoined: the last request of any zone completes the list;
\* a request that cannot be read is not counted.
RequestJoinedAnyZone(k, i, r) ==
    LET left == requestCount[k][zone[i]] - 1
        zonesLeft == IF left = 0 THEN zoneCount[k] - 1 ELSE zoneCount[k]
    IN  /\ requests' = [requests EXCEPT ![k] = @ \cup r]
        /\ requestCount' = [requestCount EXCEPT ![k][zone[i]] = left]
        /\ zoneCount' = [zoneCount EXCEPT ![k] = zonesLeft]
        /\ IF left = 0 THEN onComplete(k, requests'[k])
                       ELSE UNCHANGED <<calls, screen>>
        /\ UNCHANGED <<server, signedIn, started, listed>>

RequestJoinedIfSound(k, i, r) ==
    LET left == requestCount[k][zone[i]] - Cardinality(r)
        zonesLeft == IF left = 0 THEN zoneCount[k] - 1 ELSE zoneCount[k]
    IN  /\ requests' = [requests EXCEPT ![k] = @ \cup r]
        /\ requestCount' = [requestCount EXCEPT ![k][zone[i]] = left]
        /\ zoneCount' = [zoneCount EXCEPT ![k] = zonesLeft]
        /\ IF zonesLeft = 0 /\ left = 0 THEN onComplete(k, requests'[k])
                                        ELSE UNCHANGED <<calls, screen>>
        /\ UNCHANGED <<server, signedIn, started, listed>>

(***************************************************************************)
(* getRequest calls back for request i of refresh k, r = {i}, or with nil, *)
(* r = {}.                                                                 *)
(***************************************************************************)
RequestJoined(k, i, r) ==
    LET left == requestCount[k][zone[i]] - 1
        zonesLeft == IF left = 0 THEN zoneCount[k] - 1 ELSE zoneCount[k]
    IN  /\ requests' = [requests EXCEPT ![k] = @ \cup r]
        /\ requestCount' = [requestCount EXCEPT ![k][zone[i]] = left]
        /\ zoneCount' = [zoneCount EXCEPT ![k] = zonesLeft]
        /\ IF zonesLeft = 0 /\ left = 0 THEN onComplete(k, requests'[k])
                                        ELSE UNCHANGED <<calls, screen>>
        /\ UNCHANGED <<server, signedIn, started, listed>>

(***************************************************************************)
(* A request is answered: getRequest gives up if a child is missing or of  *)
(* another type, else getAllItems asks for every item of the content.  If  *)
(* the content is empty nobody is asked and nobody calls back.             *)
(***************************************************************************)
RequestAnswered(q) ==
    LET k == q.refresh
    IN  /\ q.kind = "request"
        /\ \/ /\ q.id \notin wellFormed
              /\ Send({}, net \ {q})
              /\ RequestJoined(k, q.id, {})
              /\ UNCHANGED counter
           \/ /\ q.id \in wellFormed
              /\ Send({<<k, "item", q.id, x>> : x \in content[q.id]}, net \ {q})
              /\ counter' = [counter EXCEPT ![k][q.id] =
                                Cardinality(content[q.id])]
              /\ UNCHANGED <<server, signedIn, started, listed, zoneCount,
                             requestCount, requests, calls, screen>>

\* Mutant of ItemAnswered: the first item completes the request.
ItemAnsweredFirst(q) ==
    LET k == q.refresh
        left == counter[k][q.id] - 1
    IN  /\ q.kind = "item"
        /\ Send({}, net \ {q})
        /\ counter' = [counter EXCEPT ![k][q.id] = left]
        /\ IF left <= 1
           THEN RequestJoined(k, q.id, {q.id})
           ELSE UNCHANGED <<server, signedIn, started, listed, zoneCount,
                            requestCount, requests, calls, screen>>

(***************************************************************************)
(* An item is answered; it is counted whether getRequestItem made an item  *)
(* of it or not.  The last one delivers the request.                       *)
(***************************************************************************)
ItemAnswered(q) ==
    LET k == q.refresh
        left == counter[k][q.id] - 1
    IN  /\ q.kind = "item"
        /\ Send({}, net \ {q})
        /\ counter' = [counter EXCEPT ![k][q.id] = left]
        /\ IF left = 0
           THEN RequestJoined(k, q.id, {q.id})
           ELSE UNCHANGED <<server, signedIn, started, listed, zoneCount,
                            requestCount, requests, calls, screen>>

Answer ==
    \E q \in net : /\ Answerable(q)
                   /\ ListAnswered(q) \/ RequestAnswered(q) \/ ItemAnswered(q)
                   /\ UNCHANGED <<refused, history>>

(***************************************************************************)
(* The server refuses a read.  There is no cancel block to tell: the       *)
(* counters wait for it, and so does whoever waits for the join.           *)
(***************************************************************************)
Refuse ==
    \E q \in net : /\ Answerable(q)
                   /\ refused' = refused \cup {q}
                   /\ UNCHANGED <<server, signedIn, started, net, sent, local,
                                  calls, screen, history>>

(***************************************************************************)
(* The reload scheduled by a completion.                                   *)
(***************************************************************************)
Reload ==
    /\ reloads > 0
    /\ reloads' = reloads - 1
    /\ rows' = userRequests
    /\ refreshing' = FALSE
    /\ UNCHANGED <<server, signedIn, started, net, refused, sent, local, calls,
                   userRequests, history>>

(***************************************************************************)
(* The link of a new request reaches the server (see PostRequest); the     *)
(* session ends on its own, and the user of the requests signs in again    *)
(* while the landing screen, and perhaps its spinner, is still there.      *)
(***************************************************************************)
Linked(i) ==
    /\ i \notin linked
    /\ linked' = linked \cup {i}
    /\ UNCHANGED <<zone, content, wellFormed, signedIn, started, net, refused,
                   sent, local, calls, screen, history>>

LoseSession ==
    /\ signedIn
    /\ signedIn' = FALSE
    /\ UNCHANGED <<server, started, net, refused, sent, local, calls, screen,
                   history>>

SignInAgain ==
    /\ ~signedIn
    /\ signedIn' = TRUE
    /\ UNCHANGED <<server, started, net, refused, sent, local, calls, screen,
                   history>>

(***************************************************************************)
(* viewDidLoad: the table shows the cached requests, and the first refresh *)
(* begins, if there is a user.                                             *)
(***************************************************************************)
Init ==
    /\ zone \in [Ids -> Zones]
    /\ content \in [Ids -> SUBSET Items]
    /\ wellFormed \in SUBSET Ids
    /\ linked \in SUBSET Ids
    /\ signedIn \in BOOLEAN
    /\ started = 1
    /\ net = {[refresh |-> 1, kind |-> "list", id |-> None, item |-> None,
               ticket |-> 0] : q \in {s \in {TRUE} : signedIn}}
    /\ refused = {}
    /\ sent = IF InOrder THEN 1 ELSE 0
    /\ listed = [k \in Refreshes |-> {}]
    /\ zoneCount = [k \in Refreshes |-> 0]
    /\ requestCount = [k \in Refreshes |-> [z \in Zones |-> 0]]
    /\ counter = [k \in Refreshes |-> [i \in Ids |-> 0]]
    /\ requests = [k \in Refreshes |-> {}]
    /\ calls = [k \in Refreshes |-> 0]
    /\ userRequests \in SUBSET Ids
    /\ rows = userRequests
    /\ reloads = 0
    /\ refreshing = FALSE
    /\ unasked = IF signedIn THEN {} ELSE {1}
    /\ pulled = 1

Next ==
    \/ objcRefreshData
    \/ unwindToLandingVC
    \/ Answer
    \/ Refuse
    \/ Reload
    \/ \E i \in Ids : Linked(i)
    \/ LoseSession
    \/ SignInAgain

Spec == Init /\ [][Next]_vars

(***************************************************************************)
(* The server answers every read or refuses it, and the timer fires.       *)
(***************************************************************************)
FairSpec == Spec /\ WF_vars(Answer \/ Refuse) /\ WF_vars(Reload)

-----------------------------------------------------------------------------
(***************************************************************************)
(* Every variable has its type; counters are UInts, and would trap below 0.*)
(***************************************************************************)
TypeOK ==
    /\ zone \in [Ids -> Zones]
    /\ content \in [Ids -> SUBSET Items]
    /\ wellFormed \subseteq Ids
    /\ linked \subseteq Ids
    /\ signedIn \in BOOLEAN
    /\ started \in Refreshes
    /\ net \subseteq Query
    /\ refused \subseteq net
    /\ sent \in Nat
    /\ listed \in [Refreshes -> SUBSET Ids]
    /\ zoneCount \in [Refreshes -> Nat]
    /\ requestCount \in [Refreshes -> [Zones -> Nat]]
    /\ counter \in [Refreshes -> [Ids -> Nat]]
    /\ requests \in [Refreshes -> SUBSET Ids]
    /\ calls \in [Refreshes -> Nat]
    /\ userRequests \subseteq Ids
    /\ rows \subseteq Ids
    /\ reloads \in Nat
    /\ refreshing \in BOOLEAN
    /\ unasked \subseteq Refreshes
    /\ pulled \in Refreshes

(***************************************************************************)
(* The join is exact: a refresh completes at most once, when none of its   *)
(* reads is out, and with every sound request of its list, in whatever     *)
(* order the reads of its zones, requests and items are answered.          *)
(***************************************************************************)
JoinDeliversAll ==
    \A k \in Refreshes :
        /\ calls[k] <= 1
        /\ calls[k] = 1 => /\ requests[k] = listed[k] \cap wellFormed
                           /\ \A q \in net : q.refresh # k

(***************************************************************************)
(* If the connection answers reads in order, refreshes that overlap do not *)
(* overtake each other: the landing screen has the list of the youngest    *)
(* refresh that has completed.                                             *)
(***************************************************************************)
NewestWins ==
    \A k \in Refreshes :
        (calls[k] > 0 /\ \A j \in Refreshes : calls[j] > 0 => j <= k) =>
            userRequests = requests[k]

(***************************************************************************)
(* Unless a reload is still to come, the table has a row for each request  *)
(* of the list that its taps and cells index.                              *)
(***************************************************************************)
TableFollowsList == reloads = 0 => rows = userRequests

(***************************************************************************)
(* What keeps a refresh from ever completing: there was no user when it    *)
(* began, the server has refused one of its reads, or it met a request     *)
(* without content.                                                        *)
(***************************************************************************)
Asking(k) == \E q \in net : q.refresh = k

Refused(k) == \E q \in refused : q.refresh = k

MetEmpty(k) == \E i \in listed[k] \cap wellFormed : content[i] = {}

Blocked(k) == k \in unasked \/ Refused(k) \/ MetEmpty(k)

(***************************************************************************)
(* If the refresh control spins with no read to be answered and no reload  *)
(* to come, then not one refresh begun since it was pulled can complete,   *)
(* each for a reason of its own.  A user who has signed in again does not  *)
(* stop it.                                                                *)
(***************************************************************************)
SpinsForAReason ==
    (refreshing /\ net \subseteq refused /\ reloads = 0) =>
        \A k \in pulled..started : Blocked(k)

(***************************************************************************)
(* A refresh that has a user completes and its spinner stops, unless one   *)
(* of its reads is refused or a request on the server has no content.      *)
(***************************************************************************)
RefreshEnds ==
    \A k \in Refreshes :
        (Asking(k) /\ \A i \in Ids : content[i] # {}) ~>
            \/ calls[k] = 1 /\ reloads = 0 /\ ~refreshing
            \/ Refused(k)
=============================================================================
