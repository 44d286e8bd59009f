----------------------------- MODULE PostRequest ----------------------------
(***************************************************************************)
(* Sending a request: the checkout's clickedSend, postRequest with         *)
(* retrieveSubzone, and updateCounters, run by several clients against the *)
(* realtime database they share.                                           *)
(*                                                                         *)
(* postRequest is a chain of callbacks: read the zone, store the request,  *)
(* link it under the user, start three transactions per item.  Between any *)
(* two links of the chain other clients act, the server may refuse a write *)
(* and the process may be killed.                                          *)
(*                                                                         *)
(* The database is external; DatabaseClient models the SDK's side of it    *)
(* and WriteContract what the app may rely on.  A write that goes through  *)
(* is answered; it may have been applied before, the answer lost with the  *)
(* connection, and be sent again.  A client that is killed leaves writes   *)
(* that may or may not arrive.  A transaction takes effect at most once,   *)
(* and may be given up: the connection breaks, the server refuses, the     *)
(* retries run out, the process dies.  One of several that a client has    *)
(* started on the same counter may undo part of what was counted before    *)
(* (see DatabaseClient).                                                   *)
(***************************************************************************)
EXTENDS Integers, FiniteSets, FiniteSetsExt

CONSTANTS
    Clients,    \* devices, each with its own user
    Items,      \* item ids
    Zones,      \* zone ids
    Qtys,       \* quantities of an item in a request, 0 if it is not in it
    MaxOrders,  \* bound on the checkouts opened by a client
    MaxOpened,  \* bound on the checkouts opened by all clients
    MaxResent   \* bound on the writes whose answer is lost

ASSUME MaxOrdersAssumption == MaxOrders \in Nat
ASSUME BoundsAssumption == MaxOpened \in Nat /\ MaxResent \in Nat
ASSUME QtysAssumption == Qtys \subseteq Nat
ASSUME ZonesAssumption == Zones # {}

Orders == Clients \X (1..MaxOrders)

VARIABLES
    stage,      \* where each client is, see Stages
    count,      \* the checkouts each client has opened
    signedIn,   \* FirAuthHandler.firAuth.currentUser != nil
    hasRequest, \* CheckoutViewController.request != nil
    content,    \* the items of each request
    zone,       \* the zone retrieveSubzone gave for it
    net,        \* writes on their way to the server
    acks,       \* answers on their way to the client
    stored,     \* requests/<zone>/<id>
    linked,     \* userRequests/<uid>/<zone>/...
    transactions,   \* transactions started and not finished
    stock,      \* items/<id>/stock, as the change since the start
    requested,  \* items/<id>/requested, as the change since the start
    zoneCount,  \* requestCounter/<zone>/<id>, as the change since the start
    begun,      \* requests whose transactions this run of the app has started
    resent,     \* history: writes applied, their answer lost
    lost        \* history: requests whose counting was cut off

vars == <<stage, count, signedIn, hasRequest, content, zone, net, acks, stored,
          linked, transactions, stock, requested, zoneCount, begun, resent,
          lost>>

(***************************************************************************)
(* "review": the checkout is open.  "zone", "storing", "linking": the      *)
(* "Sending..." card is up and the callback named is awaited.  "hung": the *)
(* card is up and nothing is awaited.  "success", "failure": the card says *)
(* so, until the timer leads back to "main".                               *)
(***************************************************************************)
Stages == {"main", "review", "zone", "storing", "linking", "hung",
           "success", "failure"}

Order(c) == <<c, count[c]>>
Contents == [Items -> Qtys]
Counters == {"stock", "zone", "requested"}
Writes == [kind: {"store", "link"}, order: Orders]
Answers == [kind: {"store", "link"}, order: Orders, ok: BOOLEAN]
Transactions == [counter: Counters, order: Orders, item: Items]

Opened == {o \in Orders : o[2] <= count[o[1]]}

database == <<stored, linked, stock, requested, zoneCount, resent>>
checkout == <<count, hasRequest, content>>

(***************************************************************************)
(* A new request with content q is put together and the checkout opened on *)
(* it (see Basket: it is not empty).  The Request exists if there was a    *)
(* user when NewRequestViewController was loaded.                          *)
(***************************************************************************)
OpenCheckout(c, q) ==
    /\ stage[c] = "main"
    /\ count[c] < MaxOrders
    /\ Cardinality(Opened) < MaxOpened
    /\ stage' = [stage EXCEPT ![c] = "review"]
    /\ count' = [count EXCEPT ![c] = @ + 1]
    /\ content' = [content EXCEPT ![<<c, count[c] + 1>>] = q]
    /\ hasRequest' = [hasRequest EXCEPT ![c] = signedIn[c]]
    /\ UNCHANGED <<signedIn, zone, net, acks, database, transactions, begun,
                   lost>>

DismissCheckout(c) ==
    /\ stage[c] = "review"
    /\ stage' = [stage EXCEPT ![c] = "main"]
    /\ hasRequest' = [hasRequest EXCEPT ![c] = FALSE]
    /\ UNCHANGED <<count, content, signedIn, zone, net, acks, database,
                   transactions, begun, lost>>

(***************************************************************************)
(* CheckoutViewController.clickedSend and postRequest up to the read of    *)
(* the zone.  (With the detail cell scrolled out of sight clickedSend      *)
(* returns and nothing changes.)  Without a request, or without a user,    *)
(* the card is shown and no callback will ever replace it.                 *)
(***************************************************************************)
clickedSend(c) ==
    /\ stage[c] = "review"
    /\ stage' = [stage EXCEPT ![c] =
                    IF hasRequest[c] /\ signedIn[c] THEN "zone" ELSE "hung"]
    /\ UNCHANGED <<checkout, signedIn, zone, net, acks, database, transactions,
                   begun, lost>>

\* Mutant of ZoneFound: the link is written along with the request.
ZoneFoundLinksAtOnce(c, z) ==
    /\ stage[c] = "zone"
    /\ stage' = [stage EXCEPT ![c] = "storing"]
    /\ zone' = [zone EXCEPT ![Order(c)] = z]
    /\ net' = net \cup {[kind |-> k, order |-> Order(c)] : k \in {"store", "link"}}
    /\ UNCHANGED <<checkout, signedIn, acks, database, transactions, begun, lost>>

(***************************************************************************)
(* retrieveSubzone's read answers with zone z: the request is written      *)
(* under a key of its own; or there is no zone.                            *)
(***************************************************************************)
ZoneFound(c, z) ==
    /\ stage[c] = "zone"
    /\ stage' = [stage EXCEPT ![c] = "storing"]
    /\ zone' = [zone EXCEPT ![Order(c)] = z]
    /\ net' = net \cup {[kind |-> "store", order |-> Order(c)]}
    /\ UNCHANGED <<checkout, signedIn, acks, database, transactions, begun, lost>>

\* Mutant of ZoneMissing: the empty zone that comes with failure is used.
ZoneMissingIgnored(c) ==
    /\ stage[c] = "zone"
    /\ stage' = [stage EXCEPT ![c] = "storing"]
    /\ zone' = [zone EXCEPT ![Order(c)] = ""]
    /\ net' = net \cup {[kind |-> "store", order |-> Order(c)]}
    /\ UNCHANGED <<checkout, signedIn, acks, database, transactions, begun, lost>>

ZoneMissing(c) ==
    /\ stage[c] = "zone"
    /\ stage' = [stage EXCEPT ![c] = "failure"]
    /\ UNCHANGED <<checkout, signedIn, zone, net, acks, database, transactions,
                   begun, lost>>

(***************************************************************************)
(* The read of the zone is refused.  observeSingleEvent is called without  *)
(* a cancel block: no callback runs and the card stays.                    *)
(***************************************************************************)
ZoneRefused(c) ==
    /\ stage[c] = "zone"
    /\ stage' = [stage EXCEPT ![c] = "hung"]
    /\ UNCHANGED <<checkout, signedIn, zone, net, acks, database, transactions,
                   begun, lost>>

(***************************************************************************)
(* The server applies a write, or refuses it.                              *)
(***************************************************************************)
Answer(w, ok) ==
    /\ net' = net \ {w}
    /\ acks' = IF stage[w.order[1]] \in {"storing", "linking"}
                  /\ w.order = Order(w.order[1])
               THEN acks \cup {[kind |-> w.kind, order |-> w.order, ok |-> ok]}
               ELSE acks
    /\ UNCHANGED <<stage, checkout, signedIn, zone, transactions, stock,
                   requested, zoneCount, begun, resent, lost>>

Apply(w) ==
    /\ w \in net
    /\ stored' = IF w.kind = "store" THEN stored \cup {w.order} ELSE stored
    /\ linked' = IF w.kind = "link" THEN linked \cup {w.order} ELSE linked

ApplyWrite(w) == Apply(w) /\ Answer(w, TRUE)

RefuseWrite(w) ==
    /\ w \in net
    /\ UNCHANGED <<stored, linked>>
    /\ Answer(w, FALSE)

(***************************************************************************)
(* The server applies a write and the connection breaks before the answer: *)
(* the SDK will send it again.  (Once is enough: a third time changes      *)
(* nothing that a second has not.)                                         *)
(***************************************************************************)
ApplyAnswerLost(w) ==
    /\ w \notin resent
    /\ Cardinality(resent) < MaxResent
    /\ Apply(w)
    /\ resent' = resent \cup {w}
    /\ UNCHANGED <<stage, checkout, signedIn, zone, net, acks, transactions,
                   stock, requested, zoneCount, begun, lost>>

\* Mutant of updateCounters: one of the three counters is forgotten.
updateCountersNotRequested(o) ==
    {[counter |-> k, order |-> o, item |-> i] :
        k \in {"stock", "zone"}, i \in {j \in Items : content[o][j] > 0}}

(***************************************************************************)
(* updateCounters: three transactions for each item of the request.        *)
(***************************************************************************)
updateCounters(o) ==
    {[counter |-> k, order |-> o, item |-> i] :
        k \in Counters, i \in {j \in Items : content[o][j] > 0}}

\* Mutants of StoreAnswered: the counters are updated before the link is made;
\* onComplete is not called for an error.
StoreAnsweredCounts(c) ==
    \E a \in acks :
        /\ a.order = Order(c)
        /\ a.kind = "store"
        /\ stage[c] = "storing"
        /\ acks' = acks \ {a}
        /\ stage' = [stage EXCEPT ![c] = IF a.ok THEN "linking" ELSE "failure"]
        /\ net' = IF a.ok THEN net \cup {[kind |-> "link", order |-> Order(c)]}
                          ELSE net
        /\ transactions' = IF a.ok
                           THEN transactions \cup updateCounters(Order(c))
                           ELSE transactions
        /\ UNCHANGED <<checkout, signedIn, zone, database, begun, lost>>

StoreAnsweredSilent(c) ==
    \E a \in acks :
        /\ a.order = Order(c)
        /\ a.kind = "store"
        /\ stage[c] = "storing"
        /\ acks' = acks \ {a}
        /\ stage' = [stage EXCEPT ![c] = IF a.ok THEN "linking" ELSE "hung"]
        /\ net' = IF a.ok THEN net \cup {[kind |-> "link", order |-> Order(c)]}
                          ELSE net
        /\ UNCHANGED <<checkout, signedIn, zone, database, transactions, begun,
                       lost>>

(***************************************************************************)
(* The callback of the first setValue: link the request, or give up.       *)
(***************************************************************************)
StoreAnswered(c) ==
    \E a \in acks :
        /\ a.order = Order(c)
        /\ a.kind = "store"
        /\ stage[c] = "storing"
        /\ acks' = acks \ {a}
        /\ stage' = [stage EXCEPT ![c] = IF a.ok THEN "linking" ELSE "failure"]
        /\ net' = IF a.ok THEN net \cup {[kind |-> "link", order |-> Order(c)]}
                          ELSE net
        /\ UNCHANGED <<checkout, signedIn, zone, database, transactions, begun,
                       lost>>

\* Mutants of LinkAnswered: the error is not looked at; it is, but onComplete
\* is not called.
LinkAnsweredNoGuard(c) ==
    \E a \in acks :
        /\ a.order = Order(c)
        /\ a.kind = "link"
        /\ stage[c] = "linking"
        /\ acks' = acks \ {a}
        /\ stage' = [stage EXCEPT ![c] = "success"]
        /\ transactions' = transactions \cup updateCounters(Order(c))
        /\ begun' = begun \cup {Order(c)}
        /\ UNCHANGED <<checkout, signedIn, zone, net, database, lost>>

LinkAnsweredSilent(c) ==
    \E a \in acks :
        /\ a.order = Order(c)
        /\ a.kind = "link"
        /\ stage[c] = "linking"
        /\ acks' = acks \ {a}
        /\ stage' = [stage EXCEPT ![c] = IF a.ok THEN "success" ELSE "linking"]
        /\ transactions' = IF a.ok
                           THEN transactions \cup updateCounters(Order(c))
                           ELSE transactions
        /\ begun' = IF a.ok THEN begun \cup {Order(c)} ELSE begun
        /\ lost' = IF a.ok THEN lost ELSE lost \cup ({Order(c)} \cap linked)
        /\ UNCHANGED <<checkout, signedIn, zone, net, database>>

(***************************************************************************)
(* The callback of the second setValue: start the transactions and report  *)
(* success, or give up.  A link that was applied before it was refused is  *)
(* there all the same, and will not be counted.                            *)
(***************************************************************************)
LinkAnswered(c) ==
    \E a \in acks :
        /\ a.order = Order(c)
        /\ a.kind = "link"
        /\ stage[c] = "linking"
        /\ acks' = acks \ {a}
        /\ stage' = [stage EXCEPT ![c] = IF a.ok THEN "success" ELSE "failure"]
        /\ transactions' = IF a.ok
                           THEN transactions \cup updateCounters(Order(c))
                           ELSE transactions
        /\ begun' = IF a.ok THEN begun \cup {Order(c)} ELSE begun
        /\ lost' = IF a.ok THEN lost ELSE lost \cup ({Order(c)} \cap linked)
        /\ UNCHANGED <<checkout, signedIn, zone, net, database>>

(***************************************************************************)
(* Whether the client of request o has, since the app was started, begun   *)
(* to count an earlier request with item i.                                *)
(***************************************************************************)
Earlier(o, i) ==
    {p \in begun : p[1] = o[1] /\ p[2] < o[2] /\ content[p][i] > 0}

(***************************************************************************)
(* What a transaction on a counter that stands at n may undo of it: the    *)
(* SDK may send the output of an old run of the block with the hash of the *)
(* value of today, and then the server takes it.  It happens only to a     *)
(* transaction queued behind another of the same client on the same        *)
(* counter, here one of the requests behind (see DatabaseClient).          *)
(***************************************************************************)
Undone(n, behind) == {e \in 0..n : e > 0 => behind # {}}

(***************************************************************************)
(* A transaction of updateCounters takes effect.                           *)
(***************************************************************************)
Commit(t) ==
    LET qty == content[t.order][t.item]
        z == zone[t.order]
        before == Earlier(t.order, t.item)
    IN  /\ t \in transactions
        /\ transactions' = transactions \ {t}
        /\ \/ /\ t.counter = "stock"
              /\ \E e \in Undone(-stock[t.item], before) :
                    stock' = [stock EXCEPT ![t.item] = @ + e - qty]
              /\ UNCHANGED <<zoneCount, requested>>
           \/ /\ t.counter = "zone"
              /\ \E e \in Undone(zoneCount[z][t.item],
                                 {p \in before : zone[p] = z}) :
                    zoneCount' = [zoneCount EXCEPT ![z][t.item] = @ - e + qty]
              /\ UNCHANGED <<stock, requested>>
           \/ /\ t.counter = "requested"
              /\ \E e \in Undone(requested[t.item], before) :
                    requested' = [requested EXCEPT ![t.item] = @ - e + qty]
              /\ UNCHANGED <<stock, zoneCount>>
        /\ UNCHANGED <<stage, checkout, signedIn, zone, net, acks, stored,
                       linked, begun, resent, lost>>

(***************************************************************************)
(* The connection breaks while a transaction is out: it is not run again.  *)
(***************************************************************************)
LoseTransaction(t) ==
    /\ t \in transactions
    /\ transactions' = transactions \ {t}
    /\ lost' = lost \cup {t.order}
    /\ UNCHANGED <<stage, checkout, signedIn, zone, net, acks, database, begun>>

(***************************************************************************)
(* returnToMain, one second after the result is shown: the screens of the  *)
(* request are gone.                                                       *)
(***************************************************************************)
returnToMain(c) ==
    /\ stage[c] \in {"success", "failure"}
    /\ stage' = [stage EXCEPT ![c] = "main"]
    /\ hasRequest' = [hasRequest EXCEPT ![c] = FALSE]
    /\ UNCHANGED <<count, content, signedIn, zone, net, acks, database,
                   transactions, begun, lost>>

(***************************************************************************)
(* The session ends on its own: the account is disabled, its token revoked.*)
(* (While a request is being sent nobody looks at the user again: a        *)
(* session lost then is as good as lost on the way back.)                  *)
(***************************************************************************)
LoseSession(c) ==
    /\ signedIn[c]
    /\ stage[c] \in {"main", "review"}
    /\ signedIn' = [signedIn EXCEPT ![c] = FALSE]
    /\ UNCHANGED <<stage, checkout, zone, net, acks, database, transactions,
                   begun, lost>>

(***************************************************************************)
(* The app is killed and started again, with a user signed in.  Nothing of *)
(* it persists; a write that had left may still arrive or not (drop).      *)
(***************************************************************************)
Kill(c) ==
    LET mine == {t \in transactions : t.order[1] = c}
        out == {w \in net : w.order[1] = c}
    IN  /\ stage' = [stage EXCEPT ![c] = "main"]
        /\ hasRequest' = [hasRequest EXCEPT ![c] = FALSE]
        /\ signedIn' = [signedIn EXCEPT ![c] = TRUE]
        /\ \E drop \in SUBSET out : net' = net \ drop
        /\ acks' = {a \in acks : a.order[1] # c}
        /\ transactions' = transactions \ mine
        /\ begun' = {o \in begun : o[1] # c}
        /\ lost' = lost \cup {t.order : t \in mine}
                        \cup {o \in {Order(c)} : stage[c] = "linking"}
        /\ UNCHANGED <<count, content, zone, database>>

Init ==
    /\ stage = [c \in Clients |-> "main"]
    /\ count = [c \in Clients |-> 0]
    /\ signedIn = [c \in Clients |-> TRUE]
    /\ hasRequest = [c \in Clients |-> FALSE]
    /\ content = [o \in Orders |-> [i \in Items |-> 0]]
    /\ zone = [o \in Orders |-> CHOOSE z \in Zones : TRUE]
    /\ net = {}
    /\ acks = {}
    /\ stored = {}
    /\ linked = {}
    /\ transactions = {}
    /\ stock = [i \in Items |-> 0]
    /\ requested = [i \in Items |-> 0]
    /\ zoneCount = [z \in Zones |-> [i \in Items |-> 0]]
    /\ begun = {}
    /\ resent = {}
    /\ lost = {}

(***************************************************************************)
(* The steps of a posting client and of the server that answers it.        *)
(***************************************************************************)
PostStep(c) ==
    \/ \E z \in Zones : ZoneFound(c, z)
    \/ ZoneMissing(c)
    \/ ZoneRefused(c)
    \/ StoreAnswered(c)
    \/ LinkAnswered(c)
    \/ returnToMain(c)

ServerStep(w) == ApplyWrite(w) \/ RefuseWrite(w)

Next ==
    \/ \E c \in Clients :
        \/ \E q \in {q \in Contents : \E i \in Items : q[i] > 0} :
               OpenCheckout(c, q)
        \/ DismissCheckout(c)
        \/ clickedSend(c)
        \/ PostStep(c)
        \/ LoseSession(c)
        \/ Kill(c)
    \/ \E w \in net : ServerStep(w) \/ ApplyAnswerLost(w)
    \/ \E t \in transactions : Commit(t) \/ LoseTransaction(t)

Spec == Init /\ [][Next]_vars

(***************************************************************************)
(* The server goes on answering each client, callbacks and timers run.     *)
(***************************************************************************)
FairSpec ==
    /\ Spec
    /\ \A c \in Clients : WF_vars(PostStep(c))
    /\ \A c \in Clients :
        WF_vars(\E w \in net : w.order[1] = c /\ ServerStep(w))

-----------------------------------------------------------------------------
(***************************************************************************)
(* Every variable has its type.                                            *)
(***************************************************************************)
TypeOK ==
    /\ stage \in [Clients -> Stages]
    /\ count \in [Clients -> 0..MaxOrders]
    /\ signedIn \in [Clients -> BOOLEAN]
    /\ hasRequest \in [Clients -> BOOLEAN]
    /\ content \in [Orders -> Contents \cup {[i \in Items |-> 0]}]
    /\ zone \in [Orders -> Zones]
    /\ net \subseteq Writes
    /\ acks \subseteq Answers
    /\ stored \subseteq Orders
    /\ linked \subseteq Orders
    /\ transactions \subseteq Transactions
    /\ stock \in [Items -> Int]
    /\ requested \in [Items -> Int]
    /\ zoneCount \in [Zones -> [Items -> Int]]
    /\ begun \subseteq Orders
    /\ resent \subseteq Writes
    /\ lost \subseteq Orders

(***************************************************************************)
(* "Success!" is shown only for a request that is stored and linked, and   *)
(* "Something went wrong!" only for one that the user's list does not link *)
(* (though it may be stored, where nobody will clean it up), unless the    *)
(* answer to the link was lost and it was refused when sent again.         *)
(***************************************************************************)
ResultTellsTruth ==
    \A c \in Clients :
        /\ stage[c] = "success" => Order(c) \in stored \cap linked
        /\ stage[c] = "failure" =>
            \/ Order(c) \notin linked
            \/ [kind |-> "link", order |-> Order(c)] \in resent

(***************************************************************************)
(* A card that says "Sending..." and that nothing will replace (the user   *)
(* was gone when postRequest looked, or the read of the zone was refused)  *)
(* never hides a request that goes through: none of it is stored, linked,  *)
(* counted or on its way, so that sending it anew cannot double it.        *)
(***************************************************************************)
HungSentNothing ==
    \A c \in Clients : stage[c] = "hung" =>
        /\ Order(c) \notin stored \cup linked
        /\ \A x \in net \cup acks \cup transactions : x.order # Order(c)

(***************************************************************************)
(* A linked request exists, however writes, refusals and kills interleave: *)
(* fetchAllUserRequests asks for every id it finds linked.                 *)
(***************************************************************************)
NoDanglingLink == linked \subseteq stored

Ordered(S, i) == MapThenSumSet(LAMBDA o : content[o][i], S)

(***************************************************************************)
(* The shared counters never count a request that is not linked, and none  *)
(* twice: retries, refusals and kills only ever leave them behind.         *)
(***************************************************************************)
CountersNeverExceed ==
    \A i \in Items :
        /\ requested[i] <= Ordered(linked, i)
        /\ -stock[i] <= Ordered(linked, i)
        /\ \A z \in Zones :
            zoneCount[z][i] <= Ordered({o \in linked : zone[o] = z}, i)

(***************************************************************************)
(* A client has linked two requests with item i among S: their transactions*)
(* on its counter may have met in the SDK's queue.                         *)
(***************************************************************************)
Repeats(S, i) ==
    \E o, p \in S : o[1] = p[1] /\ o # p /\ content[o][i] > 0 /\ content[p][i] > 0

(***************************************************************************)
(* When every client is back at its main screen and no transaction is out, *)
(* all three counters account for every linked request, but for those      *)
(* whose counting a kill, a broken connection or a link reported as failed *)
(* has cut off, and unless a client has sent two requests for an item: the *)
(* second may have undone a part of that item's count.  Requests of        *)
(* different clients never undo each other's counts.                       *)
(***************************************************************************)
CountersSettle ==
    (/\ \A c \in Clients : stage[c] = "main"
     /\ transactions = {} /\ net = {} /\ lost = {}) =>
        \A i \in Items :
            /\ Repeats(linked, i) \/ /\ requested[i] = Ordered(linked, i)
                                     /\ stock[i] = -Ordered(linked, i)
            /\ \A z \in Zones :
                LET there == {o \in linked : zone[o] = z}
                IN  Repeats(there, i) \/ zoneCount[z][i] = Ordered(there, i)

(***************************************************************************)
(* A request that is being sent comes to a result and the app back to its  *)
(* main screen, provided the server answers: past the read of the zone no  *)
(* path through the callbacks of postRequest forgets onComplete.  The read *)
(* of the zone itself may be refused, and then nothing follows.            *)
(***************************************************************************)
SendCompletes ==
    \A c \in Clients :
        /\ stage[c] = "zone" ~> stage[c] \in {"main", "hung"}
        /\ stage[c] = "storing" ~> stage[c] = "main"
=============================================================================
