-------------------------- MODULE PostRequestProofs -------------------------
(***************************************************************************)
(* Proofs about PostRequest, for any clients, items, zones and requests:   *)
(* a linked request exists, the result shown tells the truth, a card that  *)
(* is stuck hides nothing that was sent, and the shared counters count     *)
(* every linked request at most once, and exactly once if nothing was cut  *)
(* off and no client has repeated an item.                                 *)
(*                                                                         *)
(* The first three are about writes and answers that are out when the      *)
(* state they speak of is reached.  PInv says what they stand for          *)
(* (NetSound, AcksSound), that none is about a request before it is sent   *)
(* or its link is due (Fresh, Unopened), and that a result leaves none     *)
(* behind (Ended).                                                         *)
(*                                                                         *)
(* The counters do not tell which requests they have counted.  CInv says   *)
(* that there is, for each counter and item, a set of linked requests that *)
(* it sums up (Counts, Stands): none of them is to be counted again, and   *)
(* each of the others is awaited, out, lost or asks for none of the item.  *)
(* A part of the sum may be undone only where a client has linked two      *)
(* requests with the item (Repeats), which stays so.                       *)
(***************************************************************************)
EXTENDS PostRequest, FiniteSetTheorems, TLAPS

LinkOf(o) == [kind |-> "link", order |-> o]

Types ==
    /\ stage \in [Clients -> Stages]
    /\ count \in [Clients -> Nat]
    /\ signedIn \in [Clients -> BOOLEAN]
    /\ hasRequest \in [Clients -> BOOLEAN]
    /\ net \subseteq Writes
    /\ acks \subseteq Answers
    /\ \A c \in Clients : stage[c] # "main" => Order(c) \in Orders

NetSound ==
    \A o \in Orders :
        LinkOf(o) \in net => /\ o \in stored
                             /\ o \notin linked \/ LinkOf(o) \in resent

AcksSound ==
    \A a \in acks :
        /\ a.kind = "store" /\ a.ok => a.order \in stored
        /\ a.kind = "link" =>
            /\ LinkOf(a.order) \notin net
            /\ IF a.ok THEN a.order \in linked
               ELSE a.order \notin linked \/ LinkOf(a.order) \in resent

\* Nothing has linked request o, or is about to.
Unlinked(o) ==
    /\ LinkOf(o) \notin net
    /\ o \notin linked
    /\ \A a \in acks : a.kind = "link" => a.order # o

\* Nothing of request o has been sent.
Unsent(o) ==
    /\ o \notin stored \cup linked
    /\ \A x \in net \cup acks : x.order # o

Fresh ==
    \A c \in Clients :
        /\ stage[c] \in {"review", "zone", "hung"} => Unsent(Order(c))
        /\ stage[c] = "storing" => Unlinked(Order(c))

Unopened ==
    \A o \in Orders : o[2] > count[o[1]] => Unsent(o)

Ended ==
    \A c \in Clients :
        stage[c] \in {"success", "failure"} => LinkOf(Order(c)) \notin net

\* The inductive invariant.
PInv ==
    /\ Types
    /\ NetSound /\ AcksSound /\ NoDanglingLink
    /\ Fresh /\ Unopened /\ Ended
    /\ ResultTellsTruth

(***************************************************************************)
(* A write is told by its kind and its request.                            *)
(***************************************************************************)
LEMMA LinkIsLinkOf ==
    ASSUME NEW w \in Writes, w.kind = "link"
    PROVE  w = LinkOf(w.order) /\ w.order \in Orders
<1> QED BY DEF Writes, LinkOf

(***************************************************************************)
(* What is not sent is not linked.                                         *)
(***************************************************************************)
LEMMA UnsentUnlinked ==
    ASSUME NEW o, Unsent(o)
    PROVE  Unlinked(o)
<1>1. LinkOf(o).order = o
  BY DEF LinkOf
<1> QED BY <1>1 DEF Unsent, Unlinked

(***************************************************************************)
(* At first nothing is out.                                                *)
(***************************************************************************)
LEMMA PostInitHolds == Init => PInv
<1> SUFFICES ASSUME Init PROVE PInv
    OBVIOUS
<1>1. Types
  BY DEF Init, Types, Stages
<1>2. NetSound /\ AcksSound /\ NoDanglingLink
  BY DEF Init, NetSound, AcksSound, NoDanglingLink
<1>3. Fresh /\ Unopened /\ Ended
  BY DEF Init, Fresh, Unopened, Unlinked, Unsent, Ended
<1>4. ResultTellsTruth
  BY DEF Init, ResultTellsTruth
<1> QED BY <1>1, <1>2, <1>3, <1>4 DEF PInv

(***************************************************************************)
(* A step of client c that leaves the database, the writes and the answers *)
(* alone, and does not count a new request, keeps what is said of them.    *)
(***************************************************************************)
LEMMA QuietHolds ==
    ASSUME PInv, UNCHANGED <<count, net, acks, database>>
    PROVE  NetSound' /\ AcksSound' /\ NoDanglingLink' /\ Unopened'
<1>1. /\ count' = count /\ net' = net /\ acks' = acks
      /\ stored' = stored /\ linked' = linked /\ resent' = resent
  BY DEF database
<1> QED BY <1>1 DEF PInv, NetSound, AcksSound, NoDanglingLink, Unopened, Unsent

(***************************************************************************)
(* A new request has never been heard of.                                  *)
(***************************************************************************)
LEMMA OpenHolds ==
    ASSUME PInv, NEW c \in Clients, NEW q, OpenCheckout(c, q)
    PROVE  PInv'
<1> DEFINE o == <<c, count[c] + 1>>
<1>1. /\ net' = net /\ acks' = acks /\ signedIn' = signedIn
      /\ stored' = stored /\ linked' = linked /\ resent' = resent
  BY DEF OpenCheckout, database
<1>3. NetSound' /\ AcksSound' /\ NoDanglingLink'
  BY <1>1 DEF PInv, NetSound, AcksSound, NoDanglingLink
<1>4. /\ \A d \in Clients : count'[d] = IF d = c THEN count[c] + 1 ELSE count[d]
      /\ \A d \in Clients : stage'[d] = IF d = c THEN "review" ELSE stage[d]
      /\ count[c] \in Nat
  BY DEF PInv, Types, OpenCheckout
<1>5. \A p : (Unlinked(p)' <=> Unlinked(p)) /\ (Unsent(p)' <=> Unsent(p))
  BY <1>1 DEF Unlinked, Unsent
<1>6. o \in Orders
  BY <1>4, MaxOrdersAssumption DEF OpenCheckout, Orders
<1>2. Types'
  <2>1. \A d \in Clients : (stage[d] # "main")' => Order(d)' \in Orders
    BY <1>4, <1>6 DEF PInv, Types, Order
  <2> QED BY <1>1, <2>1 DEF PInv, Types, OpenCheckout, Stages
<1>11. Unsent(o)
  <2>1. o[1] = c /\ o[2] = count[c] + 1 /\ o[2] > count[o[1]]
    BY <1>4
  <2> QED BY <1>6, <2>1 DEF PInv, Unopened
<1>7. Fresh'
  BY <1>4, <1>5, <1>11 DEF PInv, Fresh, Order
<1>8. Unopened'
  BY <1>4, <1>5 DEF PInv, Types, Unopened, Orders
<1>9. Ended' /\ ResultTellsTruth'
  BY <1>1, <1>4 DEF PInv, Ended, ResultTellsTruth, Order
<1> QED BY <1>2, <1>3, <1>7, <1>8, <1>9 DEF PInv

(***************************************************************************)
(* The checkout is dismissed, or "Send" is tapped.                         *)
(***************************************************************************)
LEMMA ReviewHolds ==
    ASSUME PInv, NEW c \in Clients, DismissCheckout(c) \/ clickedSend(c)
    PROVE  PInv'
<1>1. /\ count' = count /\ net' = net /\ acks' = acks /\ signedIn' = signedIn
      /\ UNCHANGED database
  BY DEF DismissCheckout, clickedSend, checkout
<1>2. /\ stage[c] = "review"
      /\ \A d \in Clients \ {c} : stage'[d] = stage[d]
      /\ stage'[c] = "main" \/ stage'[c] = "zone"
         \/ stage'[c] = "hung"
  BY DEF PInv, Types, DismissCheckout, clickedSend, checkout
<1>3. Types'
  <2>1. \A d \in Clients : (stage[d] # "main")' => Order(d)' \in Orders
    BY <1>1, <1>2 DEF PInv, Types, Order
  <2> QED BY <1>1, <2>1 DEF PInv, Types, DismissCheckout, clickedSend, checkout, Stages
<1>4. NetSound' /\ AcksSound' /\ NoDanglingLink' /\ Unopened'
  BY <1>1, QuietHolds
<1>5. linked' = linked /\ stored' = stored /\ resent' = resent
  BY <1>1 DEF database
<1>6. Fresh'
  BY <1>1, <1>2, <1>5 DEF PInv, Fresh, Unlinked, Unsent, Order
<1>7. Ended' /\ ResultTellsTruth'
  BY <1>1, <1>2, <1>5 DEF PInv, Ended, ResultTellsTruth, Order
<1> QED BY <1>3, <1>4, <1>6, <1>7 DEF PInv

(***************************************************************************)
(* The zone is found, and the request written; its link is not due yet.    *)
(***************************************************************************)
LEMMA ZoneFoundHolds ==
    ASSUME PInv, NEW c \in Clients, NEW z, ZoneFound(c, z)
    PROVE  PInv'
<1>1. /\ count' = count /\ acks' = acks /\ signedIn' = signedIn
      /\ stored' = stored /\ linked' = linked /\ resent' = resent
      /\ hasRequest' = hasRequest
  BY DEF ZoneFound, checkout, database
<1>2. /\ stage[c] = "zone" /\ stage'[c] = "storing"
      /\ \A d \in Clients \ {c} : stage'[d] = stage[d]
  BY DEF PInv, Types, ZoneFound
<1>3. \A o : LinkOf(o) \in net' <=> LinkOf(o) \in net
  BY DEF ZoneFound, LinkOf
<1>4. Types'
  <2>1. Order(c) \in Orders
    BY <1>2 DEF PInv, Types
  <2>2. \A d \in Clients : (stage[d] # "main")' => Order(d)' \in Orders
    BY <1>1, <1>2, <2>1 DEF PInv, Types, Order
  <2> QED BY <1>1, <2>1, <2>2 DEF PInv, Types, ZoneFound, Stages, Writes
<1>5. NetSound' /\ AcksSound' /\ NoDanglingLink'
  BY <1>1, <1>3 DEF PInv, NetSound, AcksSound, NoDanglingLink
<1>8. /\ \A o : Unlinked(o) => Unlinked(o)'
      /\ \A o : o # Order(c) /\ Unsent(o) => Unsent(o)'
  <2>1. \A x \in net' : x \in net \/ x.order = Order(c)
    BY DEF ZoneFound
  <2> QED BY <1>1, <1>3, <2>1 DEF Unlinked, Unsent
<1>6. Fresh'
  <2> SUFFICES ASSUME NEW d \in Clients
               PROVE  /\ stage'[d] \in {"review", "zone", "hung"} => Unsent(Order(d))'
                      /\ stage'[d] = "storing" => Unlinked(Order(d))'
    BY DEF Fresh
  <2>1. Order(d)' = Order(d) /\ (d # c => Order(d) # Order(c))
    BY <1>1 DEF Order
  <2>2. \A o : Unlinked(o)' /\ o = Order(d) => Unlinked(Order(d))'
    BY <2>1 DEF Unlinked
  <2>3. \A o : Unsent(o)' /\ o = Order(d) => Unsent(Order(d))'
    BY <2>1 DEF Unsent
  <2>4. CASE d = c
    <3>1. Unlinked(Order(c))
      BY <1>2, UnsentUnlinked DEF PInv, Fresh
    <3> QED BY <1>2, <1>8, <2>2, <2>4, <3>1
  <2>5. CASE d # c
    BY <1>2, <1>8, <2>1, <2>2, <2>3, <2>5 DEF PInv, Fresh
  <2> QED BY <2>4, <2>5
<1>9. Unopened'
  <2> SUFFICES ASSUME NEW o \in Orders, o[2] > count[o[1]] PROVE Unsent(o)'
    BY <1>1 DEF Unopened
  <2>1. o # Order(c)
    BY DEF PInv, Types, Order
  <2> QED BY <1>8, <2>1 DEF PInv, Unopened
<1>7. Ended' /\ ResultTellsTruth'
  BY <1>1, <1>2, <1>3 DEF PInv, Ended, ResultTellsTruth, Order
<1> QED BY <1>4, <1>5, <1>6, <1>7, <1>9 DEF PInv

(***************************************************************************)
(* There is no zone, its read is refused, or the result makes way for the  *)
(* main screen.                                                            *)
(***************************************************************************)
LEMMA ResultHolds ==
    ASSUME PInv, NEW c \in Clients,
           ZoneMissing(c) \/ ZoneRefused(c) \/ returnToMain(c)
    PROVE  PInv'
<1>1. /\ count' = count /\ net' = net /\ acks' = acks /\ signedIn' = signedIn
      /\ UNCHANGED database
  BY DEF ZoneMissing, ZoneRefused, returnToMain, checkout
<1>2. /\ stage[c] # "main"
      /\ \A d \in Clients \ {c} : stage'[d] = stage[d]
      /\ stage'[c] = "main" \/ (stage'[c] \in {"failure", "hung"} /\ stage[c] = "zone")
  BY DEF PInv, Types, ZoneMissing, ZoneRefused, returnToMain, checkout
<1>3. Types'
  <2>1. \A d \in Clients : (stage[d] # "main")' => Order(d)' \in Orders
    BY <1>1, <1>2 DEF PInv, Types, Order
  <2> QED BY <1>1, <2>1 DEF PInv, Types, ZoneMissing, ZoneRefused, returnToMain, checkout,
     Stages
<1>4. NetSound' /\ AcksSound' /\ NoDanglingLink' /\ Unopened'
  BY <1>1, QuietHolds
<1>5. linked' = linked /\ stored' = stored /\ resent' = resent
  BY <1>1 DEF database
<1>6. Fresh'
  BY <1>1, <1>2, <1>5 DEF PInv, Fresh, Unlinked, Unsent, Order
<1>7. Ended' /\ ResultTellsTruth'
  BY <1>1, <1>2, <1>5 DEF PInv, Fresh, Unlinked, Unsent, LinkOf, Ended, ResultTellsTruth, Order
<1> QED BY <1>3, <1>4, <1>6, <1>7 DEF PInv

(***************************************************************************)
(* What the server does to one write leaves the clients where they are.    *)
(***************************************************************************)
LEMMA StillThere ==
    ASSUME PInv, UNCHANGED <<stage, checkout, signedIn>>,
           (net \subseteq Writes)', (acks \subseteq Answers)'
    PROVE  Types'
<1>1. stage' = stage /\ count' = count /\ hasRequest' = hasRequest /\ signedIn' = signedIn
  BY DEF checkout
<1> QED BY <1>1 DEF PInv, Types, Order

(***************************************************************************)
(* The server applies a write: a link only of a request that is stored,    *)
(* and one that nobody has been told the failure of.                       *)
(***************************************************************************)
LEMMA ApplyWriteHolds ==
    ASSUME PInv, NEW w, ApplyWrite(w)
    PROVE  PInv'
<1>1. /\ w \in net /\ net' = net \ {w} /\ resent' = resent
      /\ UNCHANGED <<stage, checkout, signedIn>>
      /\ stage' = stage /\ count' = count
      /\ stored' = IF w.kind = "store" THEN stored \cup {w.order} ELSE stored
      /\ linked' = IF w.kind = "link" THEN linked \cup {w.order} ELSE linked
  BY DEF ApplyWrite, Apply, Answer, checkout
<1> DEFINE b == [kind |-> w.kind, order |-> w.order, ok |-> TRUE]
<1>2. acks' \subseteq acks \cup {b}
  BY DEF ApplyWrite, Answer
<1>3. w \in Writes /\ b \in Answers
  BY <1>1 DEF PInv, Types, Writes, Answers
<1>4. w.kind = "link" => w = LinkOf(w.order) /\ w.order \in Orders /\ w.order \in stored
  BY <1>1, <1>3, LinkIsLinkOf DEF PInv, NetSound
<1>5. b.kind = w.kind /\ b.order = w.order /\ b.ok
  OBVIOUS
<1> HIDE DEF b
<1>6. Types'
  <2>1. (net \subseteq Writes)' /\ (acks \subseteq Answers)'
    BY <1>1, <1>2, <1>3 DEF PInv, Types
  <2> QED BY <1>1, <2>1, StillThere
<1>7. NetSound'
  <2> SUFFICES ASSUME NEW o \in Orders, LinkOf(o) \in net'
               PROVE  o \in stored' /\ (o \notin linked' \/ LinkOf(o) \in resent')
    BY DEF NetSound
  <2>1. LinkOf(o) \in net /\ LinkOf(o) # w
    BY <1>1
  <2>2. o \in stored /\ (o \notin linked \/ LinkOf(o) \in resent)
    BY <2>1 DEF PInv, NetSound
  <2> QED BY <1>1, <1>4, <2>1, <2>2
<1>8. AcksSound'
  <2> SUFFICES ASSUME NEW a \in acks'
               PROVE  /\ a.kind = "store" /\ a.ok => a.order \in stored'
                      /\ a.kind = "link" =>
                          /\ LinkOf(a.order) \notin net'
                          /\ IF a.ok THEN a.order \in linked'
                             ELSE a.order \notin linked' \/ LinkOf(a.order) \in resent'
    BY DEF AcksSound
  <2>1. CASE a = b
    BY <1>1, <1>4, <1>5, <2>1
  <2>2. CASE a \in acks
    <3>1. /\ a.kind = "store" /\ a.ok => a.order \in stored
          /\ a.kind = "link" =>
              /\ LinkOf(a.order) \notin net
              /\ IF a.ok THEN a.order \in linked
                 ELSE a.order \notin linked \/ LinkOf(a.order) \in resent
      BY <2>2 DEF PInv, AcksSound
    <3> QED BY <1>1, <1>4, <3>1
  <2> QED BY <1>2, <2>1, <2>2
<1>9. NoDanglingLink'
  BY <1>1, <1>4 DEF PInv, NoDanglingLink
<1>10. \A o : Unlinked(o) => Unlinked(o)'
  <2> SUFFICES ASSUME NEW o, Unlinked(o) PROVE Unlinked(o)'
    OBVIOUS
  <2>1. w.kind = "link" => w.order # o
    BY <1>1, <1>4 DEF Unlinked
  <2>2. \A a \in acks' : a.kind = "link" => a.order # o
    BY <1>2, <1>5, <2>1 DEF Unlinked
  <2> QED BY <1>1, <2>1, <2>2 DEF Unlinked
<1>14. \A o : Unsent(o) => Unsent(o)'
  BY <1>1, <1>2, <1>5 DEF Unsent
<1>11. Fresh' /\ Unopened'
  BY <1>1, <1>10, <1>14 DEF PInv, Fresh, Unopened, Order
<1>12. Ended'
  BY <1>1 DEF PInv, Ended, Order
<1>13. ResultTellsTruth'
  <2> SUFFICES ASSUME NEW c \in Clients
               PROVE  /\ stage[c] = "success" => Order(c) \in stored' \cap linked'
                      /\ stage[c] = "failure" => \/ Order(c) \notin linked'
                                                \/ LinkOf(Order(c)) \in resent'
    BY <1>1 DEF ResultTellsTruth, Order, LinkOf
  <2>1. /\ stage[c] = "success" => Order(c) \in stored \cap linked
        /\ stage[c] = "failure" => \/ Order(c) \notin linked
                                  \/ LinkOf(Order(c)) \in resent
    BY DEF PInv, ResultTellsTruth, LinkOf
  <2>2. stage[c] = "failure" => LinkOf(Order(c)) \notin net
    BY DEF PInv, Ended
  <2> QED BY <1>1, <1>4, <2>1, <2>2
<1> QED BY <1>6, <1>7, <1>8, <1>9, <1>11, <1>12, <1>13 DEF PInv

(***************************************************************************)
(* The server refuses a write: what was not linked before will not be.     *)
(***************************************************************************)
LEMMA RefuseWriteHolds ==
    ASSUME PInv, NEW w, RefuseWrite(w)
    PROVE  PInv'
<1>1. /\ w \in net /\ net' = net \ {w} /\ resent' = resent
      /\ UNCHANGED <<stage, checkout, signedIn>>
      /\ stage' = stage /\ count' = count
      /\ stored' = stored /\ linked' = linked
  BY DEF RefuseWrite, Answer, checkout
<1> DEFINE b == [kind |-> w.kind, order |-> w.order, ok |-> FALSE]
<1>2. acks' \subseteq acks \cup {b}
  BY DEF RefuseWrite, Answer
<1>3. w \in Writes /\ b \in Answers
  BY <1>1 DEF PInv, Types, Writes, Answers
<1>4. w.kind = "link" => /\ w = LinkOf(w.order)
                         /\ w.order \notin linked \/ LinkOf(w.order) \in resent
  BY <1>1, <1>3, LinkIsLinkOf DEF PInv, NetSound
<1>5. b.kind = w.kind /\ b.order = w.order /\ ~b.ok
  OBVIOUS
<1> HIDE DEF b
<1>6. Types'
  <2>1. (net \subseteq Writes)' /\ (acks \subseteq Answers)'
    BY <1>1, <1>2, <1>3 DEF PInv, Types
  <2> QED BY <1>1, <2>1, StillThere
<1>7. NetSound' /\ NoDanglingLink'
  BY <1>1 DEF PInv, NetSound, NoDanglingLink
<1>8. AcksSound'
  <2> SUFFICES ASSUME NEW a \in acks'
               PROVE  /\ a.kind = "store" /\ a.ok => a.order \in stored
                      /\ a.kind = "link" =>
                          /\ LinkOf(a.order) \notin net'
                          /\ IF a.ok THEN a.order \in linked
                             ELSE a.order \notin linked \/ LinkOf(a.order) \in resent
    BY <1>1 DEF AcksSound
  <2>1. CASE a = b
    BY <1>1, <1>4, <1>5, <2>1
  <2>2. CASE a \in acks
    BY <1>1, <2>2 DEF PInv, AcksSound
  <2> QED BY <1>2, <2>1, <2>2
<1>9. \A o : Unlinked(o) => Unlinked(o)'
  BY <1>1, <1>2, <1>4, <1>5 DEF Unlinked
<1>12. \A o : Unsent(o) => Unsent(o)'
  BY <1>1, <1>2, <1>5 DEF Unsent
<1>10. Fresh' /\ Unopened'
  BY <1>1, <1>9, <1>12 DEF PInv, Fresh, Unopened, Order
<1>11. Ended' /\ ResultTellsTruth'
  BY <1>1 DEF PInv, Ended, ResultTellsTruth, Order
<1> QED BY <1>6, <1>7, <1>8, <1>10, <1>11 DEF PInv

(***************************************************************************)
(* The server applies a write and its answer is lost.                      *)
(***************************************************************************)
LEMMA ApplyAnswerLostHolds ==
    ASSUME PInv, NEW w, ApplyAnswerLost(w)
    PROVE  PInv'
<1>1. /\ w \in net /\ net' = net /\ acks' = acks /\ resent' = resent \cup {w}
      /\ UNCHANGED <<stage, checkout, signedIn>>
      /\ stage' = stage /\ count' = count
      /\ stored' = IF w.kind = "store" THEN stored \cup {w.order} ELSE stored
      /\ linked' = IF w.kind = "link" THEN linked \cup {w.order} ELSE linked
  BY DEF ApplyAnswerLost, Apply, checkout
<1>2. w \in Writes
  BY <1>1 DEF PInv, Types
<1>3. w.kind = "link" => w = LinkOf(w.order) /\ w.order \in Orders /\ w.order \in stored
  BY <1>1, <1>2, LinkIsLinkOf DEF PInv, NetSound
<1>4. Types'
  <2>1. (net \subseteq Writes)' /\ (acks \subseteq Answers)'
    BY <1>1 DEF PInv, Types
  <2> QED BY <1>1, <2>1, StillThere
<1>5. stored \subseteq stored' /\ linked \subseteq linked' /\ resent \subseteq resent'
  BY <1>1
<1>6. \A o : o \in linked' => o \in linked \/ (LinkOf(o) = w /\ LinkOf(o) \in resent')
  BY <1>1, <1>3
<1>7. NetSound'
  BY <1>1, <1>5, <1>6 DEF PInv, NetSound
<1>8. AcksSound'
  <2> SUFFICES ASSUME NEW a \in acks
               PROVE  /\ a.kind = "store" /\ a.ok => a.order \in stored'
                      /\ a.kind = "link" =>
                          /\ LinkOf(a.order) \notin net
                          /\ IF a.ok THEN a.order \in linked'
                             ELSE a.order \notin linked' \/ LinkOf(a.order) \in resent'
    BY <1>1 DEF AcksSound
  <2> QED BY <1>5, <1>6 DEF PInv, AcksSound
<1>9. NoDanglingLink'
  BY <1>1, <1>3 DEF PInv, NoDanglingLink
<1>10. \A o : Unlinked(o) => Unlinked(o)'
  BY <1>1, <1>6 DEF Unlinked
<1>14. \A o : Unsent(o) => Unsent(o)'
  BY <1>1 DEF Unsent
<1>11. Fresh' /\ Unopened'
  BY <1>1, <1>10, <1>14 DEF PInv, Fresh, Unopened, Order
<1>12. Ended'
  BY <1>1 DEF PInv, Ended, Order
<1>13. ResultTellsTruth'
  <2> SUFFICES ASSUME NEW c \in Clients
               PROVE  /\ stage[c] = "success" => Order(c) \in stored' \cap linked'
                      /\ stage[c] = "failure" => \/ Order(c) \notin linked'
                                                \/ LinkOf(Order(c)) \in resent'
    BY <1>1 DEF ResultTellsTruth, Order, LinkOf
  <2>1. /\ stage[c] = "success" => Order(c) \in stored \cap linked
        /\ stage[c] = "failure" => \/ Order(c) \notin linked
                                  \/ LinkOf(Order(c)) \in resent
    BY DEF PInv, ResultTellsTruth, LinkOf
  <2> QED BY <1>5, <1>6, <2>1
<1> QED BY <1>4, <1>7, <1>8, <1>9, <1>11, <1>12, <1>13 DEF PInv

(***************************************************************************)
(* The request is stored and its link written: until then nothing was out  *)
(* that could have linked it, so no answer is about an earlier attempt.    *)
(***************************************************************************)
LEMMA StoreAnsweredHolds ==
    ASSUME PInv, NEW c \in Clients, StoreAnswered(c)
    PROVE  PInv'
<1>1. PICK a \in acks :
        /\ a.order = Order(c) /\ a.kind = "store" /\ stage[c] = "storing"
        /\ acks' = acks \ {a}
        /\ stage' = [stage EXCEPT ![c] = IF a.ok THEN "linking" ELSE "failure"]
        /\ net' = IF a.ok THEN net \cup {LinkOf(Order(c))} ELSE net
  BY DEF StoreAnswered, LinkOf
<1>2. /\ count' = count /\ hasRequest' = hasRequest /\ signedIn' = signedIn
      /\ stored' = stored /\ linked' = linked /\ resent' = resent
  BY DEF StoreAnswered, checkout, database
<1>3. /\ \A d \in Clients \ {c} : stage'[d] = stage[d]
      /\ stage'[c] = IF a.ok THEN "linking" ELSE "failure"
      /\ stage' \in [Clients -> Stages]
  BY <1>1 DEF PInv, Types, Stages
<1>4. Order(c) \in Orders /\ Unlinked(Order(c))
  BY <1>1 DEF PInv, Types, Fresh
<1>5. a.ok => Order(c) \in stored
  BY <1>1 DEF PInv, AcksSound
<1>6. \A o, p : LinkOf(o) = LinkOf(p) => o = p
  BY DEF LinkOf
<1>7. Types'
  <2>1. LinkOf(Order(c)) \in Writes
    BY <1>4 DEF LinkOf, Writes
  <2>2. \A d \in Clients : (stage[d] # "main")' => Order(d)' \in Orders
    BY <1>2, <1>3, <1>4 DEF PInv, Types, Order
  <2>3. (net \subseteq Writes)' /\ (acks \subseteq Answers)'
    BY <1>1, <2>1 DEF PInv, Types
  <2> QED BY <1>2, <1>3, <2>2, <2>3 DEF PInv, Types
<1>8. NetSound'
  BY <1>1, <1>2, <1>4, <1>5, <1>6 DEF PInv, NetSound, Unlinked
<1>9. AcksSound' /\ NoDanglingLink'
  BY <1>1, <1>2, <1>4, <1>6 DEF PInv, AcksSound, NoDanglingLink, Unlinked
<1>10. \A o : o # Order(c) => /\ Unlinked(o) => Unlinked(o)'
                              /\ Unsent(o) => Unsent(o)'
  <2>1. LinkOf(Order(c)).order = Order(c)
    BY DEF LinkOf
  <2> QED BY <1>1, <1>2, <1>6, <2>1 DEF Unlinked, Unsent
<1>11. Fresh'
  <2> SUFFICES ASSUME NEW d \in Clients, d # c
               PROVE  /\ stage'[d] \in {"review", "zone", "hung"} => Unsent(Order(d))'
                      /\ stage'[d] = "storing" => Unlinked(Order(d))'
    BY <1>3 DEF Fresh
  <2>2. Order(d) # Order(c) /\ Order(d)' = Order(d)
    BY <1>2 DEF Order
  <2>3. /\ Unlinked(Order(d)) => Unlinked(Order(d))'
        /\ Unsent(Order(d)) => Unsent(Order(d))'
    <3>1. PICK o : o = Order(d)
      OBVIOUS
    <3>2. (Unlinked(o) => Unlinked(o)') /\ (Unsent(o) => Unsent(o)')
      BY <1>10, <2>2, <3>1
    <3> QED BY <2>2, <3>1, <3>2 DEF Unlinked, Unsent
  <2> QED BY <1>3, <2>3 DEF PInv, Fresh
<1>12. Unopened'
  <2> SUFFICES ASSUME NEW o \in Orders, o[2] > count[o[1]] PROVE Unsent(o)'
    BY <1>2 DEF Unopened
  <2>1. o # Order(c)
    BY DEF PInv, Types, Order
  <2> QED BY <1>10, <2>1 DEF PInv, Unopened
<1>13. Ended'
  <2> SUFFICES ASSUME NEW d \in Clients, stage'[d] \in {"success", "failure"}
               PROVE  LinkOf(Order(d)) \notin net'
    BY <1>2 DEF Ended, Order
  <2>1. CASE d = c
    BY <1>1, <1>3, <1>4, <2>1 DEF Unlinked
  <2>2. CASE d # c
    BY <1>1, <1>3, <1>6, <2>2 DEF PInv, Ended, Order
  <2> QED BY <2>1, <2>2
<1>14. ResultTellsTruth'
  <2>1. stage'[c] # "success" /\ Order(c) \notin linked
    BY <1>3, <1>4 DEF Unlinked
  <2> QED BY <1>2, <1>3, <2>1 DEF PInv, ResultTellsTruth, Order
<1> QED BY <1>7, <1>8, <1>9, <1>11, <1>12, <1>13, <1>14 DEF PInv

(***************************************************************************)
(* The link is answered and the result shown.                              *)
(***************************************************************************)
LEMMA LinkAnsweredHolds ==
    ASSUME PInv, NEW c \in Clients, LinkAnswered(c)
    PROVE  PInv'
<1>1. PICK a \in acks :
        /\ a.order = Order(c) /\ a.kind = "link" /\ stage[c] = "linking"
        /\ acks' = acks \ {a}
        /\ stage' = [stage EXCEPT ![c] = IF a.ok THEN "success" ELSE "failure"]
  BY DEF LinkAnswered
<1>2. /\ count' = count /\ hasRequest' = hasRequest /\ signedIn' = signedIn
      /\ stored' = stored /\ linked' = linked /\ resent' = resent /\ net' = net
  BY DEF LinkAnswered, checkout, database
<1>3. /\ \A d \in Clients \ {c} : stage'[d] = stage[d]
      /\ stage'[c] = IF a.ok THEN "success" ELSE "failure"
      /\ stage' \in [Clients -> Stages]
  BY <1>1 DEF PInv, Types, Stages
<1>4. /\ LinkOf(Order(c)) \notin net
      /\ IF a.ok THEN Order(c) \in linked
         ELSE Order(c) \notin linked \/ LinkOf(Order(c)) \in resent
  BY <1>1 DEF PInv, AcksSound
<1>5. Types'
  <2>1. \A d \in Clients : (stage[d] # "main")' => Order(d)' \in Orders
    BY <1>1, <1>2, <1>3 DEF PInv, Types, Order
  <2> QED BY <1>1, <1>2, <1>3, <2>1 DEF PInv, Types
<1>6. NetSound' /\ AcksSound' /\ NoDanglingLink'
  BY <1>1, <1>2 DEF PInv, NetSound, AcksSound, NoDanglingLink
<1>7. Fresh' /\ Unopened'
  BY <1>1, <1>2, <1>3 DEF PInv, Fresh, Unopened, Unlinked, Unsent, Order
<1>8. Ended'
  BY <1>2, <1>3, <1>4 DEF PInv, Ended, Order
<1>9. ResultTellsTruth'
  <2>1. a.ok => Order(c) \in stored \cap linked
    BY <1>4 DEF PInv, NoDanglingLink
  <2>2. \A d \in Clients : Order(d)' = Order(d)
    BY <1>2 DEF Order
  <2> QED BY <1>2, <1>3, <1>4, <2>1, <2>2 DEF PInv, ResultTellsTruth, LinkOf
<1> QED BY <1>5, <1>6, <1>7, <1>8, <1>9 DEF PInv

(***************************************************************************)
(* The transactions only touch the counters; a stutter touches nothing.    *)
(***************************************************************************)
LEMMA CountingHolds ==
    ASSUME PInv,
           (\E t \in transactions : Commit(t) \/ LoseTransaction(t)) \/ UNCHANGED vars
    PROVE  PInv'
<1>1. /\ stage' = stage /\ count' = count /\ hasRequest' = hasRequest
      /\ signedIn' = signedIn /\ net' = net /\ acks' = acks
      /\ stored' = stored /\ linked' = linked /\ resent' = resent
  BY DEF Commit, LoseTransaction, vars, checkout, database
<1>2. Types'
  BY <1>1 DEF PInv, Types, Order
<1>3. NetSound' /\ AcksSound' /\ NoDanglingLink'
  BY <1>1 DEF PInv, NetSound, AcksSound, NoDanglingLink
<1>4. Fresh' /\ Unopened' /\ Ended'
  BY <1>1 DEF PInv, Fresh, Unopened, Unlinked, Unsent, Ended, Order
<1>5. ResultTellsTruth'
  BY <1>1 DEF PInv, ResultTellsTruth, Order
<1> QED BY <1>2, <1>3, <1>4, <1>5 DEF PInv

(***************************************************************************)
(* The session is lost, or the app killed: what is out only gets fewer.    *)
(***************************************************************************)
LEMMA InterruptedHolds ==
    ASSUME PInv, NEW c \in Clients, LoseSession(c) \/ Kill(c)
    PROVE  PInv'
<1>1. /\ count' = count /\ stored' = stored /\ linked' = linked /\ resent' = resent
      /\ net' \subseteq net /\ acks' \subseteq acks
  BY DEF LoseSession, Kill, checkout, database
<1>2. /\ stage' \in [Clients -> Stages] /\ signedIn' \in [Clients -> BOOLEAN]
      /\ hasRequest' \in [Clients -> BOOLEAN]
  BY DEF PInv, Types, Stages, LoseSession, Kill, checkout
<1>3. /\ \A d \in Clients \ {c} : /\ stage'[d] = stage[d]
                                  /\ signedIn'[d] = signedIn[d]
                                  /\ hasRequest'[d] = hasRequest[d]
      /\ stage'[c] = "main" \/ stage'[c] = stage[c]
  BY DEF PInv, Types, LoseSession, Kill, checkout
<1>4. Types'
  <2>1. \A d \in Clients : (stage[d] # "main")' => Order(d)' \in Orders
    BY <1>1, <1>3 DEF PInv, Types, Order
  <2> QED BY <1>1, <1>2, <2>1 DEF PInv, Types
<1>5. NetSound' /\ AcksSound' /\ NoDanglingLink'
  BY <1>1 DEF PInv, NetSound, AcksSound, NoDanglingLink
<1>6. Fresh' /\ Unopened' /\ Ended'
  BY <1>1, <1>3 DEF PInv, Fresh, Unopened, Unlinked, Unsent, Ended, Order
<1>7. ResultTellsTruth'
  BY <1>1, <1>3 DEF PInv, ResultTellsTruth, Order
<1> QED BY <1>4, <1>5, <1>6, <1>7 DEF PInv

(***************************************************************************)
(* Every step keeps the invariant.                                         *)
(***************************************************************************)
LEMMA PostStepHolds == PInv /\ [Next]_vars => PInv'
<1> SUFFICES ASSUME PInv, [Next]_vars PROVE PInv'
    OBVIOUS
<1>1. ASSUME NEW c \in Clients, NEW q, OpenCheckout(c, q) PROVE PInv'
  BY <1>1, OpenHolds
<1>2. ASSUME NEW c \in Clients, DismissCheckout(c) \/ clickedSend(c) PROVE PInv'
  BY <1>2, ReviewHolds
<1>3. ASSUME NEW c \in Clients, PostStep(c) PROVE PInv'
  BY <1>3, ZoneFoundHolds, ResultHolds, StoreAnsweredHolds, LinkAnsweredHolds
     DEF PostStep
<1>4. ASSUME NEW c \in Clients, LoseSession(c) \/ Kill(c) PROVE PInv'
  BY <1>4, InterruptedHolds
<1>5. ASSUME NEW w \in net, ServerStep(w) \/ ApplyAnswerLost(w) PROVE PInv'
  BY <1>5, ApplyWriteHolds, RefuseWriteHolds, ApplyAnswerLostHolds DEF ServerStep
<1>6. ASSUME (\E t \in transactions : Commit(t) \/ LoseTransaction(t)) \/ UNCHANGED vars
      PROVE  PInv'
  BY <1>6, CountingHolds
<1> QED BY <1>1, <1>2, <1>3, <1>4, <1>5, <1>6 DEF Next

(***************************************************************************)
(* However many clients send, whatever the server refuses and whenever the *)
(* apps are killed: a request that a user's list links is stored.          *)
(***************************************************************************)
THEOREM LinksExist == Spec => []NoDanglingLink
<1>1. PInv => NoDanglingLink
  BY DEF PInv
<1> QED BY <1>1, PostInitHolds, PostStepHolds, PTL DEF Spec

(***************************************************************************)
(* "Success!" and "Something went wrong!" say what the database holds.     *)
(***************************************************************************)
THEOREM ResultIsTrue == Spec => []ResultTellsTruth
<1>1. PInv => ResultTellsTruth
  BY DEF PInv
<1> QED BY <1>1, PostInitHolds, PostStepHolds, PTL DEF Spec

-----------------------------------------------------------------------------
(***************************************************************************)
(* What follows is about Ordered, the sum a property compares the counters *)
(* with. It is a fold over a set: a recursive function on its subsets,     *)
(* which takes an element at a time.                                       *)
(***************************************************************************)
Pick(s) == CHOOSE x \in s : TRUE

SumsUp(h, T, i) ==
    h = [s \in SUBSET T |->
            IF s = {} THEN 0
            ELSE content[Pick(s)][i] + h[s \ {Pick(s)}]]

(***************************************************************************)
(* Ordered, with the library's fold written out.                           *)
(***************************************************************************)
LEMMA OrderedIs ==
    \A T, i : Ordered(T, i) = (CHOOSE h : SumsUp(h, T, i))[T]
<1> QED BY DEF Ordered, MapThenSumSet, MapThenFoldSet, SumsUp, Pick

(***************************************************************************)
(* Induction over a finite set: among some of its subsets there is a       *)
(* smallest one.                                                           *)
(***************************************************************************)
LEMMA Smallest ==
    ASSUME NEW S, IsFiniteSet(S), NEW B, B \subseteq SUBSET S, B # {}
    PROVE  \E T \in B : \A U \in B : U \subseteq T => U = T
<1>1. IsWellFoundedOn(StrictSubsetOrdering(S), FiniteSubsetsOf(S))
  BY FS_StrictSubsetOrderingWellFounded
<1>2. B \subseteq FiniteSubsetsOf(S)
  BY FS_FiniteSubsetsOfFinite
<1>3. PICK T \in B : \A U \in B : ~(<<U, T>> \in StrictSubsetOrdering(S))
  BY <1>1, <1>2, WFMin
<1>4. ASSUME NEW U \in B, U \subseteq T, U # T PROVE FALSE
  BY <1>3, <1>4 DEF StrictSubsetOrdering
<1> QED BY <1>3, <1>4

(***************************************************************************)
(* There is at most one such function on the subsets of a finite set.      *)
(***************************************************************************)
LEMMA OneSum ==
    ASSUME NEW T, IsFiniteSet(T), NEW i, NEW g, NEW h,
           SumsUp(g, T, i), SumsUp(h, T, i)
    PROVE  g = h
<1> DEFINE B == {s \in SUBSET T : g[s] # h[s]}
<1>1. CASE B = {}
  <2>1. \A s \in SUBSET T : g[s] = h[s]
    BY <1>1
  <2> QED BY <2>1 DEF SumsUp
<1>2. CASE B # {}
  <2>1. PICK s \in B : \A u \in B : u \subseteq s => u = s
    <3>1. B \subseteq SUBSET T
      OBVIOUS
    <3> HIDE DEF B
    <3> QED BY <1>2, <3>1, Smallest
  <2>2. CASE s = {}
    BY <2>1, <2>2 DEF SumsUp
  <2>3. CASE s # {}
    <3>1. Pick(s) \in s
      BY <2>3 DEF Pick
    <3>2. s \ {Pick(s)} \notin B /\ s \ {Pick(s)} \in SUBSET T
      BY <2>1, <3>1
    <3>3. g[s \ {Pick(s)}] = h[s \ {Pick(s)}]
      BY <3>2
    <3>4. /\ g[s] = content[Pick(s)][i] + g[s \ {Pick(s)}]
          /\ h[s] = content[Pick(s)][i] + h[s \ {Pick(s)}]
      BY <2>1, <2>3 DEF SumsUp
    <3> QED BY <2>1, <3>3, <3>4
  <2> QED BY <2>2, <2>3
<1> QED BY <1>1, <1>2

Unfolds(T, i) ==
    Ordered(T, i) = IF T = {} THEN 0
                    ELSE content[Pick(T)][i] + Ordered(T \ {Pick(T)}, i)

(***************************************************************************)
(* And there is one, so that the sum unfolds: a smallest set for which it  *)
(* did not would have the sums of its own subsets for one.                 *)
(***************************************************************************)
LEMMA OrderedUnfolds ==
    ASSUME NEW S, IsFiniteSet(S), NEW i
    PROVE  Unfolds(S, i)
<1> DEFINE B == {s \in SUBSET S : ~Unfolds(s, i)}
<1> SUFFICES ASSUME B # {} PROVE FALSE
    OBVIOUS
<1>1. PICK T \in B : \A U \in B : U \subseteq T => U = T
  <2>1. B \subseteq SUBSET S
    OBVIOUS
  <2> HIDE DEF B
  <2> QED BY <2>1, Smallest
<1>2. IsFiniteSet(T)
  BY <1>1, FS_Subset
<1>3. \A U \in SUBSET T : U # T => Unfolds(U, i)
  BY <1>1
<1> DEFINE g == [s \in SUBSET T |->
                    IF s # T THEN Ordered(s, i)
                    ELSE IF T = {} THEN 0
                    ELSE content[Pick(T)][i] + Ordered(T \ {Pick(T)}, i)]
<1>4. \A s : s # {} => Pick(s) \in s
  BY DEF Pick
<1>5. ASSUME NEW s \in SUBSET T
      PROVE  g[s] = IF s = {} THEN 0
                    ELSE content[Pick(s)][i] + g[s \ {Pick(s)}]
  <2>1. s # {} => g[s \ {Pick(s)}] = Ordered(s \ {Pick(s)}, i)
    BY <1>4
  <2>2. s # T => Ordered(s, i) = IF s = {} THEN 0
                    ELSE content[Pick(s)][i] + Ordered(s \ {Pick(s)}, i)
    BY <1>3 DEF Unfolds
  <2> QED BY <2>1, <2>2
<1>6. SumsUp(g, T, i)
  BY <1>5 DEF SumsUp
<1>7. (CHOOSE h : SumsUp(h, T, i)) = g
  <2>1. SumsUp((CHOOSE h : SumsUp(h, T, i)), T, i)
    BY <1>6
  <2> QED BY <1>2, <1>6, <2>1, OneSum
<1>8. Ordered(T, i) = g[T]
  BY <1>7, OrderedIs
<1>9. Unfolds(T, i)
  BY <1>8 DEF Unfolds
<1> QED BY <1>1, <1>9

Amounts(i) == \A o \in Orders : content[o][i] \in Nat

(***************************************************************************)
(* A sum of quantities is a natural number.                                *)
(***************************************************************************)
LEMMA OrderedIsNat ==
    ASSUME NEW S \in SUBSET Orders, IsFiniteSet(S), NEW i, Amounts(i)
    PROVE  Ordered(S, i) \in Nat
<1> DEFINE B == {s \in SUBSET S : Ordered(s, i) \notin Nat}
<1> SUFFICES ASSUME B # {} PROVE FALSE
    OBVIOUS
<1>1. PICK T \in B : \A U \in B : U \subseteq T => U = T
  <2>1. B \subseteq SUBSET S
    OBVIOUS
  <2> HIDE DEF B
  <2> QED BY <2>1, Smallest
<1>2. Unfolds(T, i)
  BY <1>1, FS_Subset, OrderedUnfolds
<1>3. CASE T = {}
  BY <1>1, <1>2, <1>3 DEF Unfolds
<1>4. CASE T # {}
  <2>1. Pick(T) \in T
    BY <1>4 DEF Pick
  <2>2. Ordered(T \ {Pick(T)}, i) \in Nat
    BY <1>1, <2>1
  <2>3. content[Pick(T)][i] \in Nat
    BY <1>1, <2>1 DEF Amounts
  <2>4. Ordered(T, i) = content[Pick(T)][i] + Ordered(T \ {Pick(T)}, i)
    BY <1>2, <1>4 DEF Unfolds
  <2> QED BY <1>1, <2>2, <2>3, <2>4
<1> QED BY <1>3, <1>4

(***************************************************************************)
(* Any element may be taken first, not only the one the fold picks.        *)
(***************************************************************************)
LEMMA OrderedRemoves ==
    ASSUME NEW S \in SUBSET Orders, IsFiniteSet(S), NEW i, Amounts(i),
           NEW o \in S
    PROVE  Ordered(S, i) = content[o][i] + Ordered(S \ {o}, i)
<1> DEFINE Splits(s, p) == Ordered(s, i) = content[p][i] + Ordered(s \ {p}, i)
<1> DEFINE B == {s \in SUBSET S : \E p \in s : ~Splits(s, p)}
<1> SUFFICES ASSUME B # {} PROVE FALSE
    OBVIOUS
<1>1. PICK T \in B : \A U \in B : U \subseteq T => U = T
  <2>1. B \subseteq SUBSET S
    OBVIOUS
  <2> HIDE DEF B
  <2> QED BY <2>1, Smallest
<1>2. PICK p \in T : ~Splits(T, p)
  BY <1>1
<1> DEFINE x == Pick(T)
<1>3. x \in T
  BY <1>2 DEF Pick
<1>4. Splits(T, x)
  <2>1. Unfolds(T, i)
    BY <1>1, FS_Subset, OrderedUnfolds
  <2> QED BY <1>2, <2>1 DEF Unfolds
<1>5. p # x
  BY <1>2, <1>4
<1> HIDE DEF x
<1>6. Splits(T \ {x}, p) /\ Splits(T \ {p}, x)
  <2>1. \A s \in SUBSET T : s # T => \A q \in s : Splits(s, q)
    <3> HIDE DEF Splits
    <3> QED BY <1>1
  <2> HIDE DEF Splits
  <2> QED BY <1>2, <1>3, <1>5, <2>1
<1>7. (T \ {x}) \ {p} = (T \ {p}) \ {x}
  OBVIOUS
<1>8. /\ content[p][i] \in Nat /\ content[x][i] \in Nat
      /\ Ordered((T \ {p}) \ {x}, i) \in Nat
  <2>1. (T \ {p}) \ {x} \in SUBSET S /\ (T \ {p}) \ {x} \in SUBSET Orders
    BY <1>1
  <2>2. IsFiniteSet((T \ {p}) \ {x})
    BY <2>1, FS_Subset
  <2>3. p \in Orders /\ x \in Orders
    BY <1>1, <1>3
  <2> QED BY <2>1, <2>2, <2>3, OrderedIsNat DEF Amounts
<1>9. Ordered(T, i) = content[x][i] + (content[p][i] + Ordered((T \ {p}) \ {x}, i))
  BY <1>4, <1>6, <1>7
<1>10. Ordered(T \ {p}, i) = content[x][i] + Ordered((T \ {p}) \ {x}, i)
  BY <1>6
<1> QED BY <1>2, <1>8, <1>9, <1>10

(***************************************************************************)
(* More requests ask for no less, and for as much if the others ask for    *)
(* none.                                                                   *)
(***************************************************************************)
LEMMA OrderedGrows ==
    ASSUME NEW S \in SUBSET Orders, IsFiniteSet(S), NEW i, Amounts(i),
           NEW T \in SUBSET S
    PROVE  /\ Ordered(T, i) <= Ordered(S, i)
           /\ (\A o \in S \ T : content[o][i] = 0) => Ordered(T, i) = Ordered(S, i)
<1> DEFINE Good(s) ==
        /\ Ordered(T, i) <= Ordered(s, i)
        /\ (\A o \in s \ T : content[o][i] = 0) => Ordered(T, i) = Ordered(s, i)
<1> DEFINE B == {s \in SUBSET S : T \subseteq s /\ ~Good(s)}
<1> SUFFICES ASSUME B # {} PROVE FALSE
    OBVIOUS
<1>1. PICK U \in B : \A s \in B : s \subseteq U => s = U
  <2>1. B \subseteq SUBSET S
    OBVIOUS
  <2> HIDE DEF B
  <2> QED BY <2>1, Smallest
<1>2. Ordered(T, i) \in Nat /\ Ordered(U, i) \in Nat
  BY <1>1, FS_Subset, OrderedIsNat
<1>3. U # T
  BY <1>1, <1>2
<1>4. PICK o \in U : o \notin T
  BY <1>1, <1>3
<1>5. Good(U \ {o})
  BY <1>1, <1>4
<1>6. Ordered(U, i) = content[o][i] + Ordered(U \ {o}, i)
  <2>1. U \in SUBSET Orders /\ IsFiniteSet(U)
    BY <1>1, FS_Subset
  <2> QED BY <2>1, OrderedRemoves
<1>7. content[o][i] \in Nat /\ Ordered(U \ {o}, i) \in Nat
  <2>1. U \ {o} \in SUBSET S /\ U \ {o} \in SUBSET Orders /\ IsFiniteSet(U \ {o})
    BY <1>1, FS_Subset
  <2> QED BY <1>1, <2>1, OrderedIsNat DEF Amounts
<1>8. Good(U)
  BY <1>2, <1>4, <1>5, <1>6, <1>7
<1> QED BY <1>1, <1>8

(***************************************************************************)
(* The sums unfold in the next state too.                                  *)
(***************************************************************************)
SumsUnfold == \A S, i : IsFiniteSet(S) => Unfolds(S, i)

LEMMA UnfoldsThen == SumsUnfold /\ SumsUnfold'
<1>1. SumsUnfold
  BY OrderedUnfolds DEF SumsUnfold
<1> QED BY <1>1, PTL

(***************************************************************************)
(* The sum depends on nothing but the quantities of its requests.          *)
(***************************************************************************)
LEMMA OrderedSame ==
    ASSUME NEW S, IsFiniteSet(S), NEW i,
           \A o \in S : content'[o][i] = content[o][i]
    PROVE  Ordered(S, i)' = Ordered(S, i)
<1> DEFINE B == {s \in SUBSET S : Ordered(s, i)' # Ordered(s, i)}
<1> SUFFICES ASSUME B # {} PROVE FALSE
    OBVIOUS
<1>1. PICK T \in B : \A U \in B : U \subseteq T => U = T
  <2>1. B \subseteq SUBSET S
    OBVIOUS
  <2> HIDE DEF B
  <2> QED BY <2>1, Smallest
<1>2. IsFiniteSet(T)
  BY <1>1, FS_Subset
<1>3. Unfolds(T, i) /\ Unfolds(T, i)'
  BY <1>2, UnfoldsThen DEF SumsUnfold
<1>4. T # {} => Pick(T) \in T
  BY DEF Pick
<1>5. T # {} => Ordered(T \ {Pick(T)}, i)' = Ordered(T \ {Pick(T)}, i)
  BY <1>1, <1>4
<1> QED BY <1>1, <1>3, <1>4, <1>5 DEF Unfolds

-----------------------------------------------------------------------------
(***************************************************************************)
(* Quantities are natural numbers.                                         *)
(***************************************************************************)
LEMMA Quantities ==
    ASSUME TypeOK
    PROVE  content \in [Orders -> [Items -> Nat]]
<1>1. Contents \subseteq [Items -> Nat] /\ [i \in Items |-> 0] \in [Items -> Nat]
  BY QtysAssumption DEF Contents
<1> QED BY <1>1 DEF TypeOK

(***************************************************************************)
(* Types, at first and after every step.                                   *)
(***************************************************************************)
LEMMA PostTypeInit == Init => TypeOK
<1> SUFFICES ASSUME Init PROVE TypeOK
    OBVIOUS
<1>1. (CHOOSE z \in Zones : TRUE) \in Zones
  BY ZonesAssumption
<1>2. zone \in [Orders -> Zones]
  BY <1>1 DEF Init
<1>3. content \in [Orders -> Contents \cup {[i \in Items |-> 0]}]
  BY DEF Init
<1> QED BY <1>2, <1>3, MaxOrdersAssumption DEF Init, TypeOK, Stages

LEMMA PostTypeStep == PInv /\ TypeOK /\ [Next]_vars => TypeOK'
<1> SUFFICES ASSUME PInv, TypeOK, [Next]_vars PROVE TypeOK'
    OBVIOUS
<1>1. ASSUME NEW c \in Clients, NEW q \in Contents, OpenCheckout(c, q) PROVE TypeOK'
  BY <1>1, MaxOrdersAssumption DEF OpenCheckout, TypeOK, Stages, database, Orders
<1>2. ASSUME NEW c \in Clients, DismissCheckout(c) PROVE TypeOK'
  BY <1>2 DEF DismissCheckout, TypeOK, Stages, database
<1>3. ASSUME NEW c \in Clients, clickedSend(c) PROVE TypeOK'
  BY <1>3 DEF clickedSend, TypeOK, Stages, database, checkout
<1>4. ASSUME NEW c \in Clients, NEW z \in Zones, ZoneFound(c, z) PROVE TypeOK'
  <2>1. Order(c) \in Orders
    BY <1>4 DEF PInv, Types, ZoneFound
  <2>2. net' \subseteq Writes
    BY <1>4, <2>1 DEF ZoneFound, TypeOK, Writes
  <2> QED BY <1>4, <2>1, <2>2 DEF ZoneFound, TypeOK, Stages, database, checkout
<1>5. ASSUME NEW c \in Clients, ZoneMissing(c) \/ ZoneRefused(c) PROVE TypeOK'
  BY <1>5 DEF ZoneMissing, ZoneRefused, TypeOK, Stages, database, checkout
<1>6. ASSUME NEW c \in Clients, StoreAnswered(c) PROVE TypeOK'
  <2>1. Order(c) \in Orders
    BY <1>6 DEF PInv, Types, StoreAnswered
  <2>2. [kind |-> "link", order |-> Order(c)] \in Writes
    BY <2>1 DEF Writes
  <2> QED BY <1>6, <2>2 DEF StoreAnswered, TypeOK, Stages, database, checkout
<1>7. ASSUME NEW c \in Clients, LinkAnswered(c) PROVE TypeOK'
  <2>1. Order(c) \in Orders
    BY <1>7 DEF PInv, Types, LinkAnswered
  <2>2. updateCounters(Order(c)) \subseteq Transactions
    BY <2>1 DEF updateCounters, Transactions
  <2> QED BY <1>7, <2>1, <2>2 DEF LinkAnswered, TypeOK, Stages, database, checkout
<1>8. ASSUME NEW c \in Clients, returnToMain(c) PROVE TypeOK'
  BY <1>8 DEF returnToMain, TypeOK, Stages, database
<1>9. ASSUME NEW c \in Clients, LoseSession(c) PROVE TypeOK'
  BY <1>9 DEF LoseSession, TypeOK, database, checkout
<1>10. ASSUME NEW c \in Clients, Kill(c) PROVE TypeOK'
  <2>1. \A t \in transactions : t.order \in Orders
    BY DEF TypeOK, Transactions
  <2>2. stage[c] = "linking" => Order(c) \in Orders
    BY DEF PInv, Types
  <2>3. lost' \subseteq Orders
    BY <1>10, <2>1, <2>2 DEF Kill, TypeOK
  <2>4. net' \subseteq Writes /\ acks' \subseteq Answers /\ transactions' \subseteq Transactions
    BY <1>10 DEF Kill, TypeOK
  <2> QED BY <1>10, <2>3, <2>4 DEF Kill, TypeOK, Stages, database
<1>11. ASSUME NEW w \in net, ServerStep(w) \/ ApplyAnswerLost(w) PROVE TypeOK'
  <2>1. w \in Writes /\ w.order \in Orders
    BY DEF TypeOK, Writes
  <2>2. /\ stored' \subseteq Orders /\ linked' \subseteq Orders
        /\ resent' \subseteq Writes /\ net' \subseteq Writes
    BY <1>11, <2>1 DEF ServerStep, ApplyWrite, RefuseWrite, ApplyAnswerLost, Apply,
       Answer, TypeOK
  <2>3. \A ok \in BOOLEAN : [kind |-> w.kind, order |-> w.order, ok |-> ok] \in Answers
    BY <2>1 DEF Writes, Answers
  <2>4. acks' \subseteq Answers
    BY <1>11, <2>3 DEF ServerStep, ApplyWrite, RefuseWrite, ApplyAnswerLost, Answer, TypeOK
  <2>5. UNCHANGED <<stage, checkout, signedIn, zone, transactions, stock,
                    requested, zoneCount, begun, lost>>
    BY <1>11 DEF ServerStep, ApplyWrite, RefuseWrite, ApplyAnswerLost, Answer
  <2> QED BY <2>2, <2>4, <2>5 DEF TypeOK, checkout
<1>12. ASSUME NEW t \in transactions, Commit(t) PROVE TypeOK'
  <2>1. t.order \in Orders /\ t.item \in Items
    BY DEF TypeOK, Transactions
  <2>2. content[t.order][t.item] \in Nat /\ zone[t.order] \in Zones
    BY <2>1, Quantities DEF TypeOK
  <2>3. stock' \in [Items -> Int] /\ requested' \in [Items -> Int]
    BY <1>12, <2>1, <2>2 DEF Commit, Undone, TypeOK
  <2>4. zoneCount' \in [Zones -> [Items -> Int]]
    <3>1. CASE zoneCount' = zoneCount
      BY <3>1 DEF TypeOK
    <3>2. CASE zoneCount' # zoneCount
      <4>1. PICK y, j : y = zone[t.order] /\ j = t.item
        OBVIOUS
      <4>2. PICK e \in Int : zoneCount' = [zoneCount EXCEPT ![y][j] =
                                             @ - e + content[t.order][t.item]]
        BY <1>12, <3>2, <4>1 DEF Commit, Undone
      <4> QED BY <2>1, <2>2, <4>1, <4>2 DEF TypeOK
    <3> QED BY <3>1, <3>2
  <2> QED BY <1>12, <2>3, <2>4 DEF Commit, TypeOK, checkout
<1>13. ASSUME NEW t \in transactions, LoseTransaction(t) PROVE TypeOK'
  <2>1. t.order \in Orders
    BY DEF TypeOK, Transactions
  <2> QED BY <1>13, <2>1 DEF LoseTransaction, TypeOK, checkout, database
<1>14. CASE UNCHANGED vars
  BY <1>14 DEF vars, TypeOK
<1> QED BY <1>1, <1>2, <1>3, <1>4, <1>5, <1>6, <1>7, <1>8, <1>9, <1>10, <1>11,
           <1>12, <1>13, <1>14 DEF Next, PostStep

-----------------------------------------------------------------------------
\* The link of o is on its way, or its answer, and the client waits for it.
Awaiting(o) == o[2] = count[o[1]] /\ stage[o[1]] = "linking"

\* The counting of o has begun, if it ever does: no answer can begin it again.
Begun(o) ==
    /\ o[2] <= count[o[1]]
    /\ o[2] = count[o[1]] => stage[o[1]] \in {"main", "success"}

Pending(k, o, i) == [counter |-> k, order |-> o, item |-> i] \in transactions

(***************************************************************************)
(* S are the requests that counter k has counted for item i: each once,    *)
(* and every linked one that needs it, but for those cut off, still out or *)
(* not yet begun.                                                          *)
(***************************************************************************)
Counts(k, i, S) ==
    /\ S \subseteq linked
    /\ \A o \in S : ~Pending(k, o, i) /\ Begun(o)
    /\ \A o \in linked \ S :
        o \in lost \/ content[o][i] = 0 \/ Pending(k, o, i) \/ Awaiting(o)

(***************************************************************************)
(* A counter that stands at n has counted S: no more than S asks for, and  *)
(* as much, unless a client has repeated an item among L.                  *)
(***************************************************************************)
Stands(n, S, L, i) ==
    /\ n \in Nat
    /\ n <= Ordered(S, i)
    /\ n = Ordered(S, i) \/ Repeats(L, i)

In(S, z) == {o \in S : zone[o] = z}

RequestedCounts ==
    \A i \in Items : \E S : /\ Counts("requested", i, S)
                            /\ Stands(requested[i], S, linked, i)

StockCounts ==
    \A i \in Items : \E S : /\ Counts("stock", i, S)
                            /\ Stands(-stock[i], S, linked, i)

ZoneCounts ==
    \A i \in Items : \E S :
        /\ Counts("zone", i, S)
        /\ \A z \in Zones : Stands(zoneCount[z][i], In(S, z), In(linked, z), i)

TransactionsSound ==
    \A t \in transactions :
        /\ t.order \in linked /\ Begun(t.order)
        /\ content[t.order][t.item] > 0

LinksAwaited ==
    \A o \in Orders : LinkOf(o) \in net => Awaiting(o) \/ o \in lost

\* The inductive invariant of the counters.
CInv ==
    /\ TypeOK
    /\ IsFiniteSet(linked)
    /\ TransactionsSound /\ LinksAwaited
    /\ begun \subseteq linked
    /\ RequestedCounts /\ StockCounts /\ ZoneCounts

(***************************************************************************)
(* What any step but a commit does to the requests that are being counted. *)
(***************************************************************************)
KeepsCounting ==
    /\ linked \subseteq linked' /\ IsFiniteSet(linked')
    /\ lost \subseteq lost'
    /\ stock' = stock /\ requested' = requested /\ zoneCount' = zoneCount
    /\ \A o \in linked : content'[o] = content[o] /\ zone'[o] = zone[o]
    /\ \A o \in linked : Begun(o) => Begun(o)'
    /\ \A o \in linked : Awaiting(o) =>
        \/ Awaiting(o)' \/ o \in lost'
        \/ \A k \in Counters, i \in Items : content[o][i] = 0 \/ Pending(k, o, i)'
    /\ \A o \in linked' \ linked : Awaiting(o)' \/ o \in lost'
    /\ \A t \in transactions : t \in transactions' \/ t.order \in lost'
    /\ \A t \in transactions' \ transactions : ~Begun(t.order)

(***************************************************************************)
(* Such a step keeps what is said of a counter.                            *)
(***************************************************************************)
LEMMA CountsHolds ==
    ASSUME KeepsCounting, NEW k \in Counters, NEW i \in Items, NEW S,
           Counts(k, i, S)
    PROVE  Counts(k, i, S)'
<1>1. S \subseteq linked'
  BY DEF KeepsCounting, Counts
<1>2. ASSUME NEW o \in S PROVE ~Pending(k, o, i)' /\ Begun(o)'
  <2>1. o \in linked /\ Begun(o) /\ ~Pending(k, o, i)
    BY DEF Counts
  <2> DEFINE t == [counter |-> k, order |-> o, item |-> i]
  <2>2. t.order = o
    OBVIOUS
  <2> HIDE DEF t
  <2>3. t \notin transactions' \ transactions
    BY <2>1, <2>2 DEF KeepsCounting
  <2> QED BY <2>1, <2>3 DEF KeepsCounting, Pending, t
<1>3. ASSUME NEW o \in linked' \ S
      PROVE  (o \in lost \/ content[o][i] = 0 \/ Pending(k, o, i) \/ Awaiting(o))'
  <2>1. CASE o \notin linked
    BY <2>1 DEF KeepsCounting
  <2>2. CASE o \in linked /\ Pending(k, o, i)
    <3> DEFINE t == [counter |-> k, order |-> o, item |-> i]
    <3>1. t.order = o /\ t \in transactions
      BY <2>2 DEF Pending
    <3> HIDE DEF t
    <3>2. t \in transactions' \/ o \in lost'
      BY <3>1 DEF KeepsCounting
    <3> QED BY <3>2 DEF Pending, t
  <2>3. CASE o \in linked /\ Awaiting(o)
    BY <2>3 DEF KeepsCounting
  <2>4. CASE o \in linked /\ (o \in lost \/ content[o][i] = 0)
    BY <2>4 DEF KeepsCounting
  <2> QED BY <2>1, <2>2, <2>3, <2>4 DEF Counts
<1> QED BY <1>1, <1>2, <1>3 DEF Counts

(***************************************************************************)
(* So it keeps the counters' invariant, as the sums are the same.          *)
(***************************************************************************)
LEMMA KeptCountsHold ==
    ASSUME CInv, KeepsCounting
    PROVE  RequestedCounts' /\ StockCounts' /\ ZoneCounts'
<1>1. ASSUME NEW S, S \subseteq linked, NEW i
      PROVE  Ordered(S, i)' = Ordered(S, i)
  <2>1. IsFiniteSet(S)
    BY <1>1, FS_Subset DEF CInv
  <2>2. \A o \in S : content'[o][i] = content[o][i]
    BY <1>1 DEF KeepsCounting
  <2> QED BY <2>1, <2>2, OrderedSame
<1>2. stock' = stock /\ requested' = requested /\ zoneCount' = zoneCount
  BY DEF KeepsCounting
<1>6. ASSUME NEW L, L \subseteq linked, NEW M, L \subseteq M, NEW i, Repeats(L, i)
      PROVE  Repeats(M, i)'
  BY <1>6 DEF KeepsCounting, Repeats
<1>7. \A i : Repeats(linked, i) => Repeats(linked, i)'
  <2> SUFFICES ASSUME NEW i, Repeats(linked, i) PROVE Repeats(linked, i)'
    OBVIOUS
  <2>1. PICK L, M : L = linked /\ M = linked'
    OBVIOUS
  <2>2. Repeats(M, i)'
    BY <1>6, <2>1 DEF KeepsCounting
  <2> QED BY <2>1, <2>2 DEF Repeats
<1>3. ASSUME NEW i \in Items
      PROVE  \E S : Counts("requested", i, S)' /\ Stands(requested[i], S, linked, i)'
  <2>1. PICK S : Counts("requested", i, S) /\ Stands(requested[i], S, linked, i)
    BY DEF CInv, RequestedCounts
  <2>2. Counts("requested", i, S)'
    BY <2>1, CountsHolds DEF Counters
  <2>3. Ordered(S, i)' = Ordered(S, i)
    BY <1>1, <2>1 DEF Counts
  <2> QED BY <1>2, <1>7, <2>1, <2>2, <2>3 DEF Stands
<1>4. ASSUME NEW i \in Items
      PROVE  \E S : Counts("stock", i, S)' /\ Stands(-stock[i], S, linked, i)'
  <2>1. PICK S : Counts("stock", i, S) /\ Stands(-stock[i], S, linked, i)
    BY DEF CInv, StockCounts
  <2>2. Counts("stock", i, S)'
    BY <2>1, CountsHolds DEF Counters
  <2>3. Ordered(S, i)' = Ordered(S, i)
    BY <1>1, <2>1 DEF Counts
  <2> QED BY <1>2, <1>7, <2>1, <2>2, <2>3 DEF Stands
<1>5. ASSUME NEW i \in Items
      PROVE  \E S : /\ Counts("zone", i, S)'
                    /\ \A z \in Zones :
                        Stands(zoneCount[z][i], In(S, z), In(linked, z), i)'
  <2>1. PICK S :
          /\ Counts("zone", i, S)
          /\ \A z \in Zones : Stands(zoneCount[z][i], In(S, z), In(linked, z), i)
    BY DEF CInv, ZoneCounts
  <2>2. Counts("zone", i, S)'
    BY <2>1, CountsHolds DEF Counters
  <2>3. ASSUME NEW z \in Zones
        PROVE  Stands(zoneCount[z][i], In(S, z), In(linked, z), i)'
    <3>1. PICK T, L, M : T = In(S, z) /\ L = In(linked, z) /\ M = In(linked, z)'
      OBVIOUS
    <3>2. /\ T = In(S, z)' /\ T \subseteq linked
          /\ L \subseteq linked /\ L \subseteq M
      BY <2>1, <3>1 DEF Counts, KeepsCounting, In
    <3>3. Ordered(T, i)' = Ordered(T, i)
      BY <1>1, <3>2
    <3>4. Repeats(L, i) => Repeats(M, i)'
      BY <1>6, <3>2
    <3>5. Stands(zoneCount[z][i], T, L, i)
      BY <2>1, <3>1
    <3>6. Stands(zoneCount[z][i], T, M, i)'
      BY <1>2, <3>3, <3>4, <3>5 DEF Stands
    <3> QED BY <3>1, <3>2, <3>6
  <2> QED BY <2>2, <2>3
<1> QED BY <1>3, <1>4, <1>5 DEF RequestedCounts, StockCounts, ZoneCounts

(***************************************************************************)
(* What is left to show of a step: that it goes on counting, and that the  *)
(* transactions and links that are out stand for something.                *)
(***************************************************************************)
Steady ==
    /\ KeepsCounting
    /\ TransactionsSound' /\ LinksAwaited'
    /\ (begun \subseteq linked)'

(***************************************************************************)
(* A new request has not been linked, so its content is in no sum.         *)
(***************************************************************************)
LEMMA OpenSteady ==
    ASSUME PInv, CInv, NEW c \in Clients, NEW q, OpenCheckout(c, q)
    PROVE  Steady
<1> DEFINE p == <<c, count[c] + 1>>
<1>1. /\ net' = net /\ linked' = linked /\ lost' = lost /\ zone' = zone
      /\ transactions' = transactions /\ begun' = begun
      /\ stock' = stock /\ requested' = requested /\ zoneCount' = zoneCount
      /\ content' = [content EXCEPT ![p] = q]
      /\ stage[c] = "main"
  BY DEF OpenCheckout, database
<1>2. /\ \A d \in Clients : count'[d] = IF d = c THEN count[c] + 1 ELSE count[d]
      /\ \A d \in Clients : stage'[d] = IF d = c THEN "review" ELSE stage[d]
      /\ \A d \in Clients : count[d] \in Nat
  BY DEF PInv, Types, OpenCheckout
<1>3. p \notin linked
  <2>1. p \in Orders
    BY <1>2, MaxOrdersAssumption DEF OpenCheckout, Orders
  <2>2. p[1] = c /\ p[2] = count[c] + 1 /\ p[2] > count[p[1]]
    BY <1>2
  <2> QED BY <2>1, <2>2 DEF PInv, Unopened, Unsent
<1>4. \A o \in linked : content'[o] = content[o]
  BY <1>1, <1>3 DEF CInv, TypeOK
<1>5. \A o \in Orders : o[1] \in Clients /\ o[2] \in Nat
  BY DEF Orders
<1>6. \A o \in Orders : /\ Begun(o) => Begun(o)'
                        /\ Awaiting(o) => Awaiting(o)'
  BY <1>1, <1>2, <1>5 DEF Begun, Awaiting
<1>7. linked \subseteq Orders
  BY DEF CInv, TypeOK
<1>8. KeepsCounting
  BY <1>1, <1>4, <1>6, <1>7 DEF KeepsCounting, CInv
<1>9. TransactionsSound' /\ LinksAwaited'
  BY <1>1, <1>4, <1>6, <1>7 DEF CInv, TransactionsSound, LinksAwaited
<1> QED BY <1>1, <1>8, <1>9 DEF Steady, CInv

(***************************************************************************)
(* A step of a client that is not waiting for the answer to its link.      *)
(***************************************************************************)
LEMMA MoveSteady ==
    ASSUME PInv, CInv, NEW c \in Clients,
           count' = count, linked' = linked, lost' = lost,
           transactions' = transactions, begun' = begun,
           stock' = stock, requested' = requested, zoneCount' = zoneCount,
           content' = content,
           \A o \in linked : zone'[o] = zone[o],
           \A d \in Clients \ {c} : stage'[d] = stage[d],
           stage[c] # "linking",
           stage[c] \in {"main", "success"} => stage'[c] \in {"main", "success"},
           \A o \in Orders : LinkOf(o) \in net' =>
               LinkOf(o) \in net \/ (o = Order(c) /\ stage'[c] = "linking")
    PROVE  Steady
<1>1. \A o \in Orders : o[1] \in Clients
  BY DEF Orders
<1>2. \A o \in Orders : /\ Begun(o) => Begun(o)'
                        /\ Awaiting(o) => Awaiting(o)'
  BY <1>1 DEF Begun, Awaiting
<1>3. linked \subseteq Orders
  BY DEF CInv, TypeOK
<1>4. KeepsCounting
  BY <1>2, <1>3 DEF KeepsCounting, CInv
<1>5. TransactionsSound'
  BY <1>2, <1>3 DEF CInv, TransactionsSound
<1>6. LinksAwaited'
  BY <1>2 DEF CInv, LinksAwaited, Awaiting, Order
<1> QED BY <1>4, <1>5, <1>6 DEF Steady, CInv

(***************************************************************************)
(* Steps of the screens.                                                   *)
(***************************************************************************)
LEMMA ReviewSteady ==
    ASSUME PInv, CInv, NEW c \in Clients,
           \/ DismissCheckout(c) \/ clickedSend(c) \/ ZoneMissing(c)
           \/ ZoneRefused(c) \/ returnToMain(c) \/ LoseSession(c)
    PROVE  Steady
<1>1. /\ count' = count /\ linked' = linked /\ lost' = lost
      /\ transactions' = transactions /\ content' = content /\ zone' = zone
      /\ stock' = stock /\ requested' = requested /\ zoneCount' = zoneCount
      /\ net' = net /\ begun' = begun
  BY DEF DismissCheckout, clickedSend, ZoneMissing, ZoneRefused, returnToMain,
     LoseSession, checkout, database
<1>2. /\ \A d \in Clients \ {c} : stage'[d] = stage[d]
      /\ stage[c] # "linking"
      /\ stage[c] \in {"main", "success"} => stage'[c] \in {"main", "success"}
  BY DEF DismissCheckout, clickedSend, ZoneMissing, ZoneRefused, returnToMain,
     LoseSession, PInv, Types
<1> QED BY <1>1, <1>2, MoveSteady

(***************************************************************************)
(* The zone is set while nothing has linked the request: it is in no sum.  *)
(***************************************************************************)
LEMMA ZoneFoundSteady ==
    ASSUME PInv, CInv, NEW c \in Clients, NEW z, ZoneFound(c, z)
    PROVE  Steady
<1>1. /\ count' = count /\ linked' = linked /\ lost' = lost
      /\ transactions' = transactions /\ content' = content /\ begun' = begun
      /\ stock' = stock /\ requested' = requested /\ zoneCount' = zoneCount
  BY DEF ZoneFound, checkout, database
<1>2. /\ stage[c] = "zone"
      /\ \A d \in Clients \ {c} : stage'[d] = stage[d]
  BY DEF ZoneFound, PInv, Types
<1>3. Order(c) \notin linked
  BY <1>2 DEF PInv, Fresh, Unsent
<1>4. \A o \in linked : zone'[o] = zone[o]
  BY <1>3 DEF ZoneFound, CInv, TypeOK
<1>5. \A o \in Orders : LinkOf(o) \in net' => LinkOf(o) \in net
  BY DEF ZoneFound, LinkOf
<1> QED BY <1>1, <1>2, <1>4, <1>5, MoveSteady

(***************************************************************************)
(* The link is written and the client waits for its answer.                *)
(***************************************************************************)
LEMMA StoreAnsweredSteady ==
    ASSUME PInv, CInv, NEW c \in Clients, StoreAnswered(c)
    PROVE  Steady
<1>1. PICK a \in acks :
        /\ stage[c] = "storing"
        /\ stage' = [stage EXCEPT ![c] = IF a.ok THEN "linking" ELSE "failure"]
        /\ net' = IF a.ok THEN net \cup {LinkOf(Order(c))} ELSE net
  BY DEF StoreAnswered, LinkOf
<1>2. /\ count' = count /\ linked' = linked /\ lost' = lost
      /\ transactions' = transactions /\ content' = content /\ zone' = zone
      /\ stock' = stock /\ requested' = requested /\ zoneCount' = zoneCount
      /\ begun' = begun
  BY DEF StoreAnswered, checkout, database
<1>3. /\ \A d \in Clients \ {c} : stage'[d] = stage[d]
      /\ a.ok => stage'[c] = "linking"
  BY <1>1 DEF PInv, Types
<1>4. \A o \in Orders : LinkOf(o) \in net' =>
          LinkOf(o) \in net \/ (o = Order(c) /\ stage'[c] = "linking")
  <2>1. \A o, p : LinkOf(o) = LinkOf(p) => o = p
    BY DEF LinkOf
  <2> QED BY <1>1, <1>3, <2>1
<1> QED BY <1>1, <1>2, <1>3, <1>4, MoveSteady

(***************************************************************************)
(* The server applies or refuses a write: what it links is awaited, or the *)
(* client has been killed and will never count it.                         *)
(***************************************************************************)
LEMMA ServerSteady ==
    ASSUME PInv, CInv, NEW w \in net, ServerStep(w) \/ ApplyAnswerLost(w)
    PROVE  Steady
<1>1. /\ stage' = stage /\ count' = count /\ content' = content /\ zone' = zone
      /\ transactions' = transactions /\ lost' = lost
      /\ stock' = stock /\ requested' = requested /\ zoneCount' = zoneCount
      /\ net' \subseteq net /\ begun' = begun
      /\ linked' = linked \/ (w.kind = "link" /\ linked' = linked \cup {w.order})
  BY DEF ServerStep, ApplyWrite, RefuseWrite, ApplyAnswerLost, Apply, Answer, checkout
<1>2. w.kind = "link" => w = LinkOf(w.order) /\ w.order \in Orders
  BY LinkIsLinkOf DEF CInv, TypeOK
<1>3. w.kind = "link" => Awaiting(w.order) \/ w.order \in lost
  BY <1>2 DEF CInv, LinksAwaited
<1>4. \A o : (Begun(o) <=> Begun(o)') /\ (Awaiting(o) <=> Awaiting(o)')
  BY <1>1 DEF Begun, Awaiting
<1>5. IsFiniteSet(linked')
  BY <1>1, FS_AddElement DEF CInv
<1>6. KeepsCounting
  BY <1>1, <1>3, <1>4, <1>5 DEF KeepsCounting
<1>7. TransactionsSound' /\ LinksAwaited' /\ (begun \subseteq linked)'
  BY <1>1, <1>4 DEF CInv, TransactionsSound, LinksAwaited
<1> QED BY <1>6, <1>7 DEF Steady

(***************************************************************************)
(* The link is answered: its counting begins, here and never again, or the *)
(* request is left out for good.                                           *)
(***************************************************************************)
LEMMA LinkAnsweredSteady ==
    ASSUME PInv, CInv, NEW c \in Clients, LinkAnswered(c)
    PROVE  Steady
<1>1. PICK a \in acks :
        /\ a.order = Order(c) /\ a.kind = "link" /\ stage[c] = "linking"
        /\ stage' = [stage EXCEPT ![c] = IF a.ok THEN "success" ELSE "failure"]
        /\ transactions' = IF a.ok THEN transactions \cup updateCounters(Order(c))
                           ELSE transactions
        /\ begun' = IF a.ok THEN begun \cup {Order(c)} ELSE begun
        /\ lost' = IF a.ok THEN lost ELSE lost \cup ({Order(c)} \cap linked)
  BY DEF LinkAnswered
<1>2. /\ count' = count /\ linked' = linked /\ net' = net
      /\ content' = content /\ zone' = zone
      /\ stock' = stock /\ requested' = requested /\ zoneCount' = zoneCount
  BY DEF LinkAnswered, checkout, database
<1>3. /\ \A d \in Clients \ {c} : stage'[d] = stage[d]
      /\ stage'[c] = IF a.ok THEN "success" ELSE "failure"
  BY <1>1 DEF PInv, Types
<1>4. PICK p : p = Order(c)
  OBVIOUS
<1>5. LinkOf(p) \notin net /\ (a.ok => p \in linked)
  BY <1>1, <1>4 DEF PInv, AcksSound
<1>6. /\ p[1] = c /\ p[2] = count[c] /\ count[c] \in Nat
      /\ ~Begun(p)
  BY <1>1, <1>4 DEF Order, PInv, Types, Begun
<1>7. \A o \in Orders : o[1] \in Clients /\ o[2] \in Nat
  BY DEF Orders
<1>8. \A o \in Orders : o # p => /\ Begun(o) => Begun(o)'
                                 /\ Awaiting(o) => Awaiting(o)'
  <2>1. \A o \in Orders : o # p => o[1] # c \/ o[2] # count[c]
    BY <1>4 DEF Order, Orders
  <2> QED BY <1>2, <1>3, <1>7, <2>1 DEF Begun, Awaiting
<1>9. a.ok => Begun(p)'
  BY <1>2, <1>3, <1>6 DEF Begun
<1>10. \A k \in Counters, i \in Items :
          a.ok /\ p \in Orders => content[p][i] = 0 \/ Pending(k, p, i)'
  <2> SUFFICES ASSUME NEW k \in Counters, NEW i \in Items, a.ok, p \in Orders,
                      content[p][i] # 0
               PROVE  Pending(k, p, i)'
    OBVIOUS
  <2>1. content[p][i] > 0
    BY Quantities DEF CInv
  <2>2. [counter |-> k, order |-> p, item |-> i] \in updateCounters(p)
    BY <2>1 DEF updateCounters
  <2> QED BY <1>1, <1>4, <2>2 DEF Pending
<1>11. linked \subseteq Orders
  BY DEF CInv, TypeOK
<1>12. \A t \in transactions' \ transactions :
          a.ok /\ t.order = p /\ content[p][t.item] > 0
  BY <1>1, <1>4 DEF updateCounters
<1>13. lost \subseteq lost' /\ (~a.ok /\ p \in linked => p \in lost')
       /\ transactions \subseteq transactions'
  BY <1>1, <1>4
<1>14. KeepsCounting
  <2>1. \A o \in linked : Begun(o) => Begun(o)'
    BY <1>6, <1>8, <1>11
  <2>2. \A o \in linked : Awaiting(o) =>
        \/ Awaiting(o)' \/ o \in lost'
        \/ \A k \in Counters, i \in Items : content[o][i] = 0 \/ Pending(k, o, i)'
    BY <1>8, <1>10, <1>11, <1>13
  <2>3. IsFiniteSet(linked')
    BY <1>2 DEF CInv
  <2>4. \A t \in transactions' \ transactions : ~Begun(t.order)
    BY <1>6, <1>12
  <2> QED BY <1>2, <1>13, <2>1, <2>2, <2>3, <2>4 DEF KeepsCounting
<1>15. TransactionsSound'
  <2> SUFFICES ASSUME NEW t \in transactions'
               PROVE  /\ t.order \in linked /\ Begun(t.order)'
                      /\ content[t.order][t.item] > 0
    BY <1>2 DEF TransactionsSound
  <2>1. CASE t \in transactions
    BY <1>6, <1>8, <1>11, <2>1 DEF CInv, TransactionsSound
  <2>2. CASE t \notin transactions
    <3>1. a.ok /\ t.order = p /\ content[p][t.item] > 0
      BY <1>12, <2>2
    <3> QED BY <1>2, <1>5, <1>9, <3>1 DEF Begun
  <2> QED BY <2>1, <2>2
<1>16. LinksAwaited'
  BY <1>2, <1>5, <1>8, <1>13 DEF CInv, LinksAwaited
<1>17. (begun \subseteq linked)'
  BY <1>1, <1>2, <1>4, <1>5 DEF CInv
<1> QED BY <1>14, <1>15, <1>16, <1>17 DEF Steady

(***************************************************************************)
(* A transaction is given up, or the app killed: what it was to count is   *)
(* lost.                                                                   *)
(***************************************************************************)
LEMMA LostSteady ==
    ASSUME PInv, CInv, NEW t \in transactions, LoseTransaction(t)
    PROVE  Steady
<1>1. /\ stage' = stage /\ count' = count /\ content' = content /\ zone' = zone
      /\ transactions' = transactions \ {t} /\ lost' = lost \cup {t.order}
      /\ stock' = stock /\ requested' = requested /\ zoneCount' = zoneCount
      /\ net' = net /\ linked' = linked /\ begun' = begun
  BY DEF LoseTransaction, checkout, database
<1>2. \A o : (Begun(o) <=> Begun(o)') /\ (Awaiting(o) <=> Awaiting(o)')
  BY <1>1 DEF Begun, Awaiting
<1>3. KeepsCounting
  BY <1>1, <1>2 DEF KeepsCounting, CInv
<1>4. TransactionsSound' /\ LinksAwaited' /\ (begun \subseteq linked)'
  BY <1>1, <1>2 DEF CInv, TransactionsSound, LinksAwaited
<1> QED BY <1>3, <1>4 DEF Steady

(***************************************************************************)
(* A kill loses the transactions of the client and the link it waits for.  *)
(***************************************************************************)
LEMMA KillSteady ==
    ASSUME PInv, CInv, NEW c \in Clients, Kill(c)
    PROVE  Steady
<1>1. /\ count' = count /\ content' = content /\ zone' = zone
      /\ stock' = stock /\ requested' = requested /\ zoneCount' = zoneCount
      /\ net' \subseteq net /\ linked' = linked /\ begun' \subseteq begun
      /\ transactions' = {t \in transactions : t.order[1] # c}
      /\ \A t \in transactions : t.order[1] = c => t.order \in lost'
      /\ stage[c] = "linking" => Order(c) \in lost'
      /\ lost \subseteq lost'
  BY DEF Kill, database
<1>2. /\ \A d \in Clients \ {c} : stage'[d] = stage[d]
      /\ stage'[c] = "main"
  BY DEF PInv, Types, Kill
<1>3. \A o \in Orders : o[1] \in Clients /\ o = <<o[1], o[2]>>
  BY DEF Orders
<1>4. \A o \in Orders : /\ Begun(o) => Begun(o)'
                        /\ Awaiting(o) => Awaiting(o)' \/ o \in lost'
  BY <1>1, <1>2, <1>3 DEF Begun, Awaiting, Order
<1>5. linked \subseteq Orders
  BY DEF CInv, TypeOK
<1>6. KeepsCounting
  <2>1. IsFiniteSet(linked')
    BY <1>1 DEF CInv
  <2> QED BY <1>1, <1>4, <1>5, <2>1 DEF KeepsCounting
<1>7. TransactionsSound' /\ LinksAwaited' /\ (begun \subseteq linked)'
  BY <1>1, <1>4, <1>5 DEF CInv, TransactionsSound, LinksAwaited
<1> QED BY <1>6, <1>7 DEF Steady

(***************************************************************************)
(* Counting one more request.                                              *)
(***************************************************************************)
LEMMA OrderedAdds ==
    ASSUME CInv, NEW S, S \subseteq linked, NEW i \in Items,
           NEW o \in linked \ S
    PROVE  /\ Ordered(S \cup {o}, i) = Ordered(S, i) + content[o][i]
           /\ Ordered(S, i) \in Nat /\ content[o][i] \in Nat
<1>1. S \in SUBSET Orders /\ S \cup {o} \in SUBSET Orders /\ o \in Orders
  BY DEF CInv, TypeOK
<1>2. IsFiniteSet(S) /\ IsFiniteSet(S \cup {o})
  BY FS_Subset, FS_AddElement DEF CInv
<1>3. Amounts(i)
  BY Quantities DEF CInv, Amounts
<1>4. Ordered(S \cup {o}, i) = content[o][i] + Ordered((S \cup {o}) \ {o}, i)
  BY <1>1, <1>2, <1>3, OrderedRemoves
<1>5. (S \cup {o}) \ {o} = S
  OBVIOUS
<1>6. Ordered(S, i) \in Nat
  BY <1>1, <1>2, <1>3, OrderedIsNat
<1>7. content[o][i] \in Nat
  BY <1>1, <1>3 DEF Amounts
<1>8. Ordered(S \cup {o}, i) = content[o][i] + Ordered(S, i)
  BY <1>4, <1>5
<1> QED BY <1>6, <1>7, <1>8

(***************************************************************************)
(* A transaction that commits has counted its request for its counter and  *)
(* item, and changes nothing for the others.                               *)
(***************************************************************************)
LEMMA CommitCounts ==
    ASSUME CInv, NEW t \in transactions, Commit(t),
           NEW k \in Counters, NEW i \in Items, NEW S, Counts(k, i, S)
    PROVE  IF k = t.counter /\ i = t.item
           THEN t.order \in linked \ S /\ Counts(k, i, S \cup {t.order})'
           ELSE Counts(k, i, S)'
<1>1. /\ stage' = stage /\ count' = count /\ content' = content
      /\ linked' = linked /\ lost' = lost
      /\ transactions' = transactions \ {t}
  BY DEF Commit, checkout
<1>2. \A o : (Begun(o) <=> Begun(o)') /\ (Awaiting(o) <=> Awaiting(o)')
  BY <1>1 DEF Begun, Awaiting
<1>3. t.order \in linked /\ Begun(t.order)
  BY DEF CInv, TransactionsSound
<1>4. t = [counter |-> t.counter, order |-> t.order, item |-> t.item]
  BY DEF CInv, TypeOK, Transactions
<1>5. \A o : Pending(k, o, i)' <=> /\ Pending(k, o, i)
                                   /\ ~(k = t.counter /\ o = t.order /\ i = t.item)
  BY <1>1, <1>4 DEF Pending
<1>6. CASE k = t.counter /\ i = t.item
  <2>1. t.order \notin S
    BY <1>4, <1>6 DEF Counts, Pending
  <2>2. PICK T : T = S \cup {t.order}
    OBVIOUS
  <2>3. T \subseteq linked'
    BY <1>1, <1>3, <2>2 DEF Counts
  <2>4. \A o \in T : ~Pending(k, o, i)' /\ Begun(o)'
    BY <1>2, <1>3, <1>5, <1>6, <2>2 DEF Counts
  <2>5. \A o \in linked' \ T :
          (o \in lost \/ content[o][i] = 0 \/ Pending(k, o, i) \/ Awaiting(o))'
    BY <1>1, <1>2, <1>5, <2>2 DEF Counts
  <2>6. Counts(k, i, T)'
    BY <2>3, <2>4, <2>5 DEF Counts
  <2> QED BY <1>3, <1>6, <2>1, <2>2, <2>6
<1>7. CASE ~(k = t.counter /\ i = t.item)
  <2>1. \A o : Pending(k, o, i)' <=> Pending(k, o, i)
    BY <1>5, <1>7
  <2>2. \A o \in S : ~Pending(k, o, i)' /\ Begun(o)'
    BY <1>2, <2>1 DEF Counts
  <2>3. \A o \in linked' \ S :
          (o \in lost \/ content[o][i] = 0 \/ Pending(k, o, i) \/ Awaiting(o))'
    BY <1>1, <1>2, <2>1 DEF Counts
  <2>4. Counts(k, i, S)'
    BY <1>1, <2>2, <2>3 DEF Counts
  <2> QED BY <1>7, <2>4
<1> QED BY <1>6, <1>7

(***************************************************************************)
(* Counting one more request, where a part of the count may be undone.     *)
(***************************************************************************)
LEMMA StandsAdds ==
    ASSUME CInv, NEW S, S \subseteq linked, NEW i \in Items, NEW o \in linked \ S,
           NEW L, NEW n, Stands(n, S, L, i),
           NEW e \in 0..n, e > 0 => Repeats(L, i)
    PROVE  Stands(n - e + content[o][i], S \cup {o}, L, i)
<1>1. /\ Ordered(S \cup {o}, i) = Ordered(S, i) + content[o][i]
      /\ Ordered(S, i) \in Nat /\ content[o][i] \in Nat
  BY OrderedAdds
<1>2. n \in Nat /\ n <= Ordered(S, i) /\ (n = Ordered(S, i) \/ Repeats(L, i))
  BY DEF Stands
<1>3. n - e + content[o][i] \in Nat /\ n - e + content[o][i] <= Ordered(S \cup {o}, i)
  BY <1>1, <1>2
<1>4. CASE e = 0 /\ n = Ordered(S, i)
  BY <1>1, <1>3, <1>4 DEF Stands
<1>5. CASE ~(e = 0 /\ n = Ordered(S, i))
  <2>1. Repeats(L, i)
    BY <1>2, <1>5
  <2> QED BY <1>3, <2>1 DEF Stands
<1> QED BY <1>4, <1>5

(***************************************************************************)
(* What a transaction may undo something for, it repeats.                  *)
(***************************************************************************)
LEMMA EarlierRepeats ==
    ASSUME CInv, NEW t \in transactions, NEW q \in Earlier(t.order, t.item),
           NEW L, q \in L, t.order \in L
    PROVE  Repeats(L, t.item)
<1>1. q[1] = t.order[1] /\ q[2] < t.order[2] /\ content[q][t.item] > 0
  BY DEF Earlier
<1>2. content[t.order][t.item] > 0 /\ t.order[2] \in Nat
  BY DEF CInv, TransactionsSound, TypeOK, Transactions, Orders
<1>3. q # t.order
  BY <1>1, <1>2
<1> QED BY <1>1, <1>2, <1>3 DEF Repeats

(***************************************************************************)
(* A commit adds the request's quantity to its counter, and the request to *)
(* those the counter has counted; the other counters stay.                 *)
(***************************************************************************)
LEMMA CommitHolds ==
    ASSUME CInv, NEW t \in transactions, Commit(t)
    PROVE  /\ IsFiniteSet(linked)' /\ TransactionsSound' /\ LinksAwaited'
           /\ (begun \subseteq linked)'
           /\ RequestedCounts' /\ StockCounts' /\ ZoneCounts'
<1>1. /\ stage' = stage /\ count' = count /\ content' = content /\ zone' = zone
      /\ linked' = linked /\ lost' = lost /\ net' = net /\ begun' = begun
      /\ transactions' = transactions \ {t}
  BY DEF Commit, checkout
<1>2. /\ IsFiniteSet(linked)' /\ TransactionsSound' /\ LinksAwaited'
      /\ (begun \subseteq linked)'
  BY <1>1 DEF CInv, TransactionsSound, LinksAwaited, Begun, Awaiting
<1>3. PICK p, j, k : p = t.order /\ j = t.item /\ k = t.counter
  OBVIOUS
<1>4. p \in Orders /\ j \in Items /\ k \in Counters
  BY <1>3 DEF CInv, TypeOK, Transactions
<1>5. ASSUME NEW S, S \subseteq linked, NEW i PROVE Ordered(S, i)' = Ordered(S, i)
  <2>1. IsFiniteSet(S)
    BY <1>5, FS_Subset DEF CInv
  <2> QED BY <1>1, <2>1, OrderedSame
<1>9. \A L, i : Repeats(L, i)' <=> Repeats(L, i)
  BY <1>1 DEF Repeats
<1>10. ASSUME NEW n, NEW S, S \subseteq linked, NEW L, NEW i, Stands(n, S, L, i)
       PROVE  Stands(n, S, L, i)'
  <2>1. Ordered(S, i)' = Ordered(S, i)
    BY <1>5, <1>10
  <2> QED BY <1>9, <1>10, <2>1 DEF Stands
<1>11. ASSUME NEW n, NEW S, S \subseteq linked, NEW i, Stands(n, S, linked, i)
       PROVE  Stands(n, S, linked, i)'
  <2>1. PICK L : L = linked
    OBVIOUS
  <2>2. Stands(n, S, L, i)'
    BY <1>10, <1>11, <2>1
  <2> QED BY <1>1, <2>1, <2>2
<1>6. ASSUME NEW i \in Items
      PROVE  \E S : Counts("requested", i, S)' /\ Stands(requested[i], S, linked, i)'
  <2>1. PICK S : Counts("requested", i, S) /\ Stands(requested[i], S, linked, i)
    BY DEF CInv, RequestedCounts
  <2>2. S \subseteq linked
    BY <2>1 DEF Counts
  <2>5. PICK m : m = requested'[i]
    OBVIOUS
  <2>3. CASE k = "requested" /\ i = j
    <3>1. PICK T : T = S \cup {p}
      OBVIOUS
    <3>2. p \in linked \ S /\ Counts("requested", i, T)'
      BY <1>3, <2>1, <2>3, <3>1, CommitCounts DEF Counters
    <3>3. PICK e \in Undone(requested[i], Earlier(p, i)) :
             requested'[i] = requested[i] - e + content[p][i]
      BY <1>3, <1>4, <2>3 DEF Commit, CInv, TypeOK
    <3>4. e \in 0..requested[i] /\ (e > 0 => Repeats(linked, i))
      <4>1. e \in 0..requested[i] /\ (e > 0 => \E q \in Earlier(p, i) : TRUE)
        BY <3>3 DEF Undone
      <4>2. \A q \in Earlier(p, i) : q \in linked
        BY DEF Earlier, CInv
      <4> QED BY <1>3, <2>3, <3>2, <4>1, <4>2, EarlierRepeats
    <3>5. Stands(m, T, linked, i)
      <4>1. Stands(requested[i] - e + content[p][i], S \cup {p}, linked, i)
        BY <2>1, <2>2, <3>2, <3>4, StandsAdds
      <4> QED BY <2>5, <3>1, <3>3, <4>1
    <3>6. Stands(m, T, linked, i)'
      BY <1>11, <2>2, <3>1, <3>2, <3>5
    <3> QED BY <2>5, <3>2, <3>6
  <2>4. CASE ~(k = "requested" /\ i = j)
    <3>1. Counts("requested", i, S)'
      BY <1>3, <2>1, <2>4, CommitCounts DEF Counters
    <3>2. requested'[i] = requested[i]
      BY <1>3, <1>4, <2>4 DEF Commit, CInv, TypeOK
    <3>3. Stands(m, S, linked, i)
      BY <2>1, <2>5, <3>2
    <3>4. Stands(m, S, linked, i)'
      BY <1>11, <2>2, <3>3
    <3> QED BY <2>5, <3>1, <3>4
  <2> QED BY <2>3, <2>4
<1>7. ASSUME NEW i \in Items
      PROVE  \E S : Counts("stock", i, S)' /\ Stands(-stock[i], S, linked, i)'
  <2>1. PICK S : Counts("stock", i, S) /\ Stands(-stock[i], S, linked, i)
    BY DEF CInv, StockCounts
  <2>2. S \subseteq linked
    BY <2>1 DEF Counts
  <2>5. PICK m : m = -stock'[i]
    OBVIOUS
  <2>3. CASE k = "stock" /\ i = j
    <3>1. PICK T : T = S \cup {p}
      OBVIOUS
    <3>2. p \in linked \ S /\ Counts("stock", i, T)'
      BY <1>3, <2>1, <2>3, <3>1, CommitCounts DEF Counters
    <3>3. PICK e \in Undone(-stock[i], Earlier(p, i)) :
             stock'[i] = stock[i] + e - content[p][i]
      BY <1>3, <1>4, <2>3 DEF Commit, CInv, TypeOK
    <3>4. e \in 0..(-stock[i]) /\ (e > 0 => Repeats(linked, i))
      <4>1. e \in 0..(-stock[i]) /\ (e > 0 => \E q \in Earlier(p, i) : TRUE)
        BY <3>3 DEF Undone
      <4>2. \A q \in Earlier(p, i) : q \in linked
        BY DEF Earlier, CInv
      <4> QED BY <1>3, <2>3, <3>2, <4>1, <4>2, EarlierRepeats
    <3>5. Stands(m, T, linked, i)
      <4>1. Stands((-stock[i]) - e + content[p][i], S \cup {p}, linked, i)
        BY <2>1, <2>2, <3>2, <3>4, StandsAdds
      <4>2. stock[i] \in Int /\ e \in Int /\ content[p][i] \in Int
        BY <1>4, <3>4, Quantities DEF CInv, TypeOK
      <4>3. m = (-stock[i]) - e + content[p][i]
        BY <2>5, <3>3, <4>2
      <4> QED BY <3>1, <4>1, <4>3
    <3>6. Stands(m, T, linked, i)'
      BY <1>11, <2>2, <3>1, <3>2, <3>5
    <3> QED BY <2>5, <3>2, <3>6
  <2>4. CASE ~(k = "stock" /\ i = j)
    <3>1. Counts("stock", i, S)'
      BY <1>3, <2>1, <2>4, CommitCounts DEF Counters
    <3>2. stock'[i] = stock[i]
      BY <1>3, <1>4, <2>4 DEF Commit, CInv, TypeOK
    <3>3. Stands(m, S, linked, i)
      BY <2>1, <2>5, <3>2
    <3>4. Stands(m, S, linked, i)'
      BY <1>11, <2>2, <3>3
    <3> QED BY <2>5, <3>1, <3>4
  <2> QED BY <2>3, <2>4
<1>8. ASSUME NEW i \in Items
      PROVE  \E S : /\ Counts("zone", i, S)'
                    /\ \A z \in Zones :
                        Stands(zoneCount[z][i], In(S, z), In(linked, z), i)'
  <2>1. PICK S :
          /\ Counts("zone", i, S)
          /\ \A z \in Zones : Stands(zoneCount[z][i], In(S, z), In(linked, z), i)
    BY DEF CInv, ZoneCounts
  <2>2. S \subseteq linked
    BY <2>1 DEF Counts
  <2>3. PICK y : y = zone[p]
    OBVIOUS
  <2>4. ASSUME NEW T, T \subseteq linked, NEW z \in Zones,
               Stands(zoneCount'[z][i], In(T, z), In(linked, z), i)
        PROVE  Stands(zoneCount[z][i], In(T, z), In(linked, z), i)'
    <3>1. PICK m, V, L : m = zoneCount'[z][i] /\ V = In(T, z) /\ L = In(linked, z)
      OBVIOUS
    <3>2. V \subseteq linked /\ V = In(T, z)' /\ L = In(linked, z)'
      BY <1>1, <2>4, <3>1 DEF In
    <3>3. Stands(m, V, L, i)'
      BY <1>10, <2>4, <3>1, <3>2
    <3> QED BY <3>1, <3>2, <3>3
  <2>5. CASE k = "zone" /\ i = j
    <3>1. PICK T : T = S \cup {p}
      OBVIOUS
    <3>2. p \in linked \ S /\ Counts("zone", i, T)' /\ T \subseteq linked
      <4>1. p \in linked \ S /\ Counts("zone", i, T)'
        BY <1>3, <2>1, <2>5, <3>1, CommitCounts DEF Counters
      <4> QED BY <2>2, <3>1, <4>1
    <3>3. y \in Zones
      BY <1>4, <2>3 DEF CInv, TypeOK
    <3>4. PICK e \in Undone(zoneCount[y][i], {q \in Earlier(p, i) : zone[q] = y}) :
             zoneCount' = [zoneCount EXCEPT ![y][i] = @ - e + content[p][i]]
      BY <1>3, <2>3, <2>5 DEF Commit
    <3>5. ASSUME NEW z \in Zones
          PROVE  Stands(zoneCount[z][i], In(T, z), In(linked, z), i)'
      <4>1. PICK V, L : V = In(S, z) /\ L = In(linked, z)
        OBVIOUS
      <4>2. Stands(zoneCount[z][i], V, L, i)
        BY <2>1, <4>1
      <4>3. CASE z = y
        <5>1. V \cup {p} = In(T, z) /\ V \subseteq linked /\ p \in linked \ V
          BY <2>2, <2>3, <3>1, <3>2, <4>1, <4>3 DEF In
        <5>2. e \in 0..zoneCount[z][i] /\ (e > 0 => Repeats(L, i))
          <6>1. /\ e \in 0..zoneCount[z][i]
                /\ e > 0 => \E q \in Earlier(p, i) : zone[q] = z
            BY <3>4, <4>3 DEF Undone
          <6>2. \A q \in Earlier(p, i) : zone[q] = z => q \in L
            BY <4>1 DEF Earlier, CInv, In
          <6>3. p \in L
            BY <2>3, <3>2, <4>1, <4>3 DEF In
          <6> QED BY <1>3, <2>5, <6>1, <6>2, <6>3, EarlierRepeats
        <5>3. zoneCount'[z][i] = zoneCount[z][i] - e + content[p][i]
          BY <3>4, <4>3 DEF CInv, TypeOK
        <5>4. Stands(zoneCount[z][i] - e + content[p][i], V \cup {p}, L, i)
          BY <4>2, <5>1, <5>2, StandsAdds
        <5> QED BY <2>4, <3>2, <4>1, <5>1, <5>3, <5>4
      <4>4. CASE z # y
        <5>1. V = In(T, z)
          BY <2>3, <3>1, <4>1, <4>4 DEF In
        <5>2. zoneCount'[z][i] = zoneCount[z][i]
          BY <3>4, <4>4 DEF CInv, TypeOK
        <5> QED BY <2>4, <3>2, <4>1, <4>2, <5>1, <5>2
      <4> QED BY <4>3, <4>4
    <3> QED BY <3>2, <3>5
  <2>6. CASE ~(k = "zone" /\ i = j)
    <3>1. Counts("zone", i, S)'
      BY <1>3, <2>1, <2>6, CommitCounts DEF Counters
    <3>2. \A z \in Zones : zoneCount'[z][i] = zoneCount[z][i]
      <4>1. CASE k # "zone"
        <5>1. zoneCount' = zoneCount
          BY <1>3, <4>1 DEF Commit
        <5> QED BY <5>1
      <4>2. CASE k = "zone" /\ i # j
        <5>1. PICK n : zoneCount' = [zoneCount EXCEPT ![y][j] = n]
          BY <1>3, <2>3, <4>2 DEF Commit
        <5>2. y \in Zones
          BY <1>4, <2>3 DEF CInv, TypeOK
        <5> QED BY <1>4, <4>2, <5>1, <5>2 DEF CInv, TypeOK
      <4> QED BY <2>6, <4>1, <4>2
    <3>3. ASSUME NEW z \in Zones
          PROVE  Stands(zoneCount[z][i], In(S, z), In(linked, z), i)'
      <4>1. Stands(zoneCount'[z][i], In(S, z), In(linked, z), i)
        BY <2>1, <3>2
      <4> QED BY <2>2, <2>4, <4>1
    <3> QED BY <3>1, <3>3
  <2> QED BY <2>5, <2>6
<1> QED BY <1>2, <1>6, <1>7, <1>8 DEF RequestedCounts, StockCounts, ZoneCounts

(***************************************************************************)
(* At first nothing is linked, counted or out.                             *)
(***************************************************************************)
LEMMA CountInitHolds == Init => CInv
<1> SUFFICES ASSUME Init PROVE CInv
    OBVIOUS
<1>1. /\ linked = {} /\ net = {} /\ transactions = {} /\ begun = {}
      /\ \A i \in Items : requested[i] = 0 /\ stock[i] = 0
      /\ \A z \in Zones, i \in Items : zoneCount[z][i] = 0
  BY DEF Init
<1>2. IsFiniteSet({})
  BY FS_EmptySet
<1>3. \A i : Ordered({}, i) = 0
  BY <1>2, OrderedUnfolds DEF Unfolds
<1>4. \A k, i : Counts(k, i, {})
  BY <1>1 DEF Counts
<1>5. RequestedCounts /\ StockCounts
  BY <1>1, <1>3, <1>4 DEF RequestedCounts, StockCounts, Stands
<1>6. ZoneCounts
  <2>1. \A z : In({}, z) = {}
    BY DEF In
  <2>2. \A i \in Items, z \in Zones :
          Stands(zoneCount[z][i], In({}, z), In(linked, z), i)
    BY <1>1, <1>3, <2>1 DEF Stands
  <2> QED BY <1>4, <2>2 DEF ZoneCounts
<1>7. TransactionsSound /\ LinksAwaited
  BY <1>1 DEF TransactionsSound, LinksAwaited
<1> QED BY <1>1, <1>2, <1>5, <1>6, <1>7, PostTypeInit DEF CInv

(***************************************************************************)
(* Every step keeps the invariant of the counters.                         *)
(***************************************************************************)
LEMMA CountStepHolds == PInv /\ CInv /\ [Next]_vars => CInv'
<1> SUFFICES ASSUME PInv, CInv, [Next]_vars PROVE CInv'
    OBVIOUS
<1>1. TypeOK'
  BY PostTypeStep DEF CInv
<1>2. ASSUME Steady PROVE CInv'
  <2>1. IsFiniteSet(linked)'
    BY <1>2 DEF Steady, KeepsCounting
  <2> QED BY <1>1, <1>2, <2>1, KeptCountsHold DEF CInv, Steady
<1>3. ASSUME NEW c \in Clients, NEW q, OpenCheckout(c, q) PROVE Steady
  BY <1>3, OpenSteady
<1>4. ASSUME NEW c \in Clients,
             DismissCheckout(c) \/ clickedSend(c) \/ LoseSession(c)
      PROVE  Steady
  BY <1>4, ReviewSteady
<1>5. ASSUME NEW c \in Clients, PostStep(c) PROVE Steady
  BY <1>5, ZoneFoundSteady, ReviewSteady, StoreAnsweredSteady, LinkAnsweredSteady
     DEF PostStep
<1>6. ASSUME NEW c \in Clients, Kill(c) PROVE Steady
  BY <1>6, KillSteady
<1>7. ASSUME NEW w \in net, ServerStep(w) \/ ApplyAnswerLost(w) PROVE Steady
  BY <1>7, ServerSteady
<1>8. ASSUME NEW t \in transactions, LoseTransaction(t) PROVE Steady
  BY <1>8, LostSteady
<1>9. ASSUME NEW t \in transactions, Commit(t) PROVE CInv'
  BY <1>1, <1>9, CommitHolds DEF CInv
<1>10. CASE UNCHANGED vars
  <2>1. /\ stage' = stage /\ count' = count /\ content' = content /\ zone' = zone
        /\ linked' = linked /\ lost' = lost /\ net' = net
        /\ transactions' = transactions /\ begun' = begun
        /\ stock' = stock /\ requested' = requested /\ zoneCount' = zoneCount
    BY <1>10 DEF vars
  <2>2. KeepsCounting
    BY <2>1 DEF KeepsCounting, CInv, Begun, Awaiting
  <2>3. TransactionsSound' /\ LinksAwaited' /\ (begun \subseteq linked)'
    BY <2>1 DEF CInv, TransactionsSound, LinksAwaited, Begun, Awaiting
  <2> QED BY <1>2, <2>2, <2>3 DEF Steady
<1> QED BY <1>2, <1>3, <1>4, <1>5, <1>6, <1>7, <1>8, <1>9, <1>10 DEF Next

(***************************************************************************)
(* The invariants of the chain of callbacks and of the counters.           *)
(***************************************************************************)
THEOREM CountingInductive == Spec => [](PInv /\ CInv)
<1>1. Init => PInv /\ CInv
  BY PostInitHolds, CountInitHolds
<1>2. PInv /\ CInv /\ [Next]_vars => (PInv /\ CInv)'
  BY PostStepHolds, CountStepHolds
<1> QED BY <1>1, <1>2, PTL DEF Spec

(***************************************************************************)
(* Every variable keeps its type: the counters stay whole numbers and the  *)
(* requests, links, writes and transactions are of requests that exist.    *)
(***************************************************************************)
THEOREM PostTypeCorrect == Spec => []TypeOK
<1>1. CInv => TypeOK
  BY DEF CInv
<1> QED BY <1>1, CountingInductive, PTL

(***************************************************************************)
(* What a counter has counted is within what is linked.                    *)
(***************************************************************************)
LEMMA WithinLinked ==
    ASSUME CInv, NEW i \in Items, NEW S, S \subseteq linked, NEW T, T \subseteq S
    PROVE  /\ Ordered(T, i) <= Ordered(S, i)
           /\ Ordered(T, i) \in Nat /\ Ordered(S, i) \in Nat
           /\ (\A o \in S \ T : content[o][i] = 0) => Ordered(T, i) = Ordered(S, i)
<1>1. S \in SUBSET Orders /\ T \in SUBSET Orders /\ T \in SUBSET S
  BY DEF CInv, TypeOK
<1>2. IsFiniteSet(S) /\ IsFiniteSet(T)
  <2>1. T \in SUBSET linked /\ S \in SUBSET linked
    OBVIOUS
  <2> QED BY <2>1, FS_Subset DEF CInv
<1>3. Amounts(i)
  BY Quantities DEF CInv, Amounts
<1>4. Ordered(S, i) \in Nat /\ Ordered(T, i) \in Nat
  BY <1>1, <1>2, <1>3, OrderedIsNat
<1> QED BY <1>1, <1>2, <1>3, <1>4, OrderedGrows

(***************************************************************************)
(* Whatever the clients send, the server refuses or applies twice and the  *)
(* system kills, no shared counter counts a request that is not linked, or *)
(* one twice.                                                              *)
(***************************************************************************)
THEOREM NeverCountedTwice == Spec => []CountersNeverExceed
<1>1. ASSUME CInv PROVE CountersNeverExceed
  <2> SUFFICES ASSUME NEW i \in Items
               PROVE  /\ requested[i] <= Ordered(linked, i)
                      /\ -stock[i] <= Ordered(linked, i)
                      /\ \A z \in Zones : zoneCount[z][i] <= Ordered(In(linked, z), i)
    BY DEF CountersNeverExceed, In
  <2>1. ASSUME NEW n, NEW L, L \subseteq linked, NEW M, NEW S, S \subseteq L,
               Stands(n, S, M, i)
        PROVE  n <= Ordered(L, i)
    <3>1. /\ Ordered(S, i) <= Ordered(L, i)
          /\ Ordered(S, i) \in Nat /\ Ordered(L, i) \in Nat
      BY <1>1, <2>1, WithinLinked
    <3> QED BY <2>1, <3>1 DEF Stands
  <2>2. requested[i] <= Ordered(linked, i)
    BY <1>1, <2>1 DEF CInv, RequestedCounts, Counts
  <2>3. -stock[i] <= Ordered(linked, i)
    BY <1>1, <2>1 DEF CInv, StockCounts, Counts
  <2>4. ASSUME NEW z \in Zones
        PROVE  zoneCount[z][i] <= Ordered(In(linked, z), i)
    <3>1. PICK S :
            /\ S \subseteq linked
            /\ Stands(zoneCount[z][i], In(S, z), In(linked, z), i)
      BY <1>1 DEF CInv, ZoneCounts, Counts
    <3>2. In(S, z) \subseteq In(linked, z) /\ In(linked, z) \subseteq linked
      BY <3>1 DEF In
    <3> QED BY <2>1, <3>1, <3>2
  <2> QED BY <2>2, <2>3, <2>4
<1> QED BY <1>1, CountingInductive, PTL

(***************************************************************************)
(* Once everything has come to rest and nothing was cut off, the three     *)
(* counters account for exactly what the linked requests ask for, unless   *)
(* some client has linked two requests for the same item.                  *)
(***************************************************************************)
THEOREM CountsSettle == Spec => []CountersSettle
<1>1. ASSUME CInv PROVE CountersSettle
  <2> SUFFICES ASSUME \A c \in Clients : stage[c] = "main",
                      transactions = {}, lost = {},
                      NEW i \in Items
               PROVE  /\ Repeats(linked, i) \/ /\ requested[i] = Ordered(linked, i)
                                               /\ stock[i] = -Ordered(linked, i)
                      /\ \A z \in Zones :
                          \/ Repeats(In(linked, z), i)
                          \/ zoneCount[z][i] = Ordered(In(linked, z), i)
    BY DEF CountersSettle, In
  <2>1. ASSUME NEW k, NEW S, Counts(k, i, S)
        PROVE  S \subseteq linked /\ \A o \in linked \ S : content[o][i] = 0
    <3>1. \A o \in linked : ~Awaiting(o)
      BY <1>1 DEF CInv, TypeOK, Orders, Awaiting
    <3> QED BY <2>1, <3>1 DEF Counts, Pending
  <2>2. Repeats(linked, i) \/ requested[i] = Ordered(linked, i)
    <3>1. PICK S : Counts("requested", i, S) /\ Stands(requested[i], S, linked, i)
      BY <1>1 DEF CInv, RequestedCounts
    <3>2. Ordered(S, i) = Ordered(linked, i)
      BY <1>1, <2>1, <3>1, WithinLinked
    <3> QED BY <3>1, <3>2 DEF Stands
  <2>3. Repeats(linked, i) \/ stock[i] = -Ordered(linked, i)
    <3>1. PICK S : Counts("stock", i, S) /\ Stands(-stock[i], S, linked, i)
      BY <1>1 DEF CInv, StockCounts
    <3>2. Ordered(S, i) = Ordered(linked, i)
      BY <1>1, <2>1, <3>1, WithinLinked
    <3>3. stock[i] \in Int
      BY <1>1 DEF CInv, TypeOK
    <3> QED BY <3>1, <3>2, <3>3 DEF Stands
  <2>4. ASSUME NEW z \in Zones
        PROVE  \/ Repeats(In(linked, z), i)
               \/ zoneCount[z][i] = Ordered(In(linked, z), i)
    <3>1. PICK S :
            /\ Counts("zone", i, S)
            /\ Stands(zoneCount[z][i], In(S, z), In(linked, z), i)
      BY <1>1 DEF CInv, ZoneCounts
    <3>2. PICK T, V : T = In(S, z) /\ V = In(linked, z)
      OBVIOUS
    <3>3. V \subseteq linked /\ T \subseteq V /\ \A o \in V \ T : content[o][i] = 0
      BY <2>1, <3>1, <3>2 DEF In
    <3>4. Ordered(T, i) = Ordered(V, i)
      BY <1>1, <3>3, WithinLinked
    <3> QED BY <3>1, <3>2, <3>4 DEF Stands
  <2> QED BY <2>2, <2>3, <2>4
<1> QED BY <1>1, CountingInductive, PTL

(***************************************************************************)
(* Of a request whose "Sending..." card is stuck nothing is stored,        *)
(* linked, counted or on its way.                                          *)
(***************************************************************************)
THEOREM HungUnsent == Spec => []HungSentNothing
<1>1. ASSUME PInv, CInv PROVE HungSentNothing
  <2> SUFFICES ASSUME NEW c \in Clients, stage[c] = "hung"
               PROVE  /\ Order(c) \notin stored \cup linked
                      /\ \A x \in net \cup acks \cup transactions : x.order # Order(c)
    BY DEF HungSentNothing
  <2>1. Unsent(Order(c))
    BY <1>1 DEF PInv, Fresh
  <2>2. \A t \in transactions : t.order \in linked
    BY <1>1 DEF CInv, TransactionsSound
  <2> QED BY <2>1, <2>2 DEF Unsent
<1> QED BY <1>1, CountingInductive, PTL
=============================================================================
