------------------------- MODULE RequestFetchProofs -------------------------
(***************************************************************************)
(* Proofs about RequestFetch, for any requests, zones, items and number of *)
(* refreshes: the join of a refresh is exact, the table follows the list,  *)
(* the refresh control spins for a reason, and refreshes over a connection *)
(* that answers in order do not overtake each other.  A read that has been *)
(* refused is still out: nothing has called back for it.                   *)
(*                                                                         *)
(* The counters of the join are UInts that the callbacks count down.  The  *)
(* invariant says what each of them counts: the items of a request that    *)
(* are still out, the requests of a zone that are still open, the zones    *)
(* with an open request.                                                   *)
(***************************************************************************)
EXTENDS RequestFetch, FiniteSetTheorems, TLAPS

Same(p, q) ==
    p.refresh = q.refresh /\ p.kind = q.kind /\ p.id = q.id /\ p.item = q.item

\* No read is out twice.
OneEach == \A p, q \in net : Same(p, q) => p = q

\* The reads that are out for request i of refresh k.
Asked(k, i) ==
    \E q \in net : q.refresh = k /\ q.kind = "request" /\ q.id = i

ItemsOut(k, i) ==
    {x \in Items : \E q \in net : /\ q.refresh = k /\ q.kind = "item"
                                  /\ q.id = i /\ q.item = x}

\* What a read that is out says of its refresh.
ReadsSound(k) ==
    \A q \in net : q.refresh = k =>
        /\ k <= started /\ calls[k] = 0
        /\ q.kind = "list" => /\ q.id = None /\ q.item = None
                              /\ listed[k] = {}
                              /\ \A p \in net : p.refresh = k => p = q
        /\ q.kind # "list" => q.id \in listed[k] \ requests[k]
        /\ q.kind = "request" => q.item = None
        /\ q.kind = "item" => q.id \in wellFormed /\ q.item \in content[q.id]

\* A request is asked for, then its items, then it is delivered.
Loading(k) ==
    \A i \in Ids :
        /\ Asked(k, i) => ItemsOut(k, i) = {}
        /\ (i \in (listed[k] \cap wellFormed) \ requests[k] /\ ~Asked(k, i)) =>
            content[i] = {} \/ ItemsOut(k, i) # {}

\* The requests of zone z that refresh k has not joined yet, and the zones
\* that have one.
OpenIn(k, z) ==
    {i \in listed[k] : /\ zone[i] = z
                       /\ Asked(k, i) \/ i \in wellFormed \ requests[k]}

OpenZones(k) == {z \in Zones : OpenIn(k, z) # {}}

ItemsCounted(k) ==
    \A i \in Ids :
        ItemsOut(k, i) # {} => counter[k][i] = Cardinality(ItemsOut(k, i))

RequestsCounted(k) ==
    /\ \A z \in Zones : requestCount[k][z] = Cardinality(OpenIn(k, z))
    /\ zoneCount[k] = Cardinality(OpenZones(k))

Completed(k) ==
    /\ requests[k] \subseteq listed[k] \cap wellFormed
    /\ calls[k] \in {0, 1}
    /\ calls[k] = 1 => OpenZones(k) = {}
    /\ k > started => listed[k] = {} /\ calls[k] = 0

\* A refresh that has not completed waits for a read, if it can complete.
Waits(k) ==
    (k <= started /\ calls[k] = 0) => k \in unasked \/ Asking(k) \/ MetEmpty(k)

RefreshSound(k) ==
    /\ ReadsSound(k) /\ Loading(k) /\ ItemsCounted(k) /\ RequestsCounted(k)
    /\ Completed(k) /\ Waits(k)

\* While the refresh control spins, a refresh that has completed since it was
\* pulled has a reload to come.
SpinningEnds ==
    (refreshing /\ reloads = 0) => \A k \in pulled..started : calls[k] = 0

\* The inductive invariant.
JInv ==
    /\ TypeOK /\ OneEach
    /\ \A k \in Refreshes : RefreshSound(k)
    /\ TableFollowsList /\ SpinningEnds

-----------------------------------------------------------------------------
(***************************************************************************)
(* Reads go out: what is out afterwards was out before or is of the batch. *)
(***************************************************************************)
Reads(batch) == \A b \in batch :
    /\ b = <<b[1], b[2], b[3], b[4]>>
    /\ b[1] \in Refreshes /\ b[2] \in {"list", "request", "item"}
    /\ b[3] \in Ids \cup {None} /\ b[4] \in Items \cup {None}

Is(q, b) == q.refresh = b[1] /\ q.kind = b[2] /\ q.id = b[3] /\ q.item = b[4]

LEMMA Sent ==
    ASSUME TypeOK, NEW batch, Reads(batch), NEW rest \in SUBSET net,
           Send(batch, rest)
    PROVE  /\ net' \subseteq Query /\ sent' \in Nat
           /\ rest \subseteq net'
           /\ \A q \in net' : q \in rest \/ \E b \in batch : Is(q, b)
           /\ \A b \in batch : \E q \in net' : Is(q, b)
  <1> DEFINE t == IF InOrder THEN sent ELSE 0
             Record(b) == [refresh |-> b[1], kind |-> b[2], id |-> b[3],
                           item |-> b[4], ticket |-> t]
  <1>1. t \in Nat /\ sent' \in Nat
    BY BoundsAssumption DEF TypeOK, Send
  <1>2. net' = rest \cup {Record(b) : b \in batch}
    BY DEF Send
  <1> HIDE DEF t
  <1>3. ASSUME NEW b \in batch PROVE Record(b) \in Query /\ Is(Record(b), b)
    BY <1>1 DEF Reads, Query, Is
  <1> HIDE DEF Record
  <1>4. net \subseteq Query
    BY DEF TypeOK
  <1>5. \A b \in batch : Record(b) \in net'
    BY <1>2
  <1> QED BY <1>1, <1>2, <1>3, <1>4, <1>5

(***************************************************************************)
(* No read is out twice if what goes out was not out and is not repeated.  *)
(***************************************************************************)
LEMMA SentOnce ==
    ASSUME TypeOK, OneEach, NEW batch, Reads(batch), NEW rest \in SUBSET net,
           Send(batch, rest),
           \A q \in rest, b \in batch : ~Is(q, b)
    PROVE  OneEach'
  <1> DEFINE t == IF InOrder THEN sent ELSE 0
             Record(b) == [refresh |-> b[1], kind |-> b[2], id |-> b[3],
                           item |-> b[4], ticket |-> t]
  <1>1. net' = rest \cup {Record(b) : b \in batch}
    BY DEF Send
  <1>2. ASSUME NEW b \in batch PROVE Is(Record(b), b)
    BY DEF Is
  <1>3. ASSUME NEW b \in batch, NEW c \in batch, Same(Record(b), Record(c))
        PROVE  b = c
    <2>1. b[1] = c[1] /\ b[2] = c[2] /\ b[3] = c[3] /\ b[4] = c[4]
      BY <1>2, <1>3 DEF Is, Same
    <2> QED BY <2>1 DEF Reads
  <1> HIDE DEF t, Record
  <1>4. ASSUME NEW p \in net', NEW q \in net', Same(p, q) PROVE p = q
    <2>1. CASE p \in rest /\ q \in rest
      BY <1>4, <2>1 DEF OneEach
    <2>2. ASSUME NEW b \in batch, p = Record(b), q \in rest PROVE FALSE
      <3>1. Is(q, b)
        BY <1>2, <1>4, <2>2 DEF Is, Same
      <3> QED BY <2>2, <3>1
    <2>3. ASSUME NEW b \in batch, q = Record(b), p \in rest PROVE FALSE
      <3>1. Is(p, b)
        BY <1>2, <1>4, <2>3 DEF Is, Same
      <3> QED BY <2>3, <3>1
    <2>4. CASE \E b, c \in batch : p = Record(b) /\ q = Record(c)
      BY <1>3, <1>4, <2>4
    <2> QED BY <1>1, <2>1, <2>2, <2>3, <2>4
  <1> QED BY <1>4 DEF OneEach

(***************************************************************************)
(* A refresh of which a step changes nothing stays as it was.              *)
(***************************************************************************)
Untouched(k) ==
    /\ \A q \in net \cup net' : q.refresh = k => q \in net /\ q \in net'
    /\ listed'[k] = listed[k] /\ requests'[k] = requests[k]
    /\ zoneCount'[k] = zoneCount[k] /\ requestCount'[k] = requestCount[k]
    /\ counter'[k] = counter[k] /\ calls'[k] = calls[k]
    /\ k \in unasked => k \in unasked'
    /\ k <= started' => k <= started

Requests == <<zone, content, wellFormed>>

LEMMA OthersStay ==
    ASSUME NEW k \in Refreshes, RefreshSound(k), Untouched(k),
           UNCHANGED Requests, started \in Nat, started' \in {started, started + 1}
    PROVE  RefreshSound(k)'
  <1>1. /\ \A i : Asked(k, i)' <=> Asked(k, i)
        /\ \A i : ItemsOut(k, i)' = ItemsOut(k, i)
    BY DEF Untouched, Asked, ItemsOut
  <1>2. \A z : OpenIn(k, z)' = OpenIn(k, z)
    BY <1>1 DEF Untouched, OpenIn, Requests
  <1>3. OpenZones(k)' = OpenZones(k)
    BY <1>2 DEF OpenZones
  <1>4. ReadsSound(k)'
    BY DEF RefreshSound, ReadsSound, Untouched, Requests, Refreshes
  <1>5. Loading(k)'
    BY <1>1 DEF RefreshSound, Loading, Untouched, Requests
  <1>6. ItemsCounted(k)' /\ RequestsCounted(k)'
    BY <1>1, <1>2, <1>3
    DEF RefreshSound, ItemsCounted, RequestsCounted, Untouched
  <1>7. Completed(k)'
    BY <1>3 DEF RefreshSound, Completed, Untouched, Requests, Refreshes
  <1>8. Waits(k)'
    BY DEF RefreshSound, Waits, Asking, MetEmpty, Untouched, Requests
  <1> QED BY <1>4, <1>5, <1>6, <1>7, <1>8 DEF RefreshSound

(***************************************************************************)
(* The sets that are counted are finite.                                   *)
(***************************************************************************)
LEMMA Finite ==
    ASSUME TypeOK, NEW k \in Refreshes
    PROVE  /\ \A i : IsFiniteSet(ItemsOut(k, i))
           /\ \A z : IsFiniteSet(OpenIn(k, z))
           /\ IsFiniteSet(OpenZones(k))
  <1>1. \A i : ItemsOut(k, i) \subseteq Items
    BY DEF ItemsOut
  <1>2. \A z : OpenIn(k, z) \subseteq Ids
    BY DEF OpenIn, TypeOK
  <1>3. OpenZones(k) \subseteq Zones
    BY DEF OpenZones
  <1> QED BY <1>1, <1>2, <1>3, FiniteAssumption, FS_Subset

\* What one element less does to a count.
LEMMA OneLess ==
    ASSUME NEW S, IsFiniteSet(S), NEW x \in S
    PROVE  /\ IsFiniteSet(S \ {x})
           /\ Cardinality(S) \in Nat \ {0}
           /\ Cardinality(S \ {x}) = Cardinality(S) - 1
           /\ Cardinality(S) - 1 = 0 <=> S \ {x} = {}
  <1>1. IsFiniteSet(S \ {x}) /\ Cardinality(S \ {x}) = Cardinality(S) - 1
    BY FS_RemoveElement
  <1>2. Cardinality(S) \in Nat /\ Cardinality(S \ {x}) \in Nat
    BY <1>1, FS_CardinalityType
  <1>3. Cardinality(S \ {x}) = 0 <=> S \ {x} = {}
    BY <1>1, FS_EmptySet
  <1>4. Cardinality(S) # 0
    BY FS_EmptySet
  <1> QED BY <1>1, <1>2, <1>3, <1>4

(***************************************************************************)
(* A request is joined: it was open and is open no more.  The counters     *)
(* count what is left, and the refresh completes if nothing is.            *)
(***************************************************************************)
Closed(k, i, z) ==
    /\ z \in Zones /\ z = zone[i] /\ i \in OpenIn(k, z)
    /\ OpenIn(k, z)' = OpenIn(k, z) \ {i}
    /\ \A y \in Zones \ {z} : OpenIn(k, y)' = OpenIn(k, y)

LEMMA Joined ==
    ASSUME TypeOK, NEW k \in Refreshes, RequestsCounted(k), calls[k] = 0,
           NEW i \in Ids, NEW r \in SUBSET Ids, RequestJoined(k, i, r),
           NEW z, Closed(k, i, z)
    PROVE  /\ RequestsCounted(k)'
           /\ requestCount' \in [Refreshes -> [Zones -> Nat]]
           /\ zoneCount' \in [Refreshes -> Nat]
           /\ requests' \in [Refreshes -> SUBSET Ids]
           /\ requests'[k] = requests[k] \cup r
           /\ calls' \in [Refreshes -> Nat]
           /\ IF OpenZones(k)' = {}
              THEN /\ calls'[k] = 1 /\ reloads' = reloads + 1
                   /\ userRequests' = requests'[k]
              ELSE calls'[k] = 0 /\ UNCHANGED <<reloads, userRequests>>
           /\ UNCHANGED <<rows, refreshing, server, signedIn, started, listed>>
           /\ \A j \in Refreshes \ {k} :
                /\ zoneCount'[j] = zoneCount[j]
                /\ requestCount'[j] = requestCount[j]
                /\ requests'[j] = requests[j] /\ calls'[j] = calls[j]
  <1> DEFINE left == requestCount[k][z] - 1
             zonesLeft == IF left = 0 THEN zoneCount[k] - 1 ELSE zoneCount[k]
  <1>1. /\ requests' = [requests EXCEPT ![k] = @ \cup r]
        /\ requestCount' = [requestCount EXCEPT ![k][z] = left]
        /\ zoneCount' = [zoneCount EXCEPT ![k] = zonesLeft]
        /\ IF zonesLeft = 0 /\ left = 0 THEN onComplete(k, requests'[k])
                                        ELSE UNCHANGED <<calls, screen>>
        /\ UNCHANGED <<server, signedIn, started, listed>>
    BY DEF RequestJoined, Closed
  <1>2. z \in Zones
    BY DEF Closed
  <1>3. /\ IsFiniteSet(OpenIn(k, z)) /\ IsFiniteSet(OpenZones(k))
        /\ i \in OpenIn(k, z)
    BY Finite DEF Closed
  <1>4. /\ Cardinality(OpenIn(k, z)) \in Nat \ {0}
        /\ Cardinality(OpenIn(k, z)') = Cardinality(OpenIn(k, z)) - 1
        /\ Cardinality(OpenIn(k, z)) - 1 = 0 <=> OpenIn(k, z)' = {}
    <2>1. /\ Cardinality(OpenIn(k, z)) \in Nat \ {0}
          /\ Cardinality(OpenIn(k, z) \ {i}) = Cardinality(OpenIn(k, z)) - 1
          /\ Cardinality(OpenIn(k, z)) - 1 = 0 <=> OpenIn(k, z) \ {i} = {}
      BY <1>3, OneLess, Zenon
    <2>2. OpenIn(k, z)' = OpenIn(k, z) \ {i}
      BY DEF Closed
    <2> QED BY <2>1, <2>2
  <1>5. left \in Nat /\ left = Cardinality(OpenIn(k, z)') /\ (left = 0 <=> OpenIn(k, z)' = {})
    BY <1>2, <1>4 DEF RequestsCounted
  <1>6. z \in OpenZones(k)
    BY <1>2, <1>3 DEF OpenZones
  <1>7. OpenZones(k)' = IF left = 0 THEN OpenZones(k) \ {z} ELSE OpenZones(k)
    <2>1. \A y \in Zones \ {z} : OpenIn(k, y)' = OpenIn(k, y)
      BY DEF Closed
    <2> QED BY <1>2, <1>5, <1>6, <2>1 DEF OpenZones
  <1>8. /\ zonesLeft \in Nat /\ zonesLeft = Cardinality(OpenZones(k)')
        /\ (zonesLeft = 0 <=> OpenZones(k)' = {})
    <2>1. zoneCount[k] = Cardinality(OpenZones(k))
      BY DEF RequestsCounted
    <2>2. CASE left = 0
      <3>1. /\ Cardinality(OpenZones(k)) \in Nat \ {0}
            /\ Cardinality(OpenZones(k) \ {z}) = Cardinality(OpenZones(k)) - 1
            /\ Cardinality(OpenZones(k)) - 1 = 0 <=> OpenZones(k) \ {z} = {}
        BY <1>3, <1>6, OneLess, Zenon
      <3> QED BY <1>7, <2>1, <2>2, <3>1
    <2>3. CASE left # 0
      BY <1>3, <1>6, <1>7, <2>1, <2>3, FS_EmptySet, FS_CardinalityType
    <2> QED BY <2>2, <2>3
  <1>9. OpenZones(k)' = {} <=> zonesLeft = 0 /\ left = 0
    <2>1. OpenZones(k)' = {} => left = 0
      BY <1>6, <1>7
    <2> QED BY <1>8, <2>1
  <1> HIDE DEF left, zonesLeft
  <1>10. RequestsCounted(k)'
    <2>1. requestCount'[k] = [requestCount[k] EXCEPT ![z] = left]
      BY <1>1 DEF TypeOK
    <2>2. requestCount'[k][z] = left
      BY <1>2, <2>1 DEF TypeOK
    <2>3. ASSUME NEW y \in Zones \ {z}
          PROVE  requestCount'[k][y] = Cardinality(OpenIn(k, y)')
      <3>1. requestCount'[k][y] = requestCount[k][y]
        BY <2>1 DEF TypeOK
      <3> QED BY <3>1 DEF RequestsCounted, Closed
    <2>4. zoneCount'[k] = zonesLeft
      BY <1>1 DEF TypeOK
    <2> QED BY <1>5, <1>8, <2>2, <2>3, <2>4 DEF RequestsCounted
  <1>11. /\ requestCount' \in [Refreshes -> [Zones -> Nat]]
         /\ zoneCount' \in [Refreshes -> Nat]
         /\ requests' \in [Refreshes -> SUBSET Ids]
         /\ requests'[k] = requests[k] \cup r
         /\ \A j \in Refreshes \ {k} :
                /\ zoneCount'[j] = zoneCount[j]
                /\ requestCount'[j] = requestCount[j]
                /\ requests'[j] = requests[j]
    BY <1>1, <1>2, <1>5, <1>8 DEF TypeOK
  <1>12. /\ calls' \in [Refreshes -> Nat]
         /\ \A j \in Refreshes \ {k} : calls'[j] = calls[j]
         /\ IF OpenZones(k)' = {}
            THEN /\ calls'[k] = 1 /\ reloads' = reloads + 1
                 /\ userRequests' = requests'[k]
            ELSE calls'[k] = 0 /\ UNCHANGED <<reloads, userRequests>>
         /\ UNCHANGED <<rows, refreshing>>
    BY <1>1, <1>9 DEF TypeOK, onComplete, screen
  <1> QED BY <1>1, <1>10, <1>11, <1>12

\* A refresh with something left to join has a read out, or never completes.
LEMMA SomeoneCalls ==
    ASSUME NEW k \in Refreshes, listed'[k] \subseteq Ids, Loading(k)',
           OpenZones(k)' # {}
    PROVE  Asking(k)' \/ MetEmpty(k)'
  <1>1. PICK z \in Zones, i \in Ids : i \in OpenIn(k, z)'
    BY DEF OpenZones, OpenIn
  <1>2. CASE Asked(k, i)'
    BY <1>2 DEF Asked, Asking
  <1>3. CASE ~Asked(k, i)'
    <2>1. i \in listed'[k] \cap wellFormed' /\ i \notin requests'[k]
      BY <1>1, <1>3 DEF OpenIn
    <2>2. content'[i] = {} \/ ItemsOut(k, i)' # {}
      BY <1>3, <2>1 DEF Loading
    <2> QED BY <2>1, <2>2 DEF ItemsOut, Asking, MetEmpty
  <1> QED BY <1>2, <1>3

-----------------------------------------------------------------------------
(***************************************************************************)
(* refreshData: the new refresh has nothing yet but its first read.        *)
(***************************************************************************)
LEMMA RefreshStep ==
    ASSUME JInv, refreshData,
           \/ refreshing' = refreshing /\ pulled' = pulled
           \/ refreshing' = TRUE /\ pulled' = started'
    PROVE  JInv'
  <1>1. PICK k \in Refreshes : /\ started \in Nat /\ k = started + 1
                               /\ started' = k
    BY BoundsAssumption DEF JInv, TypeOK, refreshData, Refreshes
  <1> DEFINE batch == {<<k, "list", None, None>>}
  <1>2. \A q \in net : q.refresh # k
    <2> SUFFICES ASSUME NEW q \in net, q.refresh = k PROVE FALSE
      OBVIOUS
    <2>1. k <= started
      BY <1>1 DEF JInv, RefreshSound, ReadsSound
    <2> QED BY <1>1, <2>1
  <1>3. /\ Reads(batch)
        /\ \A q \in net, b \in batch : ~Is(q, b)
    BY <1>1, <1>2 DEF Reads, Is
  <1>4. /\ UNCHANGED <<server, signedIn, refused, local, calls, userRequests,
                       rows, reloads>>
        /\ unasked' = IF signedIn THEN unasked ELSE unasked \cup {k}
        /\ signedIn => Send(batch, net)
        /\ ~signedIn => UNCHANGED <<net, sent>>
    BY <1>1 DEF refreshData
  <1>5. /\ net' \subseteq Query /\ sent' \in Nat
        /\ net \subseteq net'
        /\ \A q \in net' : q \in net \/ Is(q, <<k, "list", None, None>>)
        /\ signedIn => \E q \in net' : Is(q, <<k, "list", None, None>>)
    <2>1. CASE signedIn
      BY <1>3, <1>4, <2>1, Sent DEF JInv
    <2>2. CASE ~signedIn
      BY <1>4, <2>2 DEF JInv, TypeOK
    <2> QED BY <2>1, <2>2
  <1>6. OneEach'
    <2>1. CASE signedIn
      BY <1>3, <1>4, <2>1, SentOnce DEF JInv
    <2>2. CASE ~signedIn
      BY <1>4, <2>2 DEF JInv, OneEach
    <2> QED BY <2>1, <2>2
  <1> HIDE DEF batch
  <1>7. TypeOK'
    BY <1>1, <1>4, <1>5 DEF JInv, TypeOK, server, local
  <1>8. ASSUME NEW j \in Refreshes, j # k PROVE RefreshSound(j)'
    <2>1. Untouched(j)
      BY <1>1, <1>4, <1>5, <1>8 DEF Untouched, Is, local, Refreshes
    <2>2. UNCHANGED Requests
      BY <1>4 DEF Requests, server
    <2> QED BY <1>1, <2>1, <2>2, OthersStay DEF JInv
  <1>9. RefreshSound(k)'
    <2>1. RefreshSound(k) /\ k > started
      BY <1>1 DEF JInv
    <2>2. listed[k] = {} /\ requests[k] = {} /\ calls[k] = 0
      BY <2>1 DEF RefreshSound, Completed
    <2>3. listed'[k] = {} /\ requests'[k] = {} /\ calls'[k] = 0
      BY <1>4, <2>2 DEF local
    <2>4. \A q \in net' : q.refresh = k => Is(q, <<k, "list", None, None>>)
      BY <1>2, <1>5
    <2>5. ASSUME NEW q \in net', q.refresh = k
          PROVE  q.kind = "list" /\ q.id = None /\ q.item = None
      BY <2>4, <2>5 DEF Is
    <2>6. /\ \A i : ~Asked(k, i)' /\ ItemsOut(k, i)' = {}
          /\ \A z : OpenIn(k, z)' = {} /\ OpenIn(k, z) = {}
          /\ OpenZones(k)' = {} /\ OpenZones(k) = {}
      BY <2>2, <2>3, <2>5 DEF Asked, ItemsOut, OpenIn, OpenZones
    <2>7. ReadsSound(k)'
      <3>1. \A p, q \in net' : p.refresh = k /\ q.refresh = k => p = q
        BY <1>6, <2>5 DEF OneEach, Same
      <3> QED BY <1>1, <2>3, <2>5, <3>1 DEF ReadsSound
    <2>8. Loading(k)' /\ ItemsCounted(k)'
      BY <2>3, <2>6 DEF Loading, ItemsCounted
    <2>9. RequestsCounted(k)'
      <3>1. /\ requestCount'[k] = requestCount[k]
            /\ zoneCount'[k] = zoneCount[k]
        BY <1>4 DEF local
      <3> QED BY <2>1, <2>6, <3>1 DEF RefreshSound, RequestsCounted
    <2>10. Completed(k)'
      BY <1>1, <2>3, <2>6 DEF Completed
    <2>11. Waits(k)'
      BY <1>4, <1>5 DEF Waits, Asking, Is
    <2> QED BY <2>7, <2>8, <2>9, <2>10, <2>11 DEF RefreshSound
  <1>10. TableFollowsList' /\ SpinningEnds'
    <2>1. TableFollowsList'
      BY <1>4 DEF JInv, TableFollowsList
    <2>2. calls'[k] = 0
      BY <1>1, <1>4 DEF JInv, RefreshSound, Completed
    <2>3. SpinningEnds'
      <3> SUFFICES ASSUME refreshing', reloads' = 0,
                          NEW j \in pulled'..started'
                   PROVE  calls'[j] = 0
        BY DEF SpinningEnds
      <3>1. CASE j = k
        BY <2>2, <3>1
      <3>2. CASE j # k
        <4>1. pulled \in Refreshes
          BY DEF JInv, TypeOK
        <4>2. pulled' = k \/ (pulled' = pulled /\ refreshing)
          BY <1>1, Zenon
        <4>3. /\ started' = started + 1 /\ started \in Nat /\ k = started + 1
              /\ j \in pulled'..started'
          BY <1>1
        <4>4. pulled' = pulled /\ refreshing
          BY <3>2, <4>2, <4>3
        <4>5. j \in pulled..started
          BY <3>2, <4>1, <4>3, <4>4 DEF Refreshes
        <4> QED BY <1>4, <4>4, <4>5 DEF JInv, SpinningEnds
      <3> QED BY <3>1, <3>2
    <2> QED BY <2>1, <2>3
  <1> QED BY <1>6, <1>7, <1>8, <1>9, <1>10 DEF JInv

\* A read that calls back was not refused.
Called(q) == q \notin refused /\ UNCHANGED <<refused, history>>

(***************************************************************************)
(* The list is answered: the read was the only one of its refresh.         *)
(***************************************************************************)
LEMMA ListStep ==
    ASSUME JInv, NEW q \in net, ListAnswered(q), Called(q)
    PROVE  JInv'
  <1>1. PICK k \in Refreshes : k = q.refresh
    BY DEF JInv, TypeOK, Query
  <1> DEFINE InZone(z) == {i \in linked : zone[i] = z}
             batch == {<<k, "request", i, None>> : i \in linked}
  <1>2. /\ q.kind = "list"
        /\ listed' = [listed EXCEPT ![k] = linked]
        /\ zoneCount' = [zoneCount EXCEPT ![k] =
                            Cardinality({z \in Zones : InZone(z) # {}})]
        /\ requestCount' = [requestCount EXCEPT ![k] =
                               [z \in Zones |-> Cardinality(InZone(z))]]
        /\ Send(batch, net \ {q})
        /\ IF linked = {} THEN onComplete(k, {})
                          ELSE UNCHANGED <<calls, screen>>
        /\ UNCHANGED <<server, signedIn, started, counter, requests>>
    BY <1>1 DEF ListAnswered
  <1>3. TypeOK /\ OneEach /\ RefreshSound(k) /\ linked \subseteq Ids
    BY DEF JInv, TypeOK
  <1>4. /\ k <= started /\ calls[k] = 0 /\ listed[k] = {} /\ requests[k] = {}
        /\ \A p \in net : p.refresh = k => p = q
    BY <1>1, <1>2, <1>3 DEF RefreshSound, ReadsSound, Completed
  <1>5. /\ Reads(batch)
        /\ \A p \in net \ {q}, b \in batch : ~Is(p, b)
    BY <1>3, <1>4 DEF Reads, Is
  <1>6. OneEach'
    BY <1>2, <1>3, <1>5, SentOnce
  <1>7. /\ net' \subseteq Query /\ sent' \in Nat
        /\ net \ {q} \subseteq net'
        /\ \A p \in net' : p \in net \ {q} \/ \E b \in batch : Is(p, b)
        /\ \A b \in batch : \E p \in net' : Is(p, b)
    <2>1. net \ {q} \in SUBSET net
      OBVIOUS
    <2> QED BY <1>2, <1>3, <1>5, <2>1, Sent
  <1>8. /\ \A p \in net' : p.refresh = k =>
             p.kind = "request" /\ p.id \in linked /\ p.item = None
        /\ \A p \in net' : p.refresh # k => p \in net
        /\ \A i \in linked : \E p \in net' :
             p.refresh = k /\ p.kind = "request" /\ p.id = i
    <2>1. ASSUME NEW p \in net' PROVE p \in net \ {q} \/ \E i \in linked :
                p.refresh = k /\ p.kind = "request" /\ p.id = i /\ p.item = None
      BY <1>7 DEF Is
    <2>2. ASSUME NEW i \in linked
          PROVE  \E p \in net' : p.refresh = k /\ p.kind = "request" /\ p.id = i
      <3>1. <<k, "request", i, None>> \in batch
        OBVIOUS
      <3> QED BY <1>7, <3>1 DEF Is
    <2> QED BY <1>4, <2>1, <2>2
  <1> HIDE DEF batch
  <1>9. /\ \A z \in Zones : InZone(z) \subseteq Ids /\ IsFiniteSet(InZone(z))
        /\ IsFiniteSet({z \in Zones : InZone(z) # {}})
    BY <1>3, FiniteAssumption, FS_Subset
  <1>10. /\ \A z \in Zones : Cardinality(InZone(z)) \in Nat
         /\ Cardinality({z \in Zones : InZone(z) # {}}) \in Nat
    BY <1>9, FS_CardinalityType
  <1> HIDE DEF InZone
  <1>11. TypeOK'
    <2>1. /\ listed' \in [Refreshes -> SUBSET Ids]
          /\ zoneCount' \in [Refreshes -> Nat]
          /\ requestCount' \in [Refreshes -> [Zones -> Nat]]
      BY <1>2, <1>3, <1>10 DEF TypeOK
    <2>2. /\ calls' \in [Refreshes -> Nat] /\ userRequests' \subseteq Ids
          /\ rows' \subseteq Ids /\ reloads' \in Nat /\ refreshing' \in BOOLEAN
      <3>1. /\ calls \in [Refreshes -> Nat] /\ userRequests \subseteq Ids
            /\ rows \subseteq Ids /\ reloads \in Nat /\ refreshing \in BOOLEAN
        BY <1>3 DEF TypeOK
      <3> QED BY <1>2, <3>1 DEF onComplete, screen
    <2>3. refused' \subseteq net'
      BY <1>3, <1>7 DEF TypeOK, Called
    <2> QED BY <1>2, <1>3, <1>7, <2>1, <2>2, <2>3
        DEF TypeOK, server, Called, history
  <1>12. ASSUME NEW j \in Refreshes, j # k PROVE RefreshSound(j)'
    <2>1. \A p \in net \cup net' : p.refresh = j => p \in net /\ p \in net'
      BY <1>1, <1>7, <1>8, <1>12
    <2>2. /\ listed'[j] = listed[j] /\ requests'[j] = requests[j]
          /\ zoneCount'[j] = zoneCount[j] /\ requestCount'[j] = requestCount[j]
          /\ counter'[j] = counter[j] /\ calls'[j] = calls[j]
      BY <1>2, <1>3, <1>12 DEF TypeOK, onComplete
    <2>3. UNCHANGED Requests /\ started' = started /\ started \in Nat
      BY <1>2, <1>3 DEF Requests, server, TypeOK, Refreshes
    <2>4. Untouched(j)
      BY <2>1, <2>2, <2>3 DEF Untouched, Called, history
    <2> QED BY <2>3, <2>4, OthersStay DEF JInv
  <1>13. /\ listed'[k] = linked /\ requests'[k] = {}
         /\ calls'[k] = IF linked = {} THEN 1 ELSE 0
    BY <1>2, <1>3, <1>4 DEF TypeOK, onComplete
  <1>14. /\ \A i : Asked(k, i)' <=> i \in linked
         /\ \A i : ItemsOut(k, i)' = {}
    BY <1>8 DEF Asked, ItemsOut
  <1>15. \A z : OpenIn(k, z)' = InZone(z)
    BY <1>2, <1>13, <1>14 DEF OpenIn, InZone, server
  <1>16. OpenZones(k)' = {z \in Zones : InZone(z) # {}}
    BY <1>15 DEF OpenZones
  <1>17. RefreshSound(k)'
    <2>1. ReadsSound(k)'
      <3>1. linked # {} => calls'[k] = 0
        BY <1>13
      <3> QED BY <1>2, <1>4, <1>8, <1>13, <3>1 DEF ReadsSound
    <2>2. Loading(k)' /\ ItemsCounted(k)'
      BY <1>13, <1>14 DEF Loading, ItemsCounted
    <2>3. RequestsCounted(k)'
      <3>1. /\ zoneCount'[k] = Cardinality({z \in Zones : InZone(z) # {}})
            /\ requestCount'[k] = [z \in Zones |-> Cardinality(InZone(z))]
        BY <1>2, <1>3 DEF TypeOK
      <3> QED BY <1>15, <1>16, <3>1 DEF RequestsCounted
    <2>4. Completed(k)'
      <3>1. linked = {} => OpenZones(k)' = {}
        BY <1>16 DEF InZone
      <3>2. started' = started /\ started \in Nat /\ k \in Nat
        BY <1>2, <1>3 DEF TypeOK, Refreshes
      <3> QED BY <1>4, <1>13, <3>1, <3>2 DEF Completed
    <2>5. Waits(k)'
      BY <1>8, <1>13 DEF Waits, Asking
    <2> QED BY <2>1, <2>2, <2>3, <2>4, <2>5 DEF RefreshSound
  <1>18. TableFollowsList' /\ SpinningEnds'
    <2>1. CASE linked = {}
      <3>1. reloads' = reloads + 1 /\ reloads \in Nat
        BY <1>2, <1>3, <2>1 DEF onComplete, TypeOK
      <3>2. reloads' # 0
        BY <3>1
      <3> QED BY <3>2 DEF TableFollowsList, SpinningEnds
    <2>2. CASE linked # {}
      <3>1. UNCHANGED <<screen, calls, started>>
        BY <1>2, <2>2
      <3> QED BY <3>1
          DEF JInv, TableFollowsList, SpinningEnds, screen, Called, history
    <2> QED BY <2>1, <2>2
  <1> QED BY <1>6, <1>11, <1>12, <1>17, <1>18 DEF JInv

(***************************************************************************)
(* The last read of a request is answered, and the request is joined.      *)
(***************************************************************************)
LEMMA Removed ==
    ASSUME TypeOK, OneEach, NEW q \in net, Send({}, net \ {q})
    PROVE  net' = net \ {q} /\ sent' \in Nat /\ OneEach'
  <1>1. net' = net \ {q}
    BY DEF Send
  <1>2. sent' \in Nat
    BY BoundsAssumption DEF Send, TypeOK
  <1> QED BY <1>1, <1>2 DEF OneEach

\* Read q is about request i of refresh k, and no other counter changes.
About(q, k, i) ==
    /\ q.kind # "list" /\ k = q.refresh /\ i = q.id /\ Called(q)
    /\ counter' \in [Refreshes -> [Ids -> Nat]]
    /\ \A j \in Refreshes \ {k} : counter'[j] = counter[j]
    /\ \A m \in Ids \ {i} : counter'[k][m] = counter[k][m]

Joins(q, k, i) ==
    /\ About(q, k, i)
    /\ Send({}, net \ {q}) /\ RequestJoined(k, i, {i} \cap wellFormed)
    /\ \A p \in net \ {q} : p.refresh = k => p.id # i

LEMMA JoinStep ==
    ASSUME JInv, NEW q \in net, NEW k \in Refreshes, NEW i \in Ids,
           Joins(q, k, i)
    PROVE  JInv'
  <1> USE DEF Joins, About
  <1>1. TypeOK /\ OneEach /\ RefreshSound(k)
    BY DEF JInv
  <1>2. net' = net \ {q} /\ sent' \in Nat /\ OneEach'
    BY <1>1, Removed
  <1>3. /\ q.kind \in {"request", "item"}
        /\ k <= started /\ calls[k] = 0 /\ i \in listed[k] \ requests[k]
        /\ q.kind = "item" => i \in wellFormed
    BY <1>1 DEF RefreshSound, ReadsSound, TypeOK, Query
  <1>4. PICK z \in Zones : z = zone[i]
    BY <1>1 DEF TypeOK
  <1>5. /\ ~Asked(k, i)' /\ ItemsOut(k, i)' = {}
        /\ \A m \in Ids \ {i} : Asked(k, m)' <=> Asked(k, m)
        /\ \A m \in Ids \ {i} : ItemsOut(k, m)' = ItemsOut(k, m)
    BY <1>2 DEF Asked, ItemsOut
  <1>6. /\ requests'[k] = requests[k] \cup ({i} \cap wellFormed)
        /\ UNCHANGED <<listed, zone, wellFormed>>
    BY <1>1 DEF RequestJoined, TypeOK, server
  <1>7. Closed(k, i, z)
    <2>1. i \in OpenIn(k, z)
      BY <1>3, <1>4 DEF OpenIn, Asked
    <2>2. OpenIn(k, z)' = OpenIn(k, z) \ {i}
      <3>1. ASSUME NEW m PROVE m \in OpenIn(k, z)' <=> m \in OpenIn(k, z) \ {i}
        <4>1. listed[k] \subseteq Ids
          BY <1>1 DEF TypeOK
        <4>2. CASE m = i
          BY <1>5, <1>6, <4>2 DEF OpenIn
        <4>3. CASE m # i
          BY <1>5, <1>6, <4>1, <4>3 DEF OpenIn
        <4> QED BY <4>2, <4>3
      <3> QED BY <3>1
    <2>3. ASSUME NEW y \in Zones \ {z} PROVE OpenIn(k, y)' = OpenIn(k, y)
      <3>1. ASSUME NEW m PROVE m \in OpenIn(k, y)' <=> m \in OpenIn(k, y)
        <4>1. listed[k] \subseteq Ids
          BY <1>1 DEF TypeOK
        <4>2. CASE m = i
          BY <1>4, <1>6, <4>2 DEF OpenIn
        <4>3. CASE m # i
          BY <1>5, <1>6, <4>1, <4>3 DEF OpenIn
        <4> QED BY <4>2, <4>3
      <3> QED BY <3>1
    <2> QED BY <1>4, <2>1, <2>2, <2>3 DEF Closed
  <1> DEFINE r == {i} \cap wellFormed
  <1>8. r \in SUBSET Ids /\ RequestJoined(k, i, r) /\ RequestsCounted(k)
    BY <1>1 DEF RefreshSound
  <1>9. /\ RequestsCounted(k)'
        /\ requestCount' \in [Refreshes -> [Zones -> Nat]]
        /\ zoneCount' \in [Refreshes -> Nat]
        /\ requests' \in [Refreshes -> SUBSET Ids]
        /\ calls' \in [Refreshes -> Nat]
        /\ IF OpenZones(k)' = {}
           THEN /\ calls'[k] = 1 /\ reloads' = reloads + 1
                /\ userRequests' = requests'[k]
           ELSE calls'[k] = 0 /\ UNCHANGED <<reloads, userRequests>>
        /\ UNCHANGED <<rows, refreshing, server, signedIn, started, listed>>
        /\ \A j \in Refreshes \ {k} :
             /\ zoneCount'[j] = zoneCount[j]
             /\ requestCount'[j] = requestCount[j]
             /\ requests'[j] = requests[j] /\ calls'[j] = calls[j]
    <2> HIDE DEF r
    <2> QED BY <1>1, <1>3, <1>7, <1>8, Joined
  <1>10. TypeOK'
    <2>1. userRequests' \subseteq Ids /\ reloads' \in Nat
      BY <1>1, <1>9 DEF TypeOK
    <2>2. net' \subseteq Query /\ refused' \subseteq net'
      BY <1>1, <1>2 DEF TypeOK, Called
    <2> QED BY <1>1, <1>2, <1>9, <2>1, <2>2 DEF TypeOK, server, Called, history
  <1>11. ASSUME NEW j \in Refreshes, j # k PROVE RefreshSound(j)'
    <2>1. Untouched(j)
      BY <1>2, <1>9, <1>11 DEF Untouched, Called, history
    <2>2. UNCHANGED Requests /\ started' = started /\ started \in Nat
      BY <1>1, <1>9 DEF Requests, server, TypeOK, Refreshes
    <2> QED BY <2>1, <2>2, OthersStay DEF JInv
  <1>12. RefreshSound(k)'
    <2>1. ReadsSound(k)'
      <3> SUFFICES ASSUME NEW p \in net', p.refresh = k
                   PROVE  /\ k <= started' /\ calls'[k] = 0
                          /\ p.kind # "list"
                          /\ p.id \in listed'[k] \ requests'[k]
                          /\ p.kind = "request" => p.item = None
                          /\ p.kind = "item" => /\ p.id \in wellFormed'
                                                /\ p.item \in content'[p.id]
        BY DEF ReadsSound
      <3>1. p \in net /\ p # q /\ p.id # i
        BY <1>2
      <3>2. p.kind # "list"
        BY <1>1, <3>1 DEF RefreshSound, ReadsSound
      <3>3. /\ p.id \in listed[k] \ requests[k]
            /\ p.kind = "request" => p.item = None
            /\ p.kind = "item" => /\ p.id \in wellFormed
                                  /\ p.item \in content[p.id]
        BY <1>1, <3>1, <3>2 DEF RefreshSound, ReadsSound
      <3>4. p.id \in listed'[k] \ requests'[k]
        BY <1>6, <3>1, <3>3
      <3>5. PICK y \in Zones : p.id \in OpenIn(k, y)'
        <4>1. p.kind \in {"request", "item"} /\ p.id \in Ids
          BY <1>1, <3>1, <3>2, <3>3 DEF TypeOK, Query
        <4> QED BY <1>6, <1>10, <3>3, <3>4, <4>1 DEF OpenIn, Asked, TypeOK
      <3>6. OpenZones(k)' # {}
        BY <3>5 DEF OpenZones
      <3> QED BY <1>3, <1>9, <3>2, <3>3, <3>4, <3>6 DEF server
    <2>2. Loading(k)'
      <3>1. UNCHANGED content
        BY <1>9 DEF server
      <3>2. i \notin (listed'[k] \cap wellFormed') \ requests'[k]
        BY <1>6
      <3> QED BY <1>1, <1>5, <1>6, <3>1, <3>2 DEF RefreshSound, Loading
    <2>3. ItemsCounted(k)'
      BY <1>1, <1>5 DEF RefreshSound, ItemsCounted
    <2>4. Completed(k)'
      <3>1. requests'[k] \subseteq listed'[k] \cap wellFormed'
        BY <1>1, <1>3, <1>6 DEF RefreshSound, Completed
      <3>2. started' = started /\ started \in Nat /\ k \in Nat
        BY <1>1, <1>9 DEF TypeOK, Refreshes
      <3> QED BY <1>3, <1>9, <3>1, <3>2 DEF Completed
    <2>5. Waits(k)'
      <3>1. listed'[k] \subseteq Ids
        BY <1>10 DEF TypeOK
      <3>2. OpenZones(k)' # {} => Asking(k)' \/ MetEmpty(k)'
        BY <2>2, <3>1, SomeoneCalls
      <3> QED BY <1>9, <3>2 DEF Waits
    <2> QED BY <1>9, <2>1, <2>2, <2>3, <2>4, <2>5 DEF RefreshSound
  <1>13. TableFollowsList' /\ SpinningEnds'
    <2>1. CASE OpenZones(k)' = {}
      <3>1. reloads' # 0
        BY <1>1, <1>9, <2>1 DEF TypeOK
      <3> QED BY <3>1 DEF TableFollowsList, SpinningEnds
    <2>2. CASE OpenZones(k)' # {}
      <3>1. UNCHANGED <<reloads, userRequests, rows, refreshing, started>>
        BY <1>9, <2>2
      <3>2. \A j \in Refreshes : calls'[j] = calls[j]
        BY <1>3, <1>9, <2>2
      <3>3. pulled..started \subseteq Refreshes
        <4>1. pulled \in Refreshes /\ started \in Refreshes
          BY <1>1 DEF TypeOK
        <4> QED BY <4>1, BoundsAssumption DEF Refreshes
      <3> QED BY <3>1, <3>2, <3>3
          DEF JInv, TableFollowsList, SpinningEnds, Called, history
    <2> QED BY <2>1, <2>2
  <1> QED BY <1>2, <1>10, <1>11, <1>12, <1>13 DEF JInv

(***************************************************************************)
(* A request that gets no further than its own read, or its items do.      *)
(***************************************************************************)
Loads(q, k, i) ==
    /\ About(q, k, i) /\ i \in wellFormed
    /\ net \ {q} \subseteq net' /\ net' \subseteq Query
    /\ sent' \in Nat /\ OneEach'
    /\ \A p \in net \cup net' :
            p.refresh # k \/ p.id # i => p \in net /\ p \in net'
    /\ \A p \in net' : p.refresh = k /\ p.id = i =>
            p.kind = "item" /\ p.item \in content[i]
    /\ content[i] = {} \/ ItemsOut(k, i)' # {}
    /\ ItemsOut(k, i)' # {} => counter'[k][i] = Cardinality(ItemsOut(k, i)')
    /\ UNCHANGED <<server, signedIn, started, listed, zoneCount,
                   requestCount, requests, calls, screen>>

LEMMA LoadStep ==
    ASSUME JInv, NEW q \in net, NEW k \in Refreshes, NEW i \in Ids,
           Loads(q, k, i)
    PROVE  JInv'
  <1> USE DEF Loads, About
  <1>1. TypeOK /\ OneEach /\ RefreshSound(k)
    BY DEF JInv
  <1>2. /\ k <= started /\ calls[k] = 0 /\ i \in listed[k] \ requests[k]
    BY <1>1 DEF RefreshSound, ReadsSound
  <1>3. TypeOK'
    <2>1. refused' \subseteq net'
      BY <1>1 DEF TypeOK, Called
    <2> QED BY <1>1, <2>1 DEF TypeOK, server, screen, Called, history
  <1>4. ASSUME NEW j \in Refreshes, j # k PROVE RefreshSound(j)'
    <2>1. Untouched(j)
      BY <1>4 DEF Untouched, Called, history
    <2>2. UNCHANGED Requests /\ started' = started /\ started \in Nat
      BY <1>1 DEF Requests, server, TypeOK, Refreshes
    <2> QED BY <2>1, <2>2, OthersStay DEF JInv
  <1>5. /\ ~Asked(k, i)'
        /\ \A m \in Ids \ {i} : Asked(k, m)' <=> Asked(k, m)
        /\ \A m \in Ids \ {i} : ItemsOut(k, m)' = ItemsOut(k, m)
    BY DEF Asked, ItemsOut
  <1>6. \A z : OpenIn(k, z)' = OpenIn(k, z)
    <2> SUFFICES ASSUME NEW z PROVE OpenIn(k, z)' = OpenIn(k, z)
      OBVIOUS
    <2>1. ASSUME NEW m PROVE m \in OpenIn(k, z)' <=> m \in OpenIn(k, z)
      <3>1. listed[k] \subseteq Ids
        BY <1>1 DEF TypeOK
      <3>2. CASE m = i
        BY <1>2, <3>2 DEF OpenIn, server
      <3>3. CASE m # i
        BY <1>5, <3>1, <3>3 DEF OpenIn, server
      <3> QED BY <3>2, <3>3
    <2> QED BY <2>1
  <1>7. OpenZones(k)' = OpenZones(k)
    BY <1>6 DEF OpenZones
  <1>8. ReadsSound(k)'
    <2> SUFFICES ASSUME NEW p \in net', p.refresh = k
                 PROVE  /\ k <= started' /\ calls'[k] = 0
                        /\ p.kind # "list"
                        /\ p.id \in listed'[k] \ requests'[k]
                        /\ p.kind = "request" => p.item = None
                        /\ p.kind = "item" => /\ p.id \in wellFormed'
                                              /\ p.item \in content'[p.id]
      BY DEF ReadsSound
    <2>1. CASE p.id = i
      BY <1>2, <2>1 DEF server
    <2>2. CASE p.id # i
      <3>1. p \in net /\ p # q
        BY <2>2
      <3>2. p.kind # "list"
        BY <1>1, <3>1 DEF RefreshSound, ReadsSound
      <3> QED BY <1>1, <1>2, <3>1, <3>2 DEF RefreshSound, ReadsSound, server
    <2> QED BY <2>1, <2>2
  <1>9. Loading(k)' /\ ItemsCounted(k)'
    BY <1>1, <1>5 DEF RefreshSound, Loading, ItemsCounted, server
  <1>10. RequestsCounted(k)' /\ Completed(k)'
    BY <1>1, <1>6, <1>7 DEF RefreshSound, RequestsCounted, Completed, server
  <1>11. RefreshSound(k)'
    <2>1. Waits(k)'
      <3>1. CASE content[i] = {}
        BY <1>2, <3>1 DEF Waits, MetEmpty, server
      <3>2. CASE ItemsOut(k, i)' # {}
        BY <3>2 DEF Waits, ItemsOut, Asking
      <3> QED BY <3>1, <3>2
    <2> QED BY <1>8, <1>9, <1>10, <2>1 DEF RefreshSound
  <1>12. TableFollowsList' /\ SpinningEnds'
    BY DEF JInv, TableFollowsList, SpinningEnds, screen, Called, history
  <1> QED BY <1>3, <1>4, <1>11, <1>12 DEF JInv

(***************************************************************************)
(* A request is answered.                                                  *)
(***************************************************************************)
LEMMA RequestStep ==
    ASSUME JInv, NEW q \in net, RequestAnswered(q), Called(q)
    PROVE  JInv'
  <1>1. TypeOK /\ OneEach /\ q.kind = "request" /\ q \in Query
    BY DEF JInv, TypeOK, RequestAnswered
  <1>2. PICK k \in Refreshes : k = q.refresh
    BY <1>1 DEF Query
  <1>3. RefreshSound(k)
    BY DEF JInv
  <1>4. PICK i \in Ids : /\ i = q.id /\ i \in listed[k] \ requests[k]
                         /\ q.item = None
    BY <1>1, <1>2, <1>3 DEF RefreshSound, ReadsSound, TypeOK
  <1>5. ItemsOut(k, i) = {}
    <2>1. Asked(k, i)
      BY <1>1, <1>2, <1>4 DEF Asked
    <2> QED BY <1>3, <2>1 DEF RefreshSound, Loading
  <1>6. ASSUME NEW p \in net \ {q}, p.refresh = k PROVE p.id # i
    <2> SUFFICES ASSUME p.id = i PROVE FALSE
      OBVIOUS
    <2>1. p.kind \in {"list", "request", "item"} /\ p.item \in Items \cup {None}
      BY <1>1 DEF TypeOK, Query
    <2>2. p.kind # "list"
      BY <1>2, <1>3, <1>6 DEF RefreshSound, ReadsSound
    <2>3. p.kind = "item" => p.item \in Items
      BY <1>1, <1>3, <1>6 DEF RefreshSound, ReadsSound, TypeOK
    <2>4. p.kind # "item"
      BY <1>5, <1>6, <2>3 DEF ItemsOut
    <2>5. Same(p, q)
      BY <1>1, <1>2, <1>3, <1>4, <1>6, <2>1, <2>2, <2>4
      DEF Same, RefreshSound, ReadsSound
    <2> QED BY <1>1, <2>5 DEF OneEach
  <1>7. CASE i \notin wellFormed
    <2>1. Send({}, net \ {q}) /\ RequestJoined(k, i, {}) /\ UNCHANGED counter
      BY <1>2, <1>4, <1>7 DEF RequestAnswered
    <2>2. RequestJoined(k, i, {i} \cap wellFormed)
      <3>1. {i} \cap wellFormed = {}
        BY <1>7
      <3> QED BY <2>1, <3>1
    <2>3. counter' \in [Refreshes -> [Ids -> Nat]]
      BY <1>1, <2>1 DEF TypeOK
    <2>4. Joins(q, k, i)
      BY <1>1, <1>2, <1>4, <1>6, <2>1, <2>2, <2>3 DEF Joins, About
    <2> QED BY <2>4, JoinStep
  <1>8. CASE i \in wellFormed
    <2> DEFINE batch == {<<k, "item", i, x>> : x \in content[i]}
    <2>1. /\ Send(batch, net \ {q})
          /\ counter' = [counter EXCEPT ![k][i] = Cardinality(content[i])]
          /\ UNCHANGED <<server, signedIn, started, listed, zoneCount,
                         requestCount, requests, calls, screen>>
      BY <1>2, <1>4, <1>8 DEF RequestAnswered
    <2>2. content[i] \subseteq Items /\ Cardinality(content[i]) \in Nat
      BY <1>1, FiniteAssumption, FS_Subset, FS_CardinalityType DEF TypeOK
    <2>3. /\ Reads(batch)
          /\ \A p \in net \ {q}, b \in batch : ~Is(p, b)
      BY <1>6, <2>2 DEF Reads, Is
    <2>4. OneEach'
      BY <1>1, <2>1, <2>3, SentOnce
    <2>5. /\ net' \subseteq Query /\ sent' \in Nat
          /\ net \ {q} \subseteq net'
          /\ \A p \in net' : p \in net \ {q} \/ \E b \in batch : Is(p, b)
          /\ \A b \in batch : \E p \in net' : Is(p, b)
      <3>1. net \ {q} \in SUBSET net
        OBVIOUS
      <3> QED BY <1>1, <2>1, <2>3, <3>1, Sent
    <2>6. /\ \A p \in net' : p \in net \ {q} \/ \E x \in content[i] :
                 p.refresh = k /\ p.kind = "item" /\ p.id = i /\ p.item = x
          /\ \A x \in content[i] : \E p \in net' :
                 p.refresh = k /\ p.kind = "item" /\ p.id = i /\ p.item = x
      <3>1. ASSUME NEW x \in content[i] PROVE \E p \in net' :
                 p.refresh = k /\ p.kind = "item" /\ p.id = i /\ p.item = x
        <4>1. <<k, "item", i, x>> \in batch
          OBVIOUS
        <4> QED BY <2>5, <4>1 DEF Is
      <3> QED BY <2>5, <3>1 DEF Is
    <2> HIDE DEF batch
    <2>7. ItemsOut(k, i)' = content[i]
      BY <1>6, <2>2, <2>6 DEF ItemsOut
    <2>8. /\ \A p \in net \cup net' :
                p.refresh # k \/ p.id # i => p \in net /\ p \in net'
          /\ \A p \in net' : p.refresh = k /\ p.id = i =>
                p.kind = "item" /\ p.item \in content[i]
      BY <1>2, <1>4, <1>6, <2>5, <2>6
    <2>9. /\ counter' \in [Refreshes -> [Ids -> Nat]]
          /\ \A j \in Refreshes \ {k} : counter'[j] = counter[j]
          /\ \A m \in Ids \ {i} : counter'[k][m] = counter[k][m]
          /\ counter'[k][i] = Cardinality(content[i])
      BY <1>1, <2>1, <2>2 DEF TypeOK
    <2>10. /\ content[i] = {} \/ ItemsOut(k, i)' # {}
           /\ ItemsOut(k, i)' # {} =>
                counter'[k][i] = Cardinality(ItemsOut(k, i)')
      BY <2>7, <2>9
    <2>11. q.kind # "list"
      BY <1>1
    <2>12. About(q, k, i)
      BY <1>2, <1>4, <2>9, <2>11 DEF About
    <2>13. Loads(q, k, i)
      BY <1>8, <2>1, <2>4, <2>5, <2>8, <2>10, <2>12 DEF Loads
    <2> QED BY <2>13, LoadStep
  <1> QED BY <1>7, <1>8

(***************************************************************************)
(* An item is answered: the counter of its request tells whether another   *)
(* one is out.                                                             *)
(***************************************************************************)
LEMMA ItemStep ==
    ASSUME JInv, NEW q \in net, ItemAnswered(q), Called(q)
    PROVE  JInv'
  <1>1. TypeOK /\ OneEach /\ q.kind = "item" /\ q \in Query
    BY DEF JInv, TypeOK, ItemAnswered
  <1>2. PICK k \in Refreshes : k = q.refresh
    BY <1>1 DEF Query
  <1>3. RefreshSound(k)
    BY DEF JInv
  <1>4. PICK i \in Ids : /\ i = q.id /\ i \in listed[k] \ requests[k]
                         /\ i \in wellFormed /\ q.item \in content[i]
    BY <1>1, <1>2, <1>3 DEF RefreshSound, ReadsSound, TypeOK
  <1>5. PICK x \in Items : x = q.item /\ x \in ItemsOut(k, i)
    BY <1>1, <1>2, <1>4 DEF ItemsOut, TypeOK
  <1>6. net' = net \ {q} /\ sent' \in Nat /\ OneEach'
    BY <1>1, Removed DEF ItemAnswered
  <1>7. ItemsOut(k, i)' = ItemsOut(k, i) \ {x}
    <2>1. \A p \in net : /\ p.refresh = k /\ p.kind = "item" /\ p.id = i
                         /\ p.item = x
                         => p = q
      BY <1>1, <1>2, <1>4, <1>5 DEF OneEach, Same
    <2> QED BY <1>1, <1>2, <1>4, <1>5, <1>6, <2>1 DEF ItemsOut
  <1>8. IsFiniteSet(ItemsOut(k, i))
    BY <1>1, Finite
  <1>9. /\ Cardinality(ItemsOut(k, i)) \in Nat \ {0}
        /\ Cardinality(ItemsOut(k, i) \ {x}) = Cardinality(ItemsOut(k, i)) - 1
        /\ Cardinality(ItemsOut(k, i)) - 1 = 0 <=> ItemsOut(k, i) \ {x} = {}
    BY <1>5, <1>8, OneLess, Zenon
  <1> DEFINE left == counter[k][i] - 1
  <1>10. /\ left \in Nat
         /\ left = Cardinality(ItemsOut(k, i)')
         /\ left = 0 <=> ItemsOut(k, i)' = {}
    <2>1. counter[k][i] = Cardinality(ItemsOut(k, i))
      BY <1>3, <1>5 DEF RefreshSound, ItemsCounted
    <2> QED BY <1>7, <1>9, <2>1
  <1>11. /\ Send({}, net \ {q})
         /\ counter' = [counter EXCEPT ![k][i] = left]
         /\ IF left = 0
            THEN RequestJoined(k, i, {i})
            ELSE UNCHANGED <<server, signedIn, started, listed, zoneCount,
                             requestCount, requests, calls, screen>>
    BY <1>2, <1>4 DEF ItemAnswered
  <1> HIDE DEF left
  <1>12. /\ counter' \in [Refreshes -> [Ids -> Nat]]
         /\ \A j \in Refreshes \ {k} : counter'[j] = counter[j]
         /\ \A m \in Ids \ {i} : counter'[k][m] = counter[k][m]
         /\ counter'[k][i] = left
    BY <1>1, <1>10, <1>11 DEF TypeOK
  <1>13. ASSUME NEW p \in net, p.refresh = k, p.id = i
         PROVE  p.kind = "item" /\ p.item \in content[i] /\ p.item \in Items
    <2>1. ~Asked(k, i)
      BY <1>3, <1>5 DEF RefreshSound, Loading
    <2>2. p.kind \in {"list", "request", "item"}
      BY <1>1 DEF TypeOK, Query
    <2>3. p.kind # "list"
      BY <1>1, <1>2, <1>3, <1>13 DEF RefreshSound, ReadsSound
    <2>4. p.kind = "item"
      BY <1>13, <2>1, <2>2, <2>3 DEF Asked
    <2> QED BY <1>1, <1>3, <1>13, <2>4 DEF RefreshSound, ReadsSound, TypeOK
  <1>14. CASE left = 0
    <2>1. {i} \cap wellFormed = {i}
      BY <1>4
    <2>2. RequestJoined(k, i, {i} \cap wellFormed)
      BY <1>11, <1>14, <2>1
    <2>3. \A p \in net \ {q} : p.refresh = k => p.id # i
      BY <1>6, <1>10, <1>13, <1>14 DEF ItemsOut
    <2>4. q.kind # "list"
      BY <1>1
    <2>5. Joins(q, k, i)
      BY <1>2, <1>4, <1>11, <1>12, <2>2, <2>3, <2>4 DEF Joins, About
    <2> QED BY <2>5, JoinStep
  <1>15. CASE left # 0
    <2>1. /\ \A p \in net \cup net' :
                p.refresh # k \/ p.id # i => p \in net /\ p \in net'
          /\ \A p \in net' : p.refresh = k /\ p.id = i =>
                p.kind = "item" /\ p.item \in content[i]
      BY <1>2, <1>4, <1>6, <1>13
    <2>2. UNCHANGED <<server, signedIn, started, listed, zoneCount,
                      requestCount, requests, calls, screen>>
      BY <1>11, <1>15
    <2>3. /\ content[i] = {} \/ ItemsOut(k, i)' # {}
          /\ ItemsOut(k, i)' # {} =>
                counter'[k][i] = Cardinality(ItemsOut(k, i)')
      BY <1>10, <1>12, <1>15
    <2>4. q.kind # "list" /\ net' \subseteq Query
      BY <1>1, <1>6 DEF TypeOK
    <2>5. About(q, k, i)
      BY <1>2, <1>4, <1>12, <2>4 DEF About
    <2>6. Loads(q, k, i)
      BY <1>4, <1>6, <2>1, <2>2, <2>3, <2>4, <2>5 DEF Loads
    <2> QED BY <2>6, LoadStep
  <1> QED BY <1>14, <1>15

-----------------------------------------------------------------------------
LEMMA InitSound == Init => JInv
  <1> SUFFICES ASSUME Init PROVE JInv
    OBVIOUS
  <1>1. 1 \in Refreshes /\ Refreshes \subseteq Nat
    BY BoundsAssumption DEF Refreshes
  <1>2. \A q \in net : /\ q.refresh = 1 /\ q.kind = "list" /\ q.id = None
                       /\ q.item = None /\ q.ticket = 0 /\ q \in Query
    <2> DEFINE first == [refresh |-> 1, kind |-> "list", id |-> None,
                         item |-> None, ticket |-> 0]
    <2>1. first \in Query
      BY <1>1 DEF Query
    <2>2. \A q \in net : q = first
      BY DEF Init
    <2> QED BY <2>1, <2>2
  <1>3. TypeOK
    BY <1>1, <1>2, BoundsAssumption DEF Init, TypeOK
  <1>4. \A p, q \in net : p = q
    BY DEF Init
  <1>5. ASSUME NEW k \in Refreshes PROVE RefreshSound(k)
    <2>1. listed[k] = {} /\ requests[k] = {} /\ calls[k] = 0
      BY DEF Init
    <2>2. /\ \A i : ~Asked(k, i) /\ ItemsOut(k, i) = {}
          /\ \A z : OpenIn(k, z) = {}
          /\ OpenZones(k) = {}
      BY <1>2, <2>1 DEF Asked, ItemsOut, OpenIn, OpenZones
    <2>3. ReadsSound(k)
      <3> SUFFICES ASSUME NEW q \in net, q.refresh = k
                   PROVE  /\ k <= started /\ calls[k] = 0
                          /\ q.kind = "list" /\ q.id = None /\ q.item = None
                          /\ listed[k] = {}
                          /\ \A p \in net : p.refresh = k => p = q
        BY DEF ReadsSound
      <3>1. started = 1 /\ k = 1
        BY <1>2 DEF Init
      <3> QED BY <1>2, <1>4, <2>1, <3>1
    <2>4. RequestsCounted(k)
      BY <2>2, FS_EmptySet DEF Init, RequestsCounted
    <2>5. Waits(k)
      <3> SUFFICES ASSUME k = 1, signedIn PROVE Asking(k)
        <4>1. started = 1 /\ (~signedIn => 1 \in unasked)
          BY DEF Init
        <4>2. k <= 1 => k = 1
          BY DEF Refreshes
        <4> QED BY <4>1, <4>2 DEF Waits
      <3>1. [refresh |-> 1, kind |-> "list", id |-> None, item |-> None,
             ticket |-> 0] \in net
        BY DEF Init
      <3> QED BY <3>1 DEF Asking
    <2> QED BY <2>1, <2>2, <2>3, <2>4, <2>5
        DEF RefreshSound, Loading, ItemsCounted, Completed
  <1> QED BY <1>3, <1>4, <1>5
      DEF Init, JInv, OneEach, TableFollowsList, SpinningEnds

(***************************************************************************)
(* The steps that leave all reads and joins alone.                         *)
(***************************************************************************)
LEMMA QuietStep ==
    ASSUME JInv, UNCHANGED <<Requests, started, net, sent, local, calls, history>>,
           linked' \subseteq Ids, signedIn' \in BOOLEAN, refused' \subseteq net,
           \/ UNCHANGED screen
           \/ /\ reloads' \in Nat /\ refreshing' = FALSE
              /\ rows' = userRequests /\ UNCHANGED userRequests
    PROVE  JInv'
  <1>1. TypeOK'
    BY DEF JInv, TypeOK, Requests, local, screen, history
  <1>2. OneEach'
    BY DEF JInv, OneEach
  <1>3. ASSUME NEW k \in Refreshes PROVE RefreshSound(k)'
    <2>1. Untouched(k)
      BY DEF Untouched, local, history
    <2>2. started \in Nat
      BY DEF JInv, TypeOK, Refreshes
    <2> QED BY <2>1, <2>2, OthersStay DEF JInv
  <1>4. TableFollowsList' /\ SpinningEnds'
    BY DEF JInv, TableFollowsList, SpinningEnds, screen, history
  <1> QED BY <1>1, <1>2, <1>3, <1>4 DEF JInv

LEMMA NextSound == JInv /\ [Next]_vars => JInv'
  <1> SUFFICES ASSUME JInv, [Next]_vars PROVE JInv'
    OBVIOUS
  <1>1. CASE objcRefreshData
    BY <1>1, RefreshStep DEF objcRefreshData
  <1>2. CASE unwindToLandingVC
    BY <1>2, RefreshStep DEF unwindToLandingVC
  <1>3. CASE Answer
    BY <1>3, ListStep, RequestStep, ItemStep DEF Answer, Answerable, Called
  <1>4. CASE Reload
    <2>1. reloads' \in Nat
      BY <1>4 DEF Reload, JInv, TypeOK
    <2> QED BY <1>4, <2>1, QuietStep DEF Reload, JInv, TypeOK, Requests, server
  <1>5. CASE \E i \in Ids : Linked(i)
    BY <1>5, QuietStep DEF Linked, JInv, TypeOK, Requests
  <1>6. CASE LoseSession
    BY <1>6, QuietStep DEF LoseSession, JInv, TypeOK, Requests, server
  <1>7. CASE SignInAgain
    BY <1>7, QuietStep DEF SignInAgain, JInv, TypeOK, Requests, server
  <1>8. CASE Refuse
    BY <1>8, QuietStep DEF Refuse, JInv, TypeOK, Requests, server
  <1>9. CASE UNCHANGED vars
    BY <1>9, QuietStep DEF vars, JInv, TypeOK, Requests, server
  <1> QED BY <1>1, <1>2, <1>3, <1>4, <1>5, <1>6, <1>7, <1>8, <1>9 DEF Next

(***************************************************************************)
(* Every state of a run has the counters of its joins right.               *)
(***************************************************************************)
THEOREM Inductive == Spec => []JInv
  BY InitSound, NextSound, PTL DEF Spec

(***************************************************************************)
(* No counter of the join is ever counted below zero: the UInts of         *)
(* fetchAllUserRequests and getAllItems do not trap.                       *)
(***************************************************************************)
THEOREM TypeCorrect == Spec => []TypeOK
  <1>1. JInv => TypeOK
    BY DEF JInv
  <1> QED BY <1>1, Inductive, PTL

\* Counters that are right make the join exact.
LEMMA JoinedAll == JInv => JoinDeliversAll
  <1> SUFFICES ASSUME JInv, NEW k \in Refreshes
               PROVE  /\ calls[k] <= 1
                      /\ calls[k] = 1 =>
                            /\ requests[k] = listed[k] \cap wellFormed
                            /\ \A q \in net : q.refresh # k
    BY DEF JoinDeliversAll
  <1>1. RefreshSound(k) /\ TypeOK
    BY DEF JInv
  <1>2. calls[k] <= 1
    BY <1>1 DEF RefreshSound, Completed
  <1>3. ASSUME calls[k] = 1, NEW i \in listed[k] \cap wellFormed
        PROVE  i \in requests[k]
    <2>1. zone[i] \in Zones
      BY <1>1 DEF TypeOK
    <2>2. OpenIn(k, zone[i]) = {}
      BY <1>1, <1>3, <2>1 DEF RefreshSound, Completed, OpenZones
    <2> QED BY <2>2 DEF OpenIn
  <1>4. requests[k] \subseteq listed[k] \cap wellFormed
    BY <1>1 DEF RefreshSound, Completed
  <1>5. calls[k] = 1 => \A q \in net : q.refresh # k
    BY <1>1 DEF RefreshSound, ReadsSound
  <1> QED BY <1>2, <1>3, <1>4, <1>5

(***************************************************************************)
(* A refresh completes at most once, after its last read, with every sound *)
(* request of its list: however many zones, requests and items it has, and *)
(* however many refreshes overlap.                                         *)
(***************************************************************************)
THEOREM JoinExact == Spec => []JoinDeliversAll
  BY JoinedAll, Inductive, PTL

(***************************************************************************)
(* The table falls behind userRequests, the list its taps index, only      *)
(* while a reload is scheduled, in whatever order completions, reloads and *)
(* new refreshes follow each other.  What a tap in that window does is not *)
(* said.                                                                   *)
(***************************************************************************)
THEOREM TableFollows == Spec => []TableFollowsList
  <1>1. JInv => TableFollowsList
    BY DEF JInv
  <1> QED BY <1>1, Inductive, PTL

(***************************************************************************)
(* If the refresh control spins with no read to be answered and no reload  *)
(* to come, no refresh begun since the pull can complete: each began       *)
(* without a user, had a read refused, or met a request without content.   *)
(***************************************************************************)
THEOREM Spins == Spec => []SpinsForAReason
  <1>1. ASSUME JInv, refreshing, net \subseteq refused, reloads = 0,
               NEW k \in pulled..started
        PROVE  Blocked(k)
    <2>1. k \in Refreshes /\ k <= started
      <3>1. pulled \in Refreshes /\ started \in Refreshes
        BY <1>1 DEF JInv, TypeOK
      <3> QED BY <1>1, <3>1, BoundsAssumption DEF Refreshes
    <2>2. calls[k] = 0
      BY <1>1 DEF JInv, SpinningEnds
    <2>3. k \in unasked \/ Asking(k) \/ MetEmpty(k)
      BY <1>1, <2>1, <2>2 DEF JInv, RefreshSound, Waits
    <2> QED BY <1>1, <2>3 DEF Asking, Refused, Blocked
  <1>2. JInv => SpinsForAReason
    BY <1>1 DEF SpinsForAReason
  <1> QED BY <1>2, Inductive, PTL

-----------------------------------------------------------------------------
(***************************************************************************)
(* A connection that answers reads in order.  A refresh never gets ahead   *)
(* of an older one: while the older has a list out, the younger has no     *)
(* more than its list; while the older has requests out, the younger has   *)
(* no items yet; and of two reads of a kind the older refresh's goes first.*)
(* A refresh one of whose reads has been refused does not complete and is  *)
(* out of the order: the others may get ahead of what is left of it.       *)
(***************************************************************************)
Live == {q \in net : ~Refused(q.refresh)}

Rank(kind) == CASE kind = "list" -> 1 [] kind = "request" -> 2 [] OTHER -> 3

\* The younger read q is not ahead of p.
Behind(p, q) ==
    /\ Rank(q.kind) <= Rank(p.kind)
    /\ p.kind = q.kind => p.ticket < q.ticket

InTurn ==
    \A p, q \in Live :
        /\ p.ticket < sent
        /\ p.refresh < q.refresh => Behind(p, q)
        /\ (p.refresh = q.refresh /\ p.kind = "request" /\ q.kind = "item") =>
            p.ticket < q.ticket

\* What the requests on their lists have to do with each other.
ListsGrow ==
    /\ \A j \in Refreshes : listed[j] \subseteq linked
    /\ \A j \in Refreshes, q \in Live :
        (j < q.refresh /\ q.kind # "list") => listed[j] \subseteq listed[q.refresh]

\* Requests are delivered when all of the list have been asked for.
NoneEarly == \A q \in Live : q.kind = "request" => requests[q.refresh] = {}

\* A refresh that has completed has no older one under way.
NoneLate == \A p \in Live, k \in Refreshes : p.refresh < k => calls[k] = 0

\* The inductive invariant, on top of JInv.
OInv == InTurn /\ ListsGrow /\ NoneEarly /\ NoneLate /\ NewestWins

(***************************************************************************)
(* The answer to read q sends reads of the next kind with a new ticket,    *)
(* and changes its own refresh only.                                       *)
(***************************************************************************)
NewOf(p, q) ==
    /\ p.refresh = q.refresh /\ p.ticket = sent
    /\ \/ q.kind = "list" /\ p.kind = "request"
       \/ q.kind = "request" /\ p.kind = "item"

Effect(q, k) ==
    /\ sent' = sent + 1
    /\ \A p \in net' : p \in net \ {q} \/ NewOf(p, q)
    /\ UNCHANGED server
    /\ \A m \in Refreshes \ {k} :
            listed'[m] = listed[m] /\ requests'[m] = requests[m]
    /\ \/ UNCHANGED <<calls, userRequests>>
       \/ /\ calls' = [calls EXCEPT ![k] = @ + 1]
          /\ userRequests' = requests'[k]
    /\ listed'[k] = IF q.kind = "list" THEN linked ELSE listed[k]
    /\ q.kind # "item" => requests'[k] = requests[k]
    /\ q.kind = "list" /\ linked # {} => UNCHANGED calls

LEMMA SentInOrder ==
    ASSUME InOrder, NEW batch, NEW rest, Send(batch, rest)
    PROVE  /\ sent' = sent + 1
           /\ \A p \in net' : \/ p \in rest
                              \/ p.ticket = sent /\ \E b \in batch : Is(p, b)
  BY DEF Send, Is

LEMMA Joining ==
    ASSUME TypeOK, NEW k \in Refreshes, NEW i, NEW r, RequestJoined(k, i, r)
    PROVE  /\ UNCHANGED <<server, listed>>
           /\ requests'[k] = requests[k] \cup r
           /\ \A m \in Refreshes \ {k} : requests'[m] = requests[m]
           /\ \/ UNCHANGED <<calls, userRequests>>
              \/ /\ calls' = [calls EXCEPT ![k] = @ + 1]
                 /\ userRequests' = requests'[k]
  <1>1. /\ requests' = [requests EXCEPT ![k] = @ \cup r]
        /\ UNCHANGED <<server, listed>>
        /\ onComplete(k, requests'[k]) \/ UNCHANGED <<calls, screen>>
    BY DEF RequestJoined
  <1>2. \/ UNCHANGED <<calls, userRequests>>
        \/ /\ calls' = [calls EXCEPT ![k] = @ + 1]
           /\ userRequests' = requests'[k]
    BY <1>1 DEF onComplete, screen
  <1> QED BY <1>1, <1>2 DEF TypeOK

LEMMA AnswerEffect ==
    ASSUME InOrder, JInv, NEW q \in net, NEW k \in Refreshes, k = q.refresh,
           ListAnswered(q) \/ RequestAnswered(q) \/ ItemAnswered(q)
    PROVE  Effect(q, k)
  <1>1. TypeOK /\ RefreshSound(k)
    BY DEF JInv
  <1>2. CASE ListAnswered(q)
    <2> DEFINE batch == {<<k, "request", i, None>> : i \in linked}
    <2>1. /\ q.kind = "list" /\ Send(batch, net \ {q})
          /\ listed' = [listed EXCEPT ![k] = linked]
          /\ UNCHANGED <<server, requests>>
          /\ IF linked = {} THEN onComplete(k, {})
                            ELSE UNCHANGED <<calls, screen>>
      BY <1>2 DEF ListAnswered
    <2>2. /\ sent' = sent + 1
          /\ \A p \in net' : \/ p \in net \ {q}
                             \/ p.ticket = sent /\ \E b \in batch : Is(p, b)
      <3> HIDE DEF batch
      <3> QED BY <2>1, SentInOrder
    <2>3. \A p \in net' : p \in net \ {q} \/ NewOf(p, q)
      BY <2>1, <2>2 DEF Is, NewOf
    <2>4. requests[k] = {}
      BY <1>1, <2>1 DEF RefreshSound, ReadsSound, Completed
    <2>5. \/ UNCHANGED <<calls, userRequests>>
          \/ /\ calls' = [calls EXCEPT ![k] = @ + 1]
             /\ userRequests' = requests'[k]
      BY <2>1, <2>4 DEF onComplete, screen
    <2>6. /\ \A m \in Refreshes \ {k} : listed'[m] = listed[m]
          /\ listed'[k] = linked
      BY <1>1, <2>1 DEF TypeOK
    <2> HIDE DEF batch
    <2> QED BY <2>1, <2>2, <2>3, <2>5, <2>6 DEF Effect
  <1>3. CASE RequestAnswered(q)
    <2>1. q.kind = "request"
      BY <1>3 DEF RequestAnswered
    <2>2. CASE q.id \notin wellFormed
      <3>1. Send({}, net \ {q}) /\ RequestJoined(k, q.id, {})
        BY <1>3, <2>2 DEF RequestAnswered
      <3>2. /\ sent' = sent + 1
            /\ \A p \in net' : p \in net \ {q}
        BY <3>1, SentInOrder
      <3>3. /\ UNCHANGED <<server, listed>>
            /\ requests'[k] = requests[k] \cup {}
            /\ \A m \in Refreshes \ {k} : requests'[m] = requests[m]
            /\ \/ UNCHANGED <<calls, userRequests>>
               \/ /\ calls' = [calls EXCEPT ![k] = @ + 1]
                  /\ userRequests' = requests'[k]
        BY <1>1, <3>1, Joining
      <3> QED BY <2>1, <3>2, <3>3 DEF Effect
    <2>3. CASE q.id \in wellFormed
      <3> DEFINE batch == {<<k, "item", q.id, x>> : x \in content[q.id]}
      <3>1. /\ Send(batch, net \ {q})
            /\ UNCHANGED <<server, listed, requests, calls, screen>>
        BY <1>3, <2>3 DEF RequestAnswered
      <3>2. /\ sent' = sent + 1
            /\ \A p \in net' : \/ p \in net \ {q}
                               \/ p.ticket = sent /\ \E b \in batch : Is(p, b)
        <4> HIDE DEF batch
        <4> QED BY <3>1, SentInOrder
      <3>3. \A p \in net' : p \in net \ {q} \/ NewOf(p, q)
        BY <2>1, <3>2 DEF Is, NewOf
      <3> HIDE DEF batch
      <3> QED BY <2>1, <3>1, <3>2, <3>3 DEF Effect, screen
    <2> QED BY <2>2, <2>3
  <1>4. CASE ItemAnswered(q)
    <2>1. /\ q.kind = "item" /\ Send({}, net \ {q})
          /\ \/ RequestJoined(k, q.id, {q.id})
             \/ UNCHANGED <<server, listed, requests, calls, screen>>
      BY <1>4 DEF ItemAnswered
    <2>2. /\ sent' = sent + 1
          /\ \A p \in net' : p \in net \ {q}
      BY <2>1, SentInOrder
    <2>3. CASE RequestJoined(k, q.id, {q.id})
      BY <1>1, <2>1, <2>2, <2>3, Joining DEF Effect
    <2>4. CASE UNCHANGED <<server, listed, requests, calls, screen>>
      BY <2>1, <2>2, <2>4 DEF Effect, screen
    <2> QED BY <2>1, <2>3, <2>4
  <1> QED BY <1>2, <1>3, <1>4

\* What is live after an answer was so before, or comes of a live read.
LEMMA LiveAfter ==
    ASSUME NEW q \in net, NEW k \in Refreshes, k = q.refresh, Effect(q, k),
           UNCHANGED refused, NEW p \in Live'
    PROVE  p \in Live \ {q} \/ (NewOf(p, q) /\ q \in Live)
  BY DEF Effect, Live, Refused, NewOf

(***************************************************************************)
(* An answer keeps the refreshes in turn.                                  *)
(***************************************************************************)
LEMMA KeepsTurn ==
    ASSUME JInv, InTurn, NEW q \in Live, NEW k \in Refreshes, k = q.refresh,
           \A p \in Live : q.ticket <= p.ticket, Effect(q, k), UNCHANGED refused
    PROVE  InTurn'
  <1>1. /\ sent \in Nat /\ sent' = sent + 1
        /\ \A p \in Live : /\ p.ticket \in Nat /\ p.refresh \in Nat
                           /\ p.kind \in {"list", "request", "item"}
    BY DEF JInv, TypeOK, Effect, Query, Refreshes, Live
  <1>2. ASSUME NEW p \in Live' PROVE p \in Live \ {q} \/ NewOf(p, q)
    <2>1. q \in net
      BY DEF Live
    <2> QED BY <2>1, LiveAfter
  <1>3. \A p \in Live' : p.refresh \in Nat /\ p.ticket \in Nat /\ p.ticket < sent'
    BY <1>1, <1>2 DEF NewOf, InTurn
  <1>4. ASSUME NEW p \in Live', NEW s \in Live', p.refresh < s.refresh
        PROVE  Behind(p, s)
    <2>1. CASE p \in Live /\ s \in Live
      BY <1>4, <2>1 DEF InTurn
    <2>2. CASE NewOf(p, q) /\ s \in Live
      <3>1. Behind(q, s)
        BY <1>4, <2>2 DEF InTurn, NewOf
      <3>2. s.kind \in {"list", "request", "item"}
        BY <1>1, <2>2
      <3> QED BY <2>2, <3>1, <3>2 DEF Behind, NewOf, Rank
    <2>3. CASE p \in Live /\ NewOf(s, q)
      <3>1. Behind(p, q)
        BY <1>4, <2>3 DEF InTurn, NewOf
      <3>2. q.ticket <= p.ticket /\ p.ticket \in Nat /\ q.ticket \in Nat
        BY <1>1, <2>3
      <3>3. p.kind # q.kind
        BY <3>1, <3>2 DEF Behind
      <3>4. p.ticket < sent /\ p.kind \in {"list", "request", "item"}
        BY <1>1, <2>3 DEF InTurn
      <3> QED BY <2>3, <3>1, <3>3, <3>4 DEF Behind, NewOf, Rank
    <2>4. CASE NewOf(p, q) /\ NewOf(s, q)
      <3>1. p.refresh = s.refresh /\ p.refresh \in Nat
        BY <1>3, <2>4 DEF NewOf
      <3> QED BY <1>4, <3>1
    <2> QED BY <1>2, <2>1, <2>2, <2>3, <2>4
  <1>5. ASSUME NEW p \in Live', NEW s \in Live', p.refresh = s.refresh,
               p.kind = "request", s.kind = "item"
        PROVE  p.ticket < s.ticket
    <2>1. CASE p \in Live /\ s \in Live
      BY <1>5, <2>1 DEF InTurn
    <2>2. CASE p \in Live /\ NewOf(s, q)
      BY <2>2 DEF InTurn, NewOf
    <2>3. CASE NewOf(p, q) /\ s \in Live /\ s # q
      <3>1. q.kind = "list" /\ s.refresh = k
        BY <1>5, <2>3 DEF NewOf
      <3>2. s = q
        BY <2>3, <3>1 DEF JInv, RefreshSound, ReadsSound, Live
      <3> QED BY <2>3, <3>2
    <2>4. CASE NewOf(p, q) /\ NewOf(s, q)
      BY <1>5, <2>4 DEF NewOf
    <2> QED BY <1>2, <2>1, <2>2, <2>3, <2>4
  <1> QED BY <1>3, <1>4, <1>5 DEF InTurn

(***************************************************************************)
(* When a refresh completes, no older one has a read out: its reads would  *)
(* have been answered before, or the completed one would still wait for    *)
(* the same requests.                                                      *)
(***************************************************************************)
LEMMA CompletesLast ==
    ASSUME JInv, JInv', OInv, NEW q \in Live, NEW k \in Refreshes,
           k = q.refresh, \A p \in Live : q.ticket <= p.ticket, Effect(q, k),
           calls'[k] = 1, NEW p \in Live, p.refresh < k
    PROVE  FALSE
  <1>1. TypeOK /\ Live \subseteq net /\ \A s \in net : s.ticket \in Nat
    BY DEF JInv, TypeOK, Query, Live
  <1>2. PICK j \in Refreshes : j = p.refresh
    BY <1>1 DEF TypeOK, Query
  <1>3. Behind(p, q)
    BY DEF OInv, InTurn
  <1>4. p.kind # q.kind
    BY <1>1, <1>3 DEF Behind
  <1>5. p.kind \in {"list", "request", "item"} /\ q.kind \in {"list", "request", "item"}
    BY <1>1 DEF TypeOK, Query
  <1>6. p.kind # "list" /\ q.kind # "item"
    BY <1>3, <1>4, <1>5 DEF Behind, Rank
  <1>7. p.id \in listed[j] /\ (p.kind = "item" => p.id \in wellFormed)
    BY <1>1, <1>2, <1>6 DEF JInv, RefreshSound, ReadsSound
  <1>8. requests'[k] = listed'[k] \cap wellFormed'
    <2>1. JoinDeliversAll'
      BY JoinedAll, PTL
    <2> QED BY <2>1 DEF JoinDeliversAll
  <1>9. UNCHANGED server /\ requests'[k] = requests[k]
    BY <1>6 DEF Effect
  <1>10. calls[k] = 0
    BY <1>1 DEF JInv, RefreshSound, ReadsSound
  <1>11. CASE q.kind = "list"
    <2>1. listed[j] \subseteq linked
      BY DEF OInv, ListsGrow
    <2>2. linked # {}
      BY <1>7, <2>1
    <2>3. calls'[k] = calls[k]
      BY <1>11, <2>2 DEF Effect
    <2> QED BY <1>10, <2>3
  <1>12. CASE q.kind = "request"
    <2>1. p.kind = "item"
      BY <1>4, <1>5, <1>6, <1>12
    <2>2. listed[j] \subseteq listed[k]
      BY <1>2, <1>12 DEF OInv, ListsGrow
    <2>3. requests[k] = {}
      BY <1>12 DEF OInv, NoneEarly
    <2>4. listed'[k] = listed[k] /\ wellFormed' = wellFormed
      BY <1>12 DEF Effect, server
    <2> QED BY <1>7, <1>8, <1>9, <2>1, <2>2, <2>3, <2>4
  <1> QED BY <1>5, <1>6, <1>11, <1>12

(***************************************************************************)
(* An answer keeps the order of the refreshes.                             *)
(***************************************************************************)
LEMMA AnswerInOrder ==
    ASSUME InOrder, JInv, JInv', OInv, NEW q \in Live, NEW k \in Refreshes,
           k = q.refresh, \A p \in Live : q.ticket <= p.ticket, Effect(q, k),
           UNCHANGED refused
    PROVE  OInv'
  <1>1. /\ TypeOK /\ TypeOK' /\ q \in Query
        /\ Live \subseteq net /\ Live' \subseteq net'
        /\ \A p \in Live : p.ticket \in Nat
    BY DEF JInv, TypeOK, Query, Live
  <1>2. RefreshSound(k) /\ calls[k] = 0
    BY <1>1 DEF JInv, RefreshSound, ReadsSound
  <1>3. \A p \in Live' : p \in Live \ {q} \/ NewOf(p, q)
    BY <1>1, LiveAfter
  <1>4. InTurn'
    BY <1>1, KeepsTurn DEF OInv
  <1>5. ListsGrow'
    <2>1. ASSUME NEW j \in Refreshes PROVE listed'[j] \subseteq linked'
      <3>1. linked' = linked /\ listed[j] \subseteq linked
        BY DEF Effect, server, OInv, ListsGrow
      <3>2. listed'[j] \in {listed[j], linked}
        BY DEF Effect
      <3> QED BY <3>1, <3>2
    <2>2. ASSUME NEW j \in Refreshes, NEW p \in Live', j < p.refresh,
                 p.kind # "list"
          PROVE  listed'[j] \subseteq listed'[p.refresh]
      <3>1. PICK m \in Refreshes : m = p.refresh
        BY <1>1 DEF TypeOK, Query
      <3>2. CASE q.kind # "list"
        <4>1. listed' [j] = listed[j] /\ listed'[m] = listed[m]
          BY <3>2 DEF Effect
        <4>2. \E s \in Live : s.refresh = m /\ s.kind # "list"
          BY <1>3, <2>2, <3>1, <3>2 DEF NewOf
        <4>3. listed[j] \subseteq listed[m]
          BY <2>2, <3>1, <4>2 DEF OInv, ListsGrow
        <4> QED BY <3>1, <4>1, <4>3
      <3>3. CASE q.kind = "list" /\ m = k
        <4>1. listed'[k] = linked /\ linked' = linked
          BY <3>3 DEF Effect, server
        <4> QED BY <2>1, <3>1, <3>3, <4>1
      <3>4. CASE q.kind = "list" /\ m # k
        <4>1. p \in Live
          BY <1>3, <3>1, <3>4 DEF NewOf
        <4>2. j # k
          <5> SUFFICES ASSUME j = k PROVE FALSE
            OBVIOUS
          <5>1. Behind(q, p)
            BY <2>2, <4>1 DEF OInv, InTurn
          <5>2. p.kind \in {"list", "request", "item"}
            BY <1>1, <4>1 DEF TypeOK, Query
          <5> QED BY <2>2, <3>4, <5>1, <5>2 DEF Behind, Rank
        <4>3. listed'[j] = listed[j] /\ listed'[m] = listed[m]
          BY <3>4, <4>2 DEF Effect
        <4> QED BY <2>2, <3>1, <4>1, <4>3 DEF OInv, ListsGrow
      <3> QED BY <3>2, <3>3, <3>4
    <2> QED BY <2>1, <2>2 DEF ListsGrow
  <1>6. NoneEarly'
    <2> SUFFICES ASSUME NEW p \in Live', p.kind = "request"
                 PROVE  requests'[p.refresh] = {}
      BY DEF NoneEarly
    <2>1. PICK m \in Refreshes : m = p.refresh
      BY <1>1 DEF TypeOK, Query
    <2>2. CASE NewOf(p, q)
      <3>1. q.kind = "list" /\ m = k
        BY <2>1, <2>2 DEF NewOf
      <3>2. requests[k] = {}
        BY <1>1, <1>2, <3>1 DEF RefreshSound, ReadsSound, Completed
      <3> QED BY <2>1, <3>1, <3>2 DEF Effect
    <2>3. CASE p \in Live
      <3>1. requests[m] = {}
        BY <2>1, <2>3 DEF OInv, NoneEarly
      <3>2. ~(m = k /\ q.kind = "item")
        <4> SUFFICES ASSUME m = k, q.kind = "item" PROVE FALSE
          OBVIOUS
        <4>1. p.ticket < q.ticket
          BY <2>1, <2>3 DEF OInv, InTurn
        <4> QED BY <1>1, <2>3, <4>1
      <3> QED BY <2>1, <3>1, <3>2 DEF Effect
    <2> QED BY <1>3, <2>2, <2>3
  <1>7. /\ calls' \in [Refreshes -> Nat]
        /\ \A m \in Refreshes \ {k} : calls'[m] = calls[m]
        /\ calls'[k] = 0 \/ calls'[k] = 1
        /\ calls'[k] = 1 => userRequests' = requests'[k]
        /\ calls'[k] = 0 => UNCHANGED <<calls, userRequests>>
    BY <1>1, <1>2 DEF Effect, TypeOK
  <1>8. NoneLate'
    <2> SUFFICES ASSUME NEW p \in Live', NEW m \in Refreshes, p.refresh < m
                 PROVE  calls'[m] = 0
      BY DEF NoneLate
    <2>1. PICK s \in Live : s.refresh = p.refresh
      BY <1>3 DEF NewOf
    <2>2. calls[m] = 0
      BY <2>1 DEF OInv, NoneLate
    <2>3. m = k => calls'[k] # 1
      BY <2>1, CompletesLast
    <2> QED BY <1>7, <2>2, <2>3
  <1>9. NewestWins'
    <2> SUFFICES ASSUME NEW m \in Refreshes, calls'[m] > 0,
                        \A j \in Refreshes : calls'[j] > 0 => j <= m
                 PROVE  userRequests' = requests'[m]
      BY DEF NewestWins
    <2>1. CASE m = k
      BY <1>7, <2>1
    <2>2. CASE m # k
      <3>1. ~(k < m)
        BY <1>7, <2>2 DEF OInv, NoneLate
      <3>2. calls'[k] # 1
        BY <2>2, <3>1 DEF Refreshes
      <3>3. UNCHANGED <<calls, userRequests>>
        BY <1>7, <3>2
      <3>4. requests'[m] = requests[m]
        BY <2>2 DEF Effect
      <3> QED BY <3>3, <3>4 DEF OInv, NewestWins
    <2> QED BY <2>1, <2>2
  <1> QED BY <1>4, <1>5, <1>6, <1>8, <1>9 DEF OInv

\* An answer to a read of a refresh that cannot complete.
LEMMA AnswerOutOfOrder ==
    ASSUME JInv, JInv', OInv, NEW q \in net \ Live, q \notin refused,
           NEW k \in Refreshes, k = q.refresh, Effect(q, k), UNCHANGED refused
    PROVE  OInv'
  <1>1. TypeOK /\ TypeOK' /\ RefreshSound(k) /\ RefreshSound(k)'
    BY DEF JInv
  <1>2. PICK p \in refused : p.refresh = k /\ p \in net /\ p \in net'
    BY <1>1 DEF Live, Refused, TypeOK
  <1>3. calls[k] = 0 /\ calls'[k] = 0
    BY <1>1, <1>2 DEF RefreshSound, ReadsSound
  <1>4. UNCHANGED <<calls, userRequests>>
    BY <1>1, <1>3 DEF Effect, TypeOK
  <1>5. q.kind # "list"
    BY <1>1, <1>2 DEF RefreshSound, ReadsSound
  <1>6. /\ \A j \in Refreshes : listed'[j] = listed[j]
        /\ linked' = linked /\ sent' = sent + 1 /\ sent \in Nat
        /\ \A j \in Refreshes \ {k} : requests'[j] = requests[j]
    BY <1>1, <1>5 DEF Effect, server, TypeOK
  <1>7. /\ Live' \subseteq Live
        /\ \A s \in Live : /\ s.refresh \in Refreshes \ {k}
                            /\ s.ticket \in Nat
    <2>1. \A s \in Live' : s \in Live
      BY LiveAfter
    <2>2. ASSUME NEW s \in Live PROVE s.refresh \in Refreshes /\ s.ticket \in Nat
      BY <1>1 DEF Live, TypeOK, Query
    <2> QED BY <1>2, <2>1, <2>2 DEF Live, Refused
  <1>8. InTurn'
    BY <1>6, <1>7 DEF OInv, InTurn
  <1>9. ListsGrow'
    BY <1>6, <1>7 DEF OInv, ListsGrow
  <1>10. NoneEarly' /\ NoneLate'
    BY <1>4, <1>6, <1>7 DEF OInv, NoneEarly, NoneLate
  <1>11. NewestWins'
    BY <1>3, <1>4, <1>6 DEF OInv, NewestWins
  <1> QED BY <1>8, <1>9, <1>10, <1>11 DEF OInv

LEMMA AnswersInOrder ==
    ASSUME InOrder, JInv, JInv', OInv, Answer
    PROVE  OInv'
  <1>1. PICK q \in net : /\ q \notin refused /\ UNCHANGED refused
                         /\ \A p \in net \ refused : q.ticket <= p.ticket
                         /\ \/ ListAnswered(q)
                            \/ RequestAnswered(q)
                            \/ ItemAnswered(q)
    BY DEF Answer, Answerable
  <1>2. PICK k \in Refreshes : k = q.refresh
    BY DEF JInv, TypeOK, Query
  <1>3. Effect(q, k)
    BY <1>1, <1>2, AnswerEffect
  <1>4. Live \subseteq net \ refused
    BY DEF Live, Refused
  <1>5. CASE q \in Live
    BY <1>1, <1>2, <1>3, <1>4, <1>5, AnswerInOrder
  <1>6. CASE q \notin Live
    BY <1>1, <1>2, <1>3, <1>6, AnswerOutOfOrder
  <1> QED BY <1>5, <1>6

\* A new refresh is behind all others.
LEMMA RefreshInOrder ==
    ASSUME InOrder, JInv, JInv', OInv, refreshData
    PROVE  OInv'
  <1>1. PICK k \in Refreshes : /\ started \in Nat /\ k = started + 1
                               /\ started' = k
    BY BoundsAssumption DEF JInv, TypeOK, refreshData, Refreshes
  <1>2. UNCHANGED <<server, refused, local, calls, userRequests>>
    BY DEF refreshData
  <1> DEFINE batch == {<<k, "list", None, None>>}
  <1>2a. /\ sent \in Nat /\ sent' \in Nat /\ sent <= sent'
        /\ \A p \in net' : \/ p \in net
                           \/ /\ p.refresh = k /\ p.kind = "list"
                              /\ p.ticket = sent /\ sent < sent'
    <2>1. sent \in Nat /\ sent' \in Nat
      BY DEF JInv, TypeOK
    <2>2. CASE signedIn
      <3>1. Send(batch, net)
        BY <1>1, <2>2 DEF refreshData
      <3>2. /\ sent' = sent + 1
            /\ \A p \in net' : \/ p \in net
                               \/ p.ticket = sent /\ \E b \in batch : Is(p, b)
        <4> HIDE DEF batch
        <4> QED BY <3>1, SentInOrder
      <3> QED BY <2>1, <3>2 DEF Is
    <2>3. CASE ~signedIn
      BY <2>1, <2>3 DEF refreshData
    <2> QED BY <2>2, <2>3
  <1>3. /\ sent \in Nat /\ sent' \in Nat /\ sent <= sent'
        /\ \A p \in Live' : \/ p \in Live
                            \/ /\ p.refresh = k /\ p.kind = "list"
                               /\ p.ticket = sent /\ sent < sent'
    <2>1. \A p \in Live' : p \in net' /\ (p \in net => p \in Live)
      BY <1>2 DEF Live, Refused
    <2> QED BY <1>2a, <2>1
  <1>4. ASSUME NEW p \in Live
        PROVE  /\ p.refresh \in Nat /\ p.refresh < k /\ p.ticket \in Nat
               /\ p.kind \in {"list", "request", "item"} /\ p.refresh \in Refreshes
    <2>1. p.refresh \in Refreshes /\ p.ticket \in Nat
          /\ p.kind \in {"list", "request", "item"}
      BY DEF JInv, TypeOK, Query, Live
    <2>2. p.refresh <= started
      BY <2>1 DEF JInv, RefreshSound, ReadsSound, Live
    <2> QED BY <1>1, <2>1, <2>2 DEF Refreshes
  <1>5. InTurn'
    <2>1. ASSUME NEW p \in Live' PROVE p.ticket < sent'
      BY <1>3, <1>4, <2>1 DEF OInv, InTurn
    <2>2. ASSUME NEW p \in Live', NEW q \in Live', p.refresh < q.refresh
          PROVE  Behind(p, q)
      <3>1. CASE p \in Live /\ q \in Live
        BY <2>2, <3>1 DEF OInv, InTurn
      <3>2. CASE p \in Live /\ q \notin Live
        <4>1. q.kind = "list" /\ q.ticket = sent /\ p.ticket < sent
          BY <1>3, <3>2 DEF OInv, InTurn
        <4> QED BY <1>4, <3>2, <4>1 DEF Behind, Rank
      <3>3. p \in Live
        <4> SUFFICES ASSUME p.refresh = k PROVE FALSE
          BY <1>3
        <4>1. q.refresh \in Nat /\ q.refresh <= k
          BY <1>1, <1>3, <1>4 DEF Refreshes
        <4> QED BY <1>1, <2>2, <4>1
      <3> QED BY <3>1, <3>2, <3>3
    <2>3. ASSUME NEW p \in Live', NEW q \in Live', p.refresh = q.refresh,
                 p.kind = "request", q.kind = "item"
          PROVE  p.ticket < q.ticket
      BY <1>3, <2>3 DEF OInv, InTurn
    <2> QED BY <2>1, <2>2, <2>3 DEF InTurn
  <1>6. ListsGrow' /\ NoneEarly'
    BY <1>2, <1>3 DEF OInv, ListsGrow, NoneEarly, server, local
  <1>7. NoneLate'
    <2> SUFFICES ASSUME NEW p \in Live', NEW m \in Refreshes, p.refresh < m
                 PROVE  calls'[m] = 0
      BY DEF NoneLate
    <2>1. CASE p \in Live
      BY <1>2, <2>1 DEF OInv, NoneLate
    <2>2. CASE p \notin Live
      <3>1. m > started
        BY <1>1, <1>3, <2>2 DEF Refreshes
      <3> QED BY <1>2, <3>1 DEF JInv, RefreshSound, Completed
    <2> QED BY <2>1, <2>2
  <1>8. NewestWins'
    BY <1>2 DEF OInv, NewestWins, local
  <1> QED BY <1>5, <1>6, <1>7, <1>8 DEF OInv

LEMMA NextInOrder ==
    ASSUME InOrder, JInv, JInv', OInv, [Next]_vars
    PROVE  OInv'
  <1>1. ASSUME UNCHANGED <<net, sent, local, calls, userRequests>>,
               refused \subseteq refused', linked \subseteq linked'
        PROVE  OInv'
    <2>1. Live' \subseteq Live
      BY <1>1 DEF Live, Refused
    <2> QED BY <1>1, <2>1
        DEF OInv, InTurn, ListsGrow, NoneEarly, NoneLate, NewestWins, local
  <1>2. CASE objcRefreshData \/ unwindToLandingVC
    BY <1>2, RefreshInOrder DEF objcRefreshData, unwindToLandingVC
  <1>3. CASE Answer
    BY <1>3, AnswersInOrder
  <1>4. CASE Reload
    BY <1>1, <1>4 DEF Reload, server
  <1>5. CASE \E i \in Ids : Linked(i)
    BY <1>1, <1>5 DEF Linked, screen
  <1>6. CASE LoseSession
    BY <1>1, <1>6 DEF LoseSession, server, screen
  <1>7. CASE SignInAgain
    BY <1>1, <1>7 DEF SignInAgain, server, screen
  <1>8. CASE Refuse
    BY <1>1, <1>8 DEF Refuse, server, screen
  <1>9. CASE UNCHANGED vars
    BY <1>1, <1>9 DEF vars, server, screen
  <1> QED BY <1>2, <1>3, <1>4, <1>5, <1>6, <1>7, <1>8, <1>9 DEF Next

LEMMA InitInOrder ==
    ASSUME InOrder, Init
    PROVE  OInv
  <1>1. \A p \in Live : p.refresh = 1 /\ p.kind = "list" /\ p.ticket = 0
    <2>1. \A p \in net : p = [refresh |-> 1, kind |-> "list", id |-> None,
                              item |-> None, ticket |-> 0]
      BY DEF Init
    <2> QED BY <2>1 DEF Live
  <1>2. \A k \in Refreshes : calls[k] = 0 /\ listed[k] = {} /\ requests[k] = {}
    BY DEF Init
  <1>3. sent = 1
    BY DEF Init
  <1>4. InTurn
    BY <1>1, <1>3 DEF InTurn
  <1> QED BY <1>1, <1>2, <1>4 DEF OInv, ListsGrow, NoneEarly, NoneLate, NewestWins

(***************************************************************************)
(* If the connection answers reads in order, overlapping refreshes do not  *)
(* overtake each other: the landing screen has the list of the youngest    *)
(* refresh that has completed, whatever the requests are worth and         *)
(* whichever reads are refused.                                            *)
(***************************************************************************)
THEOREM NewestFirst ==
    ASSUME InOrder
    PROVE  Spec => []NewestWins
  <1>1. Init => OInv
    BY InitInOrder
  <1>2. JInv /\ JInv' /\ OInv /\ [Next]_vars => OInv'
    BY NextInOrder
  <1>3. OInv => NewestWins
    BY DEF OInv
  <1> QED BY <1>1, <1>2, <1>3, Inductive, PTL DEF Spec
=============================================================================
