---------------------------- MODULE BasketProofs ----------------------------
(***************************************************************************)
(* Proofs about Basket, for any items, categories, limits and objects: the *)
(* basket holds an item once and in bounds, the screens agree with it, and *)
(* a click changes nothing but the clicked item, and items whose name it   *)
(* takes for another's.                                                    *)
(*                                                                         *)
(* What a plus appends is a row of the items screen, with the quantity the *)
(* row was left with: the bounds of the basket need bounds of the rows     *)
(* that have no entry (RowsInBounds), and these need that a row showed its *)
(* entry's quantity before the entry was removed (RowsAgreeWithBasket).    *)
(* For items that share a name nothing more is known of a row than that    *)
(* its quantity is one a cell can show.                                    *)
(***************************************************************************)
EXTENDS Basket, TLAPS

\* A limit is nil or one the database can have.
LimitsSound ==
    \A o \in basket \cup rows :
        heap[o].limit = None \/ heap[o].limit \in Limits[heap[o].id]

\* The quantity a row without an entry in the basket may show.
Leftover(item) ==
    \/ item.qty \in {0, 1}
    \/ /\ 0 \in Limits[item.id] \/ Shared(item.id)
       /\ item.qty \in 0..FreshCellMax

RowsInBounds ==
    \A r \in rows :
        IF pending = {}
        THEN Entries(heap, basket, heap[r].id) = {} \/ Shared(heap[r].id)
                => Leftover(heap[r])
        ELSE heap[r].qty = 0

\* What is there only on a screen that shows it.
Screens ==
    /\ screen # "items" => rows = {} /\ pending = {}
    /\ screen # "checkout" => request = {}
    /\ screen = "closed" => basket = {}

\* The inductive invariant.
BInv ==
    /\ TypeOK /\ LimitsSound /\ Screens
    /\ OneEntryPerItem /\ QuantitiesInBounds
    /\ RowsAgreeWithBasket /\ RowsInBounds
    /\ ActionBarTellsItems /\ CheckoutHasItems

-----------------------------------------------------------------------------
(***************************************************************************)
(* An item with another quantity, and an object that holds none.           *)
(***************************************************************************)
LEMMA WithQty ==
    \A r \in Item, n \in Int :
        /\ [r EXCEPT !.qty = n] \in Item
        /\ [r EXCEPT !.qty = n].id = r.id
        /\ [r EXCEPT !.qty = n].qty = n
        /\ [r EXCEPT !.qty = n].limit = r.limit
  BY DEF Item

LEMMA FreeIsNoItem == Free \notin Item
  BY NoneAssumption DEF Free, Item

\* A heap in which the objects of L hold items.
IsHeap(h, L) ==
    /\ h \in [Objs -> Item \cup {Free}]
    /\ L \subseteq Objs
    /\ \A o \in L : h[o] \in Item

(***************************************************************************)
(* Without a name to share, the entries of an item's name are its own.     *)
(***************************************************************************)
LEMMA OwnName ==
    \A i, j \in ItemIds : ~Shared(i) /\ SameName(j, i) => i = j
  BY DEF Shared, SameName

(***************************************************************************)
(* updateItemsFromBasket changes quantities only: a row has the quantity   *)
(* of an entry of its name, or keeps its own if there is none; an entry    *)
(* keeps its own if it has no namesake, or is no row.                      *)
(***************************************************************************)
RowsFollow(h, b, rs, u) ==
    /\ IsHeap(u, b \cup rs)
    /\ \A o \in b \cup rs : u[o].id = h[o].id /\ u[o].limit = h[o].limit
    /\ \A o \in b \ rs : u[o] = h[o]
    /\ \A o \in rs : \E e \in Sources(h, b, o) : u[o].qty = h[e].qty
    /\ \A o \in b \cup rs : Sources(h, b, o) = {o} => u[o] = h[o]

LEMMA ItemsUpdated ==
    ASSUME NEW h, NEW b, NEW rs, IsHeap(h, b \cup rs),
           NEW u \in updateItemsFromBasket(h, b, rs)
    PROVE  RowsFollow(h, b, rs, u)
  <1>1. PICK source \in [rs -> b \cup rs] :
            /\ \A o \in rs : source[o] \in Sources(h, b, o)
            /\ u = [o \in Objs |->
                     IF o \in rs THEN [h[o] EXCEPT !.qty = h[source[o]].qty]
                                 ELSE h[o]]
    BY DEF updateItemsFromBasket
  <1>2. /\ h \in [Objs -> Item \cup {Free}] /\ b \cup rs \subseteq Objs
        /\ \A o \in b \cup rs : h[o] \in Item /\ h[o].qty \in Int
    BY DEF IsHeap, Item
  <1>3. ASSUME NEW o \in rs
        PROVE  /\ u[o] = [h[o] EXCEPT !.qty = h[source[o]].qty]
               /\ u[o] \in Item /\ u[o].id = h[o].id /\ u[o].limit = h[o].limit
               /\ u[o].qty = h[source[o]].qty
    <2>1. u[o] = [h[o] EXCEPT !.qty = h[source[o]].qty]
      BY <1>1, <1>2
    <2>2. h[o] \in Item /\ h[source[o]].qty \in Int
      BY <1>1, <1>2
    <2> QED BY <2>1, <2>2, WithQty
  <1>4. \A o \in Objs \ rs : u[o] = h[o]
    BY <1>1
  <1>5. IsHeap(u, b \cup rs)
    <2>1. u \in [Objs -> Item \cup {Free}]
      BY <1>1, <1>2, <1>3, <1>4
    <2> QED BY <1>2, <1>3, <1>4, <2>1 DEF IsHeap
  <1>6. ASSUME NEW o \in b \cup rs, Sources(h, b, o) = {o}
        PROVE  u[o] = h[o]
    <2>1. CASE o \in rs
      <3>1. u[o] = [h[o] EXCEPT !.qty = h[o].qty]
        BY <1>1, <1>3, <1>6, <2>1
      <3> QED BY <1>2, <3>1 DEF Item
    <2>2. CASE o \notin rs
      BY <1>2, <1>4, <2>2
    <2> QED BY <2>1, <2>2
  <1>7. \A o \in b \cup rs : u[o].id = h[o].id /\ u[o].limit = h[o].limit
    BY <1>2, <1>3, <1>4
  <1>8. \A o \in rs : \E e \in Sources(h, b, o) : u[o].qty = h[e].qty
    BY <1>1, <1>3
  <1> QED BY <1>2, <1>4, <1>5, <1>6, <1>7, <1>8 DEF RowsFollow

(***************************************************************************)
(* What that does to the bounds: entries stay within theirs, rows without  *)
(* an entry, or with a shared name, show what an entry may start from, a   *)
(* row agrees with the one entry of its name, and an entry that is the     *)
(* only one of its name stays as it is.                                    *)
(***************************************************************************)
Within(item) ==
    /\ item.limit # None /\ item.qty >= 1
    /\ \/ item.qty <= item.limit
       \/ item.limit = 1 /\ item.qty = 2
       \/ /\ 0 \in Limits[item.id] \/ Shared(item.id)
          /\ item.qty <= FreshCellMax

Before(h, b, rs) ==
    /\ IsHeap(h, b \cup rs)
    /\ \A p, q \in b : h[p].id = h[q].id => p = q
    /\ \A p \in b : Within(h[p]) /\ h[p].qty <= FreshCellMax
    /\ \A r \in rs : (\A p \in b : h[p].id # h[r].id) => Leftover(h[r])

After(h, b, rs, u) ==
    /\ \A p \in b : Within(u[p])
    /\ \A r \in rs : (\A p \in b : u[p].id # u[r].id) \/ Shared(u[r].id)
                      => Leftover(u[r])
    /\ \A r \in rs, e \in b :
         Namesakes(u, b, r) = {e} => u[r].qty = u[e].qty
    /\ \A p \in b :
         (\A q \in b : SameName(h[q].id, h[p].id) => q = p) => u[p] = h[p]

LEMMA Followed ==
    ASSUME NEW h, NEW b, NEW rs, NEW u,
           Before(h, b, rs), RowsFollow(h, b, rs, u)
    PROVE  After(h, b, rs, u)
  <1> USE DEF Before
  <1>1. \A o \in b \cup rs :
            /\ h[o].id \in ItemIds /\ h[o].qty \in Int
            /\ u[o].id = h[o].id /\ u[o].limit = h[o].limit /\ u[o].qty \in Int
    BY DEF IsHeap, RowsFollow, Item
  <1>2. \A p \in b : p \in Namesakes(h, b, p)
    BY DEF Namesakes, SameName
  <1>3. ASSUME NEW p \in b, \A q \in b : SameName(h[q].id, h[p].id) => q = p
        PROVE  u[p] = h[p]
    <2>1. Sources(h, b, p) = {p}
      BY <1>2, <1>3 DEF Sources, Namesakes
    <2> QED BY <2>1 DEF RowsFollow
  <1>4. ASSUME NEW p \in b PROVE Within(u[p])
    <2>1. CASE p \notin rs
      <3>1. u[p] = h[p]
        BY <2>1 DEF RowsFollow
      <3> QED BY <3>1
    <2>2. CASE ~Shared(h[p].id)
      <3>1. u[p] = h[p]
        BY <1>1, <1>3, <2>2, OwnName
      <3> QED BY <3>1
    <2>3. CASE p \in rs /\ Shared(h[p].id)
      <3>1. PICK e \in Sources(h, b, p) : u[p].qty = h[e].qty
        BY <2>3 DEF RowsFollow
      <3>2. e \in b
        BY <1>2, <3>1 DEF Sources, Namesakes
      <3>3. u[p].qty >= 1 /\ u[p].qty <= FreshCellMax
        BY <3>1, <3>2 DEF Within
      <3>4. Shared(u[p].id) /\ u[p].limit # None
        BY <1>1, <2>3 DEF Within
      <3> QED BY <3>3, <3>4 DEF Within
    <2> QED BY <2>1, <2>2, <2>3
  <1>5. ASSUME NEW r \in rs, (\A p \in b : u[p].id # u[r].id) \/ Shared(u[r].id)
        PROVE  Leftover(u[r])
    <2>1. CASE Namesakes(h, b, r) = {}
      <3>1. u[r] = h[r]
        BY <2>1 DEF RowsFollow, Sources
      <3>2. \A p \in b : h[p].id # h[r].id
        BY <2>1 DEF Namesakes, SameName
      <3> QED BY <3>1, <3>2
    <2>2. CASE Namesakes(h, b, r) # {}
      <3>1. PICK e \in Namesakes(h, b, r) : u[r].qty = h[e].qty
        BY <2>2 DEF RowsFollow, Sources
      <3>2. e \in b /\ SameName(h[e].id, h[r].id)
        BY <3>1 DEF Namesakes
      <3>3. Shared(u[r].id)
        BY <1>1, <1>5, <3>2, OwnName
      <3>4. u[r].qty \in 0..FreshCellMax
        BY <1>1, <3>1, <3>2, FreshCellMaxAssumption DEF Within
      <3> QED BY <3>3, <3>4 DEF Leftover
    <2> QED BY <2>1, <2>2
  <1>6. ASSUME NEW r \in rs, NEW e \in b, Namesakes(u, b, r) = {e}
        PROVE  u[r].qty = u[e].qty
    <2>1. Namesakes(h, b, r) = {e}
      BY <1>1, <1>6 DEF Namesakes
    <2>2. u[r].qty = h[e].qty
      BY <2>1 DEF RowsFollow, Sources
    <2>3. u[e] = h[e]
      BY <1>3, <2>1 DEF Namesakes, SameName
    <2> QED BY <2>2, <2>3
  <1> QED BY <1>3, <1>4, <1>5, <1>6 DEF After

(***************************************************************************)
(* What Basket.update does to an item that has a limit, on a row of the    *)
(* basket or of the items screen.  One object e of the item changes its    *)
(* quantity: it is in the basket afterwards, in bounds, or it is removed   *)
(* at zero; or nothing happens, if there is nothing to take away.          *)
(***************************************************************************)
Counted(o, e, n, b) ==
    /\ n >= 1 /\ heap[e].limit # None
    /\ \/ n <= heap[e].limit
       \/ heap[e].limit = 1 /\ n = 2
       \/ /\ 0 \in Limits[heap[e].id] \/ Shared(heap[e].id)
          /\ n <= FreshCellMax
    /\ e \in basket \/ Entries(heap, basket, heap[o].id) = {}
    /\ b = basket \cup {e}

Removed(e, n, b) ==
    /\ n = 0
    /\ e \in basket
    /\ heap[e].qty = 1 \/ 0 \in Limits[heap[e].id]
    /\ b = basket \ {e}

Ignored(o, e, n, b) ==
    /\ e = o /\ n = heap[o].qty
    /\ Entries(heap, basket, heap[o].id) = {}
    /\ b = basket

LEMMA Updated ==
    ASSUME BInv, NEW o \in basket \cup rows, NEW m \in {1, -1},
           pending = {}, CellEnabled(o, m), heap[o].limit # None
    PROVE  \E e \in basket \cup rows, n \in Int :
              /\ heap[e].id = heap[o].id
              /\ UpdatedHeap(o, m) = [heap EXCEPT ![e] = [@ EXCEPT !.qty = n]]
              /\ \/ Counted(o, e, n, UpdatedItems(o, m))
                 \/ Removed(e, n, UpdatedItems(o, m))
                 \/ Ignored(o, e, n, UpdatedItems(o, m))
  <1> DEFINE match == Entries(heap, basket, heap[o].id)
  <1>1. /\ heap \in [Objs -> Item \cup {Free}]
        /\ basket \cup rows \subseteq Objs
        /\ \A p \in basket \cup rows : heap[p] \in Item
    BY DEF BInv, TypeOK
  <1>2. CASE match = {} /\ m = 1
    <2> DEFINE n == heap[o].qty + 1
    <2>1. heap[o] \in Item /\ o \in Objs /\ n \in Int
      BY <1>1 DEF Item
    <2>2. UpdatedHeap(o, m) = [heap EXCEPT ![o] = [@ EXCEPT !.qty = n]]
      <3>1. UpdatedHeap(o, m) =
                [p \in Objs |-> IF p = o
                                THEN [heap[p] EXCEPT !.qty = heap[p].qty + 1]
                                ELSE heap[p]]
        BY <1>2 DEF UpdatedHeap
      <3> QED BY <1>1, <3>1
    <2>3. UpdatedItems(o, m) = basket \cup {o}
      BY <1>2 DEF UpdatedItems
    <2>4. Counted(o, o, n, UpdatedItems(o, m))
      <3>1. o \in rows
        BY <1>2 DEF Entries
      <3>2. Leftover(heap[o]) /\ heap[o].qty < FreshCellMax
        BY <1>2, <3>1 DEF BInv, RowsInBounds, CellEnabled
      <3>3. heap[o].limit \in Nat /\ heap[o].id \in ItemIds /\ heap[o].qty \in Int
        BY <2>1 DEF Item
      <3>4. heap[o].limit \in Limits[heap[o].id]
        BY DEF BInv, LimitsSound
      <3> QED BY <1>2, <2>3, <3>2, <3>3, <3>4, FreshCellMaxAssumption
          DEF Counted, Leftover
    <2> QED BY <2>1, <2>2, <2>4
  <1>3. CASE match = {} /\ m = -1
    <2>1. heap[o] \in Item /\ o \in Objs /\ heap[o].qty \in Int
      BY <1>1 DEF Item
    <2>2. UpdatedHeap(o, m) = heap
      BY <1>1, <1>3 DEF UpdatedHeap
    <2>3. [heap[o] EXCEPT !.qty = heap[o].qty] = heap[o]
      BY <2>1 DEF Item
    <2>4. UpdatedHeap(o, m) = [heap EXCEPT ![o] = [@ EXCEPT !.qty = heap[o].qty]]
      BY <1>1, <2>1, <2>2, <2>3
    <2>5. Ignored(o, o, heap[o].qty, UpdatedItems(o, m))
      BY <1>3 DEF UpdatedItems, Ignored
    <2> QED BY <2>1, <2>4, <2>5
  <1>4. CASE match # {}
    <2>1. PICK e : e \in match
      BY <1>4
    <2>2. /\ match = {e} /\ e \in basket /\ heap[e].id = heap[o].id
          /\ heap[e] \in Item /\ e \in Objs
      BY <1>1, <2>1 DEF Entries, BInv, OneEntryPerItem
    <2> DEFINE n == Modified(heap[e], m)
    <2>3. /\ heap[e].limit \in Nat /\ heap[e].limit # None
          /\ heap[e].qty \in Int /\ heap[e].qty >= 1
          /\ heap[e].limit \in Limits[heap[e].id]
          /\ \/ heap[e].qty <= heap[e].limit
             \/ heap[e].limit = 1 /\ heap[e].qty = 2
             \/ /\ 0 \in Limits[heap[e].id] \/ Shared(heap[e].id)
                /\ heap[e].qty <= FreshCellMax
      BY <2>2 DEF BInv, QuantitiesInBounds, LimitsSound, Item
    <2>4. n \in Int /\ n >= 0 /\ n <= heap[e].limit
      BY <2>3 DEF Modified, Min
    <2>5. UpdatedHeap(o, m) = [heap EXCEPT ![e] = [@ EXCEPT !.qty = n]]
      BY <1>1, <2>2 DEF UpdatedHeap
    <2>6. CASE n <= 0
      <3>1. UpdatedItems(o, m) = basket \ {e}
        BY <2>2, <2>6 DEF UpdatedItems
      <3>2. n = 0 /\ (heap[e].qty = 1 \/ heap[e].limit = 0)
        BY <2>3, <2>4, <2>6 DEF Modified, Min
      <3> QED BY <2>2, <2>3, <2>4, <2>5, <3>1, <3>2 DEF Removed
    <2>7. CASE ~(n <= 0)
      <3>1. UpdatedItems(o, m) = basket \cup {e}
        BY <2>2, <2>7 DEF UpdatedItems
      <3>2. Counted(o, e, n, UpdatedItems(o, m))
        BY <2>2, <2>3, <2>4, <2>7, <3>1 DEF Counted
      <3> HIDE DEF n
      <3> QED BY <2>2, <2>4, <2>5, <3>2
    <2> QED BY <2>6, <2>7
  <1> QED BY <1>2, <1>3, <1>4

(***************************************************************************)
(* The heap and the entries after Basket.update: still one entry per item, *)
(* in bounds; rows that have lost their entry show a quantity an entry may *)
(* start from; entries of other items are as they were.                    *)
(***************************************************************************)
SoundUpdate(o, g, b) ==
    /\ IsHeap(g, b \cup rows) /\ b \subseteq basket \cup rows
    /\ \A p \in b \cup rows : g[p].id = heap[p].id /\ g[p].limit = heap[p].limit
    /\ \A p, q \in b : g[p].id = g[q].id => p = q
    /\ \A p \in b :
         /\ g[p].limit # None /\ g[p].qty >= 1
         /\ \/ g[p].qty <= g[p].limit
            \/ g[p].limit = 1 /\ g[p].qty = 2
            \/ /\ 0 \in Limits[g[p].id] \/ Shared(g[p].id)
               /\ g[p].qty <= FreshCellMax
    /\ \A p \in b : g[p].qty <= FreshCellMax
    /\ \A r \in rows : (\A p \in b : g[p].id # g[r].id) => Leftover(g[r])
    /\ \A p : (p \in b /\ g[p].id # heap[o].id) <=>
              (p \in basket /\ heap[p].id # heap[o].id)
    /\ \A p \in b : g[p].id # heap[o].id => g[p] = heap[p]

LEMMA UpdatedSound ==
    ASSUME BInv, NEW o \in basket \cup rows, NEW m \in {1, -1},
           pending = {}, CellEnabled(o, m), heap[o].limit # None
    PROVE  SoundUpdate(o, UpdatedHeap(o, m), UpdatedItems(o, m))
  <1> DEFINE g == UpdatedHeap(o, m)
             b == UpdatedItems(o, m)
  <1>1. PICK e \in basket \cup rows, n \in Int :
              /\ heap[e].id = heap[o].id
              /\ g = [heap EXCEPT ![e] = [@ EXCEPT !.qty = n]]
              /\ \/ Counted(o, e, n, b)
                 \/ Removed(e, n, b)
                 \/ Ignored(o, e, n, b)
    BY Updated
  <1> HIDE DEF g, b
  <1>2. /\ heap \in [Objs -> Item \cup {Free}]
        /\ basket \cup rows \subseteq Objs
        /\ \A p \in basket \cup rows : heap[p] \in Item
    BY DEF BInv, TypeOK
  <1>3. b \subseteq basket \cup rows
    BY <1>1 DEF Counted, Removed, Ignored
  <1>4. /\ g[e] \in Item /\ g[e].id = heap[e].id /\ g[e].limit = heap[e].limit
        /\ g[e].qty = n
    <2>1. g[e] = [heap[e] EXCEPT !.qty = n]
      BY <1>1, <1>2
    <2> QED BY <1>2, <2>1, WithQty
  <1>5. \A p \in Objs \ {e} : g[p] = heap[p]
    BY <1>1, <1>2
  <1>6. IsHeap(g, b \cup rows)
    <2>1. g \in [Objs -> Item \cup {Free}]
      BY <1>1, <1>2, <1>4, <1>5
    <2> QED BY <1>2, <1>3, <1>4, <1>5, <2>1 DEF IsHeap
  <1>7. \A p \in basket \cup rows : g[p].id = heap[p].id /\ g[p].limit = heap[p].limit
    BY <1>2, <1>4, <1>5
  <1>8. \A p, q \in basket : heap[p].id = heap[q].id => p = q
    BY DEF BInv, OneEntryPerItem
  <1>9. \A p \in b : p # e => p \in basket
    BY <1>1 DEF Counted, Removed, Ignored
  <1>10. e \in b => e \in basket \/ \A p \in basket : heap[p].id # heap[o].id
    BY <1>1 DEF Counted, Removed, Ignored, Entries
  <1>11. \A p, q \in b : g[p].id = g[q].id => p = q
    BY <1>1, <1>3, <1>7, <1>8, <1>9, <1>10
  <1>12. ASSUME NEW p \in b
         PROVE  /\ g[p].limit # None /\ g[p].qty >= 1
                /\ \/ g[p].qty <= g[p].limit
                   \/ g[p].limit = 1 /\ g[p].qty = 2
                   \/ /\ 0 \in Limits[g[p].id] \/ Shared(g[p].id)
                      /\ g[p].qty <= FreshCellMax
    <2>1. CASE p = e
      <3>1. Counted(o, e, n, b)
        BY <1>1, <2>1 DEF Counted, Removed, Ignored, Entries
      <3> QED BY <1>4, <2>1, <3>1 DEF Counted
    <2>2. CASE p # e
      <3>1. g[p] = heap[p] /\ p \in basket
        BY <1>2, <1>3, <1>5, <1>9, <2>2
      <3> QED BY <3>1 DEF BInv, QuantitiesInBounds
    <2> QED BY <2>1, <2>2
  <1>13. ASSUME NEW r \in rows, \A p \in b : g[p].id # g[r].id
         PROVE  Leftover(g[r])
    <2>1. \A p \in b : heap[p].id # heap[r].id
      BY <1>3, <1>7, <1>13
    <2>2. CASE ~Removed(e, n, b)
      <3>1. \A p \in basket : heap[p].id # heap[r].id
        BY <1>1, <2>1, <2>2 DEF Counted, Ignored
      <3>2. Leftover(heap[r])
        BY <3>1 DEF BInv, RowsInBounds, Entries
      <3>3. CASE r = e
        <4>1. Ignored(o, e, n, b)
          BY <1>1, <2>1, <2>2, <3>3 DEF Counted
        <4> QED BY <1>4, <3>2, <3>3, <4>1 DEF Ignored, Leftover
      <3>4. CASE r # e
        BY <1>2, <1>5, <3>2, <3>4
      <3> QED BY <3>3, <3>4
    <2>3. CASE Removed(e, n, b) /\ heap[r].id # heap[e].id
      <3>1. \A p \in basket : heap[p].id # heap[r].id
        BY <2>1, <2>3 DEF Removed
      <3>2. Leftover(heap[r])
        BY <3>1 DEF BInv, RowsInBounds, Entries
      <3> QED BY <1>2, <1>5, <2>3, <3>2
    <2>4. CASE Removed(e, n, b) /\ heap[r].id = heap[e].id
      <3>1. CASE r = e
        BY <1>4, <2>4, <3>1 DEF Removed, Leftover
      <3>2. CASE r # e
        <4>1. screen = "items"
          BY DEF BInv, Screens
        <4>7. CASE Shared(heap[r].id)
          <5>1. Leftover(heap[r])
            BY <4>7 DEF BInv, RowsInBounds
          <5> QED BY <1>2, <1>5, <3>2, <5>1
        <4>8. CASE ~Shared(heap[r].id)
         <5>1. Namesakes(heap, basket, r) = {e}
           BY <1>2, <1>8, <2>4, <4>8, OwnName DEF Namesakes, SameName, Removed, Item
         <5>2. heap[r].qty = heap[e].qty
           BY <2>4, <4>1, <5>1 DEF BInv, RowsAgreeWithBasket, Removed
         <5>3. heap[e].qty \in Int /\ heap[e].limit \in Nat /\ heap[e].id \in ItemIds
           BY <1>2, <2>4 DEF Item, BInv, QuantitiesInBounds, Removed
         <5>4. heap[e].limit \in Limits[heap[e].id]
           BY <2>4 DEF BInv, LimitsSound, QuantitiesInBounds, Removed
         <5>5. heap[e].qty >= 1 /\ heap[e].qty <= FreshCellMax
           BY <2>4, <5>3, <5>4, FreshCellMaxAssumption
           DEF BInv, QuantitiesInBounds, Removed
         <5>6. g[r] = heap[r]
           BY <1>2, <1>5, <3>2
         <5> QED BY <2>4, <5>2, <5>3, <5>5, <5>6, FreshCellMaxAssumption
             DEF Removed, Leftover
        <4> QED BY <4>7, <4>8
      <3> QED BY <3>1, <3>2
    <2> QED BY <2>2, <2>3, <2>4
  <1>14. ASSUME NEW p
         PROVE  (p \in b /\ g[p].id # heap[o].id) <=>
                (p \in basket /\ heap[p].id # heap[o].id)
    BY <1>1, <1>3, <1>7 DEF Counted, Removed, Ignored
  <1>15. \A p \in b : g[p].id # heap[o].id => g[p] = heap[p]
    BY <1>1, <1>2, <1>3, <1>4, <1>5
  <1>16. \A p \in b : g[p].qty <= FreshCellMax
    <2> SUFFICES ASSUME NEW p \in b PROVE g[p].qty <= FreshCellMax
      OBVIOUS
    <2>1. /\ g[p].limit \in Nat /\ g[p].qty \in Int /\ g[p].id \in ItemIds
          /\ g[p].limit \in Limits[g[p].id]
      BY <1>3, <1>6, <1>7, <1>12 DEF IsHeap, Item, BInv, LimitsSound
    <2> QED BY <1>12, <2>1, FreshCellMaxAssumption
  <1>17. SoundUpdate(o, g, b)
    BY <1>3, <1>6, <1>7, <1>11, <1>12, <1>13, <1>14, <1>15, <1>16 DEF SoundUpdate
  <1> QED BY <1>17 DEF g, b

(***************************************************************************)
(* A click on a row, of either screen.                                     *)
(***************************************************************************)
Clicked(o, m) == NewRequestClicked(o, m) \/ ItemsClicked(o, m)

LEMMA ClickHolds ==
    ASSUME BInv, NEW o \in Objs, NEW m \in {1, -1}, Clicked(o, m)
    PROVE  /\ BInv'
           /\ \A i \in ItemIds \ {heap[o].id} :
                /\ Entries(heap, basket, i)' = Entries(heap, basket, i)
                /\ \/ QtyOf(i)' = QtyOf(i)
                   \/ screen = "items" /\ HasNamesake(i)'
  <1> DEFINE g == UpdatedHeap(o, m)
  <1>1. /\ screen' = screen /\ rows' = rows /\ pending' = pending
        /\ request' = request /\ made' = made /\ basket' = UpdatedItems(o, m)
        /\ actionBarHidden' = (basket' = {})
        /\ o \in basket \cup rows /\ CellEnabled(o, m) /\ heap[o].limit # None
        /\ screen \in {"new", "items"} /\ pending = {}
    BY DEF Clicked, NewRequestClicked, ItemsClicked, updateView, BInv, Screens
  <1>2. SoundUpdate(o, g, basket')
    BY <1>1, UpdatedSound
  <1>3. IsHeap(g, basket' \cup rows)
    BY <1>2 DEF SoundUpdate
  <1> HIDE DEF g
  <1>4. PICK u : /\ heap' = Collect(u, basket' \cup rows)
                 /\ RowsFollow(g, basket', rows, u)
                 /\ screen = "items" \/ u = g
    <2>1. CASE NewRequestClicked(o, m)
      <3>1. rows = {} /\ heap' = Collect(g, basket')
        BY <2>1 DEF BInv, Screens, NewRequestClicked, g
      <3>2. RowsFollow(g, basket', rows, g)
        BY <1>3, <3>1 DEF RowsFollow
      <3> QED BY <3>1, <3>2
    <2>2. CASE ItemsClicked(o, m)
      <3>1. PICK u \in updateItemsFromBasket(g, basket', rows) :
                heap' = Collect(u, basket' \cup rows)
        BY <2>2 DEF ItemsClicked, g
      <3>2. RowsFollow(g, basket', rows, u)
        BY <1>3, ItemsUpdated
      <3> QED BY <2>2, <3>1, <3>2 DEF ItemsClicked
    <2> QED BY <2>1, <2>2 DEF Clicked
  <1>5. /\ \A p \in basket' : Within(u[p])
        /\ \A r \in rows :
             (\A p \in basket' : u[p].id # u[r].id) \/ Shared(u[r].id)
                => Leftover(u[r])
        /\ \A r \in rows, e \in basket' :
             Namesakes(u, basket', r) = {e} => u[r].qty = u[e].qty
        /\ \A p \in basket' :
             (\A q \in basket' : SameName(g[q].id, g[p].id) => q = p)
                => u[p] = g[p]
    <2>1. Before(g, basket', rows)
      BY <1>2, <1>3 DEF SoundUpdate, Within, Before
    <2>2. After(g, basket', rows, u)
      BY <1>4, <2>1, Followed
    <2> QED BY <2>2 DEF After
  <1>6. /\ heap' \in [Objs -> Item \cup {Free}]
        /\ \A p \in basket' \cup rows : heap'[p] = u[p] /\ heap'[p] \in Item
    BY <1>4 DEF Collect, IsHeap, RowsFollow
  <1>7. TypeOK' /\ Screens'
    <2>1. actionBarHidden' \in BOOLEAN
      BY <1>1
    <2>2. request' = {}
      BY <1>1 DEF BInv, Screens
    <2> QED BY <1>1, <1>3, <1>6, <2>1, <2>2
        DEF BInv, TypeOK, Screens, IsHeap
  <1>8. \A p \in basket' \cup rows :
            heap'[p].id = heap[p].id /\ heap'[p].limit = heap[p].limit
    BY <1>2, <1>4, <1>6 DEF SoundUpdate, RowsFollow
  <1>9. LimitsSound'
    BY <1>1, <1>2, <1>8 DEF BInv, LimitsSound, SoundUpdate
  <1>10. OneEntryPerItem' /\ QuantitiesInBounds'
    <2>1. OneEntryPerItem'
      <3>1. \A p, q \in basket' : heap[p].id = heap[q].id => p = q
        BY <1>2 DEF SoundUpdate
      <3> QED BY <1>8, <3>1 DEF OneEntryPerItem
    <2>2. QuantitiesInBounds'
      BY <1>6, <1>5 DEF QuantitiesInBounds, Within
    <2> QED BY <2>1, <2>2
  <1>11. RowsAgreeWithBasket' /\ RowsInBounds'
    <2>1. RowsAgreeWithBasket'
      <3> SUFFICES ASSUME NEW r \in rows, NEW e \in basket',
                          Namesakes(heap', basket', r) = {e}
                   PROVE  heap'[r].qty = heap'[e].qty
        BY <1>1 DEF RowsAgreeWithBasket, Namesakes
      <3>1. Namesakes(u, basket', r) = {e}
        BY <1>6 DEF Namesakes
      <3> QED BY <1>6, <1>5, <3>1
    <2>2. RowsInBounds'
      <3> SUFFICES ASSUME NEW r \in rows,
                          \/ \A p \in basket' : heap'[p].id # heap'[r].id
                          \/ Shared(heap'[r].id)
                   PROVE  Leftover(heap'[r])
        BY <1>1 DEF RowsInBounds, Entries, Leftover, Shared
      <3> QED BY <1>6, <1>5
    <2> QED BY <2>1, <2>2
  <1>12. ActionBarTellsItems' /\ CheckoutHasItems'
    BY <1>1 DEF ActionBarTellsItems, CheckoutHasItems
  <1>13. ASSUME NEW i \in ItemIds \ {heap[o].id}
         PROVE  /\ Entries(heap, basket, i)' = Entries(heap, basket, i)
                /\ \/ QtyOf(i)' = QtyOf(i)
                   \/ screen = "items" /\ HasNamesake(i)'
    <2>1. \A p : (p \in basket' /\ heap'[p].id = i) <=>
                 (p \in basket /\ heap[p].id = i)
      BY <1>2, <1>4, <1>6 DEF SoundUpdate, RowsFollow
    <2>2. Entries(heap', basket', i) = Entries(heap, basket, i)
      BY <2>1 DEF Entries
    <2>3. ASSUME screen # "items" \/ ~HasNamesake(i)'
          PROVE  QtyOf(i)' = QtyOf(i)
      <3>1. ASSUME NEW p \in basket', heap'[p].id = i PROVE heap'[p] = heap[p]
        <4>1. g[p] = heap[p] /\ g[p].id = i
          BY <1>2, <1>4, <1>6, <3>1 DEF SoundUpdate, RowsFollow
        <4>2. CASE screen # "items"
          BY <1>4, <1>6, <4>1, <4>2
        <4>3. CASE ~HasNamesake(i)'
          <5>1. ASSUME NEW q \in basket', SameName(g[q].id, g[p].id) PROVE q = p
            <6>1. heap'[q].id = g[q].id /\ g[q].id \in ItemIds
              BY <1>3, <1>4, <1>6 DEF RowsFollow, IsHeap, Item
            <6>2. q \in Entries(heap', basket', g[q].id)
              BY <6>1 DEF Entries
            <6>3. SameName(i, g[q].id)
              BY <4>1, <5>1 DEF SameName
            <6>4. g[q].id = i
              BY <4>3, <6>1, <6>2, <6>3 DEF HasNamesake, SameName
            <6> QED BY <1>2, <4>1, <6>4 DEF SoundUpdate
          <5> QED BY <1>6, <1>5, <4>1, <5>1
        <4> QED BY <2>3, <4>2, <4>3
      <3> QED BY <2>1, <3>1 DEF QtyOf, Entries
    <2> QED BY <2>2, <2>3
  <1> QED BY <1>7, <1>9, <1>10, <1>11, <1>12, <1>13 DEF BInv

(***************************************************************************)
(* An answer of getRequestItem: the rows so far, with a new one or not,    *)
(* count zero; with the last answer they take the basket's quantities.     *)
(***************************************************************************)
LEMMA AnsweredHolds ==
    ASSUME BInv, screen = "items", NEW i \in pending, NEW h, NEW rs,
           IsHeap(h, basket \cup rs),
           \A o \in basket : h[o] = heap[o],
           \A r \in rs : /\ h[r].qty = 0
                         /\ h[r].limit = None \/ h[r].limit \in Limits[h[r].id],
           Answered(h, i, rs)
    PROVE  BInv'
  <1>1. /\ screen' = screen /\ basket' = basket /\ rows' = rs
        /\ actionBarHidden' = actionBarHidden /\ request' = request
        /\ made' = made /\ pending' = pending \ {i}
        /\ pending' # {} => heap' = h
        /\ pending' = {} => heap' \in updateItemsFromBasket(h, basket, rs)
    BY DEF Answered
  <1>2. /\ \A o, p \in basket : h[o].id = h[p].id => o = p
        /\ \A o \in basket : Within(h[o])
    BY DEF BInv, OneEntryPerItem, QuantitiesInBounds, Within
  <1>3. pending' = {} => RowsFollow(h, basket, rs, heap')
    BY <1>1, ItemsUpdated
  <1>4. /\ IsHeap(heap', basket \cup rs)
        /\ \A o \in basket : heap'[o] = heap[o]
        /\ \A o \in rs : heap'[o].id = h[o].id /\ heap'[o].limit = h[o].limit
    <2>1. basket \cap rs = {}
      BY <1>2 DEF Within
    <2> QED BY <1>1, <1>3, <2>1 DEF RowsFollow
  <1>5. TypeOK' /\ Screens'
    <2>1. request' = {}
      BY <1>1 DEF BInv, Screens
    <2> QED BY <1>1, <1>4, <2>1 DEF BInv, TypeOK, Screens, IsHeap
  <1>6. LimitsSound'
    BY <1>1, <1>4 DEF BInv, LimitsSound
  <1>7. OneEntryPerItem' /\ QuantitiesInBounds'
    BY <1>1, <1>4 DEF BInv, OneEntryPerItem, QuantitiesInBounds
  <1>8. pending' = {} =>
          /\ \A r \in rs :
               (\A p \in basket : heap'[p].id # heap'[r].id) \/ Shared(heap'[r].id)
                  => Leftover(heap'[r])
          /\ \A r \in rs, e \in basket :
               Namesakes(heap', basket, r) = {e} => heap'[r].qty = heap'[e].qty
    <2>1. \A o \in basket : h[o].qty <= FreshCellMax
      <3> SUFFICES ASSUME NEW o \in basket PROVE h[o].qty <= FreshCellMax
        OBVIOUS
      <3>1. /\ h[o].limit \in Nat /\ h[o].qty \in Int /\ h[o].id \in ItemIds
            /\ h[o].limit \in Limits[h[o].id]
        BY <1>2 DEF IsHeap, Item, BInv, LimitsSound, Within
      <3> QED BY <1>2, <3>1, FreshCellMaxAssumption DEF Within
    <2>2. \A r \in rs : Leftover(h[r])
      BY DEF Leftover
    <2>3. Before(h, basket, rs)
      BY <1>2, <2>1, <2>2 DEF Before
    <2>4. pending' = {} => After(h, basket, rs, heap')
      BY <1>3, <2>3, Followed
    <2> QED BY <2>4 DEF After
  <1>9. RowsAgreeWithBasket' /\ RowsInBounds'
    <2>1. RowsAgreeWithBasket'
      BY <1>1, <1>8 DEF RowsAgreeWithBasket, Namesakes
    <2>2. CASE pending' = {}
      <3> SUFFICES ASSUME NEW r \in rs,
                          \/ \A p \in basket : heap'[p].id # heap'[r].id
                          \/ Shared(heap'[r].id)
                   PROVE  Leftover(heap'[r])
        BY <1>1, <2>1, <2>2 DEF RowsInBounds, Entries, Leftover, Shared
      <3> QED BY <1>8, <2>2
    <2>3. CASE pending' # {}
      BY <1>1, <2>1, <2>3 DEF RowsInBounds
    <2> QED BY <2>2, <2>3
  <1>10. ActionBarTellsItems' /\ CheckoutHasItems'
    BY <1>1 DEF BInv, ActionBarTellsItems, CheckoutHasItems
  <1> QED BY <1>5, <1>6, <1>7, <1>9, <1>10 DEF BInv

LEMMA LoadHolds ==
    ASSUME BInv, NEW i \in ItemIds, NEW l \in Limits[i] \cup {None},
           LoadItem(i, l)
    PROVE  BInv'
  <1>1. PICK o \in Objs :
            /\ heap[o] = Free
            /\ Answered([heap EXCEPT ![o] = [id |-> i, qty |-> 0, limit |-> l]],
                        i, rows \cup {o})
    BY DEF LoadItem
  <1> DEFINE new == [id |-> i, qty |-> 0, limit |-> l]
             h == [heap EXCEPT ![o] = new]
  <1>2. screen = "items" /\ i \in pending
    BY DEF LoadItem
  <1>3. new \in Item /\ new.id = i /\ new.qty = 0 /\ new.limit = l
    BY ItemsAssumption DEF Item
  <1>4. /\ heap \in [Objs -> Item \cup {Free}] /\ basket \cup rows \subseteq Objs
        /\ \A p \in basket \cup rows : heap[p] \in Item
    BY DEF BInv, TypeOK
  <1>5. o \notin basket \cup rows
    BY <1>1, <1>4, FreeIsNoItem
  <1> HIDE DEF new
  <1>6. h \in [Objs -> Item \cup {Free}] /\ h[o] = new
        /\ \A p \in basket \cup rows : h[p] = heap[p]
    BY <1>3, <1>4, <1>5
  <1>7. Answered(h, i, rows \cup {o})
    BY <1>1 DEF new
  <1> HIDE DEF h
  <1>8. IsHeap(h, basket \cup (rows \cup {o}))
    BY <1>3, <1>4, <1>6 DEF IsHeap
  <1>9. \A r \in rows : heap[r].qty = 0
    BY <1>2 DEF BInv, RowsInBounds
  <1>10. \A r \in rows \cup {o} :
            /\ h[r].qty = 0
            /\ h[r].limit = None \/ h[r].limit \in Limits[h[r].id]
    BY <1>3, <1>6, <1>9 DEF BInv, LimitsSound
  <1> QED BY <1>2, <1>6, <1>7, <1>8, <1>10, AnsweredHolds

LEMMA LoadNilHolds ==
    ASSUME BInv, NEW i \in ItemIds, LoadNil(i)
    PROVE  BInv'
  <1>1. screen = "items" /\ i \in pending /\ Answered(heap, i, rows)
    BY DEF LoadNil
  <1>2. IsHeap(heap, basket \cup rows)
    BY DEF BInv, TypeOK, IsHeap
  <1>3. \A r \in rows :
            /\ heap[r].qty = 0
            /\ heap[r].limit = None \/ heap[r].limit \in Limits[heap[r].id]
    BY <1>1 DEF BInv, RowsInBounds, LimitsSound
  <1> QED BY <1>1, <1>2, <1>3, AnsweredHolds

(***************************************************************************)
(* The screens come and go; objects only the items screen had are freed.   *)
(***************************************************************************)
LEMMA ScreenHolds ==
    ASSUME BInv,
           \/ OpenNewRequest \/ NewItem \/ OpenCheckout \/ DismissCheckout
           \/ \E c \in Categories : PickCategory(c)
    PROVE  BInv'
  <1>1. /\ heap' = heap /\ basket' = basket /\ actionBarHidden' = actionBarHidden
        /\ rows = {} /\ rows' = {} /\ pending' \subseteq ItemIds
        /\ made' \in BOOLEAN
        /\ request' = IF screen' = "checkout" /\ made' THEN basket ELSE {}
        /\ screen' = "checkout" => basket # {}
        /\ screen' # "items" => pending' = {}
        /\ screen' \in {"new", "categories", "items", "checkout"}
    BY ItemsAssumption
    DEF OpenNewRequest, NewItem, OpenCheckout, DismissCheckout, PickCategory,
        BInv, TypeOK, Screens, ActionBarTellsItems
  <1>2. TypeOK' /\ Screens'
    BY <1>1 DEF BInv, TypeOK, Screens
  <1>3. LimitsSound' /\ OneEntryPerItem' /\ QuantitiesInBounds'
    BY <1>1 DEF BInv, LimitsSound, OneEntryPerItem, QuantitiesInBounds
  <1>4. RowsAgreeWithBasket' /\ RowsInBounds'
    BY <1>1 DEF RowsAgreeWithBasket, RowsInBounds
  <1>5. ActionBarTellsItems' /\ CheckoutHasItems'
    BY <1>1 DEF BInv, ActionBarTellsItems, CheckoutHasItems
  <1> QED BY <1>2, <1>3, <1>4, <1>5 DEF BInv

LEMMA DismissCardHolds ==
    ASSUME BInv, DismissCard
    PROVE  BInv'
  <1>1. /\ basket' = basket /\ actionBarHidden' = actionBarHidden
        /\ rows' = {} /\ pending' = {} /\ request' = {} /\ made' = made
        /\ screen' \in {"new", "categories"}
    BY DEF DismissCard, BInv, Screens
  <1>2. /\ heap' \in [Objs -> Item \cup {Free}]
        /\ \A o \in basket : heap'[o] = heap[o]
    BY DEF DismissCard, Collect, BInv, TypeOK
  <1>3. TypeOK' /\ Screens'
    BY <1>1, <1>2 DEF BInv, TypeOK, Screens
  <1>4. LimitsSound' /\ OneEntryPerItem' /\ QuantitiesInBounds'
    BY <1>1, <1>2 DEF BInv, LimitsSound, OneEntryPerItem, QuantitiesInBounds
  <1>5. RowsAgreeWithBasket' /\ RowsInBounds'
    BY <1>1 DEF RowsAgreeWithBasket, RowsInBounds
  <1>6. ActionBarTellsItems' /\ CheckoutHasItems'
    BY <1>1 DEF BInv, ActionBarTellsItems, CheckoutHasItems
  <1> QED BY <1>3, <1>4, <1>5, <1>6 DEF BInv

(***************************************************************************)
(* Without a basket there is little to say: at first, and after leaving.   *)
(***************************************************************************)
LEMMA InitHolds == Init => BInv
  BY DEF Init, BInv, TypeOK, LimitsSound, Screens, OneEntryPerItem,
         QuantitiesInBounds, RowsAgreeWithBasket, RowsInBounds,
         ActionBarTellsItems, CheckoutHasItems

LEMMA LeaveHolds == Leave => BInv'
  BY DEF Leave, BInv, TypeOK, LimitsSound, Screens, OneEntryPerItem,
         QuantitiesInBounds, RowsAgreeWithBasket, RowsInBounds,
         ActionBarTellsItems, CheckoutHasItems

(***************************************************************************)
(* The invariant holds in every state.                                     *)
(***************************************************************************)
LEMMA StepHolds == BInv /\ [Next]_vars => BInv'
  <1> SUFFICES ASSUME BInv, [Next]_vars PROVE BInv'
    OBVIOUS
  <1>1. CASE UNCHANGED vars
    BY <1>1 DEF vars, BInv, TypeOK, LimitsSound, Screens, OneEntryPerItem,
       QuantitiesInBounds, RowsAgreeWithBasket, RowsInBounds, Entries,
       Namesakes, Leftover, Shared, ActionBarTellsItems, CheckoutHasItems
  <1> QED BY <1>1, ClickHolds, LoadHolds, LoadNilHolds, ScreenHolds,
             DismissCardHolds, LeaveHolds DEF Next, Clicked

(***************************************************************************)
(* The invariant holds in every state of the screens and their objects.    *)
(***************************************************************************)
THEOREM Inductive == Spec => []BInv
  BY InitHolds, StepHolds, PTL DEF Spec

(***************************************************************************)
(* Every variable has its type, and every object that the basket, the      *)
(* items screen or the checkout refers to holds an item.                   *)
(***************************************************************************)
THEOREM TypeCorrect == Spec => []TypeOK
  <1>1. BInv => TypeOK
    BY DEF BInv
  <1> QED BY <1>1, Inductive, PTL

(***************************************************************************)
(* The basket holds an item at most once, however often the items screen   *)
(* is opened and whatever objects it makes.                                *)
(***************************************************************************)
THEOREM OneEntry == Spec => []OneEntryPerItem
  <1>1. BInv => OneEntryPerItem
    BY DEF BInv
  <1> QED BY <1>1, Inductive, PTL

(***************************************************************************)
(* Quantities are positive, and exceed the limit in the known cases only.  *)
(***************************************************************************)
THEOREM InBounds == Spec => []QuantitiesInBounds
  <1>1. BInv => QuantitiesInBounds
    BY DEF BInv
  <1> QED BY <1>1, Inductive, PTL

(***************************************************************************)
(* Once the items screen shows its rows, a row has the quantity of the one *)
(* entry of its name, after every click on either screen.                  *)
(***************************************************************************)
THEOREM RowsAgree == Spec => []RowsAgreeWithBasket
  <1>1. BInv => RowsAgreeWithBasket
    BY DEF BInv
  <1> QED BY <1>1, Inductive, PTL

(***************************************************************************)
(* The action bar is hidden exactly while the basket is empty.             *)
(***************************************************************************)
THEOREM ActionBar == Spec => []ActionBarTellsItems
  <1>1. BInv => ActionBarTellsItems
    BY DEF BInv
  <1> QED BY <1>1, Inductive, PTL

(***************************************************************************)
(* The checkout gets the basket's items, if there is a request to put them *)
(* in, and there are some.                                                 *)
(***************************************************************************)
THEOREM CheckoutGetsItems == Spec => []CheckoutHasItems
  <1>1. BInv => CheckoutHasItems
    BY DEF BInv
  <1> QED BY <1>1, Inductive, PTL

(***************************************************************************)
(* Whatever the items are called, a click leaves the quantities of all     *)
(* items alone that are neither clicked nor have a namesake in the basket. *)
(***************************************************************************)
THEOREM OthersUntouched == Spec => OtherItemsUntouched
  <1> DEFINE Untouched ==
        \A o \in Objs, modifier \in {1, -1} :
            NewRequestClicked(o, modifier) \/ ItemsClicked(o, modifier) =>
            \A i \in ItemIds \ {heap[o].id} :
                /\ Entries(heap, basket, i)' = Entries(heap, basket, i)
                /\ \/ QtyOf(i)' = QtyOf(i)
                   \/ screen = "items" /\ HasNamesake(i)'
  <1>1. BInv => Untouched
    BY ClickHolds DEF Clicked
  <1>2. BInv /\ [Next]_vars => [Untouched]_vars
    BY <1>1
  <1> QED BY <1>2, Inductive, PTL DEF Spec, OtherItemsUntouched
=============================================================================
