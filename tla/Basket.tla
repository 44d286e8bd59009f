------------------------------- MODULE Basket -------------------------------
(***************************************************************************)
(* Putting a request together: the Basket, the screens that edit it        *)
(* (NewRequestViewController and ItemsViewController, reached through      *)
(* CategoriesViewController) and the hand over to the checkout.            *)
(*                                                                         *)
(* RequestItem is a class.  The items screen fetches objects of its own    *)
(* each time it opens and copies quantities into them from the basket; a   *)
(* plus on an item the basket does not hold puts that very object into the *)
(* basket, so that an object may be shared by the basket, the items screen *)
(* and the checkout.  Hence a heap of objects, and sets of references.     *)
(*                                                                         *)
(* The plus button is no guard: cellForRow assigns count before maxCount,  *)
(* and count's didSet enables plus by the maxCount the cell has from its   *)
(* previous use, or by 99 (FreshCellMax) if it is fresh from the nib.  As  *)
(* any cell may be fresh, the model goes by the largest of these.          *)
(***************************************************************************)
EXTENDS Integers

CONSTANTS
    ItemIds,        \* keys under "items" in the realtime database
    NameOf,         \* the name of each item in the current language
    Categories,     \* the itemIDs of each category
    Limits,         \* values "limit" of each item can have
    Objs,           \* references to RequestItem objects
    None,           \* nil
    FreshCellMax    \* the maxCount a cell without one goes by: 99

(***************************************************************************)
(* The database holds no negative limits.  Nothing keeps two items from    *)
(* having the same name.                                                   *)
(***************************************************************************)
ASSUME ItemsAssumption ==
    /\ Limits \in [ItemIds -> SUBSET Nat]
    /\ Categories \subseteq SUBSET ItemIds

ASSUME NoneAssumption == None \notin Nat \cup ItemIds

\* Limits above the 99 of a fresh cell are not considered.
ASSUME FreshCellMaxAssumption ==
    /\ FreshCellMax \in Nat \ {0, 1}
    /\ \A i \in ItemIds : \A l \in Limits[i] : l <= FreshCellMax

VARIABLES
    screen,     \* the view controller on top
    heap,       \* the RequestItem objects
    basket,     \* Basket.items
    rows,       \* ItemsViewController.items
    pending,    \* ids whose getRequestItem has not answered yet
    actionBarHidden,
    made,       \* newRequest of NewRequestViewController is not nil
    request     \* newRequest.items, as the checkout has it

vars == <<screen, heap, basket, rows, pending, actionBarHidden, made, request>>

Item == [id: ItemIds, qty: Int, limit: Nat \cup {None}]
Free == [id |-> None, qty |-> 0, limit |-> None]

Min(a, b) == IF a < b THEN a ELSE b

(***************************************************************************)
(* Objects nothing refers to any more are freed.                           *)
(***************************************************************************)
Collect(h, live) == [o \in Objs |-> IF o \in live THEN h[o] ELSE Free]

Entries(h, b, i) == {o \in b : h[o].id = i}

SameName(i, j) == NameOf[i] = NameOf[j]

\* The entries of basket b with the name of object o.
Namesakes(h, b, o) == {e \in b : SameName(h[e].id, h[o].id)}

\* Mutants of updateItemsFromBasket: it does nothing; any entry matches.
updateNoItems(h, b, rs) == {h}

updateItemsFromAnyEntry(h, b, rs) ==
    {[o \in Objs |-> IF o \in rs /\ b # {}
                     THEN [h[o] EXCEPT !.qty = h[CHOOSE e \in b : TRUE].qty]
                     ELSE h[o]]}

(***************************************************************************)
(* ItemsViewController.updateItemsFromBasket: a row takes the quantity of  *)
(* a basket's item of the same name; without one it keeps its own.  Of     *)
(* several it goes by the last, or by the one before if it is the last     *)
(* itself, as far as earlier rows have left their quantities alone: with   *)
(* the order of rows and entries left out, it may be any of them.  A row   *)
(* that is itself in the basket changes there too.                         *)
(***************************************************************************)
Sources(h, b, o) ==
    IF Namesakes(h, b, o) = {} THEN {o} ELSE Namesakes(h, b, o)

updateItemsFromBasket(h, b, rs) ==
    {[o \in Objs |->
        IF o \in rs THEN [h[o] EXCEPT !.qty = h[source[o]].qty] ELSE h[o]] :
     source \in {f \in [rs -> b \cup rs] :
                    \A o \in rs : f[o] \in Sources(h, b, o)}}

\* Mutant of Modified: the quantity is not clamped.
ModifiedUnclamped(item, modifier) == item.qty + modifier

(***************************************************************************)
(* Basket.update, on the heap and on the items: the entries with the id    *)
(* are changed and clamped to their limit, and removed at zero; without an *)
(* entry, a plus counts the object up, whatever it holds, and appends it.  *)
(***************************************************************************)
Modified(item, modifier) == Min(item.qty + modifier, item.limit)

UpdatedHeap(o, modifier) ==
    LET match == Entries(heap, basket, heap[o].id)
    IN  [p \in Objs |->
            IF p \in match
            THEN [heap[p] EXCEPT !.qty = Modified(heap[p], modifier)]
            ELSE IF p = o /\ match = {} /\ modifier > 0
            THEN [heap[p] EXCEPT !.qty = @ + 1]
            ELSE heap[p]]

\* Mutant of UpdatedItems: an entry matches only if it is the same object.
UpdatedItemsByReference(o, modifier) ==
    IF o \notin basket
    THEN IF modifier > 0 THEN basket \cup {o} ELSE basket
    ELSE IF Modified(heap[o], modifier) <= 0 THEN basket \ {o} ELSE basket

UpdatedItems(o, modifier) ==
    LET match == Entries(heap, basket, heap[o].id)
    IN  IF match = {} THEN IF modifier > 0 THEN basket \cup {o} ELSE basket
        ELSE IF \E e \in match : Modified(heap[e], modifier) <= 0
             THEN basket \ match
             ELSE basket

(***************************************************************************)
(* RequestItemCell: whether the row of object o takes a plus (modifier 1)  *)
(* or a minus (modifier -1).                                               *)
(***************************************************************************)
CellEnabled(o, modifier) ==
    IF modifier > 0 THEN heap[o].qty < FreshCellMax ELSE heap[o].qty > 0

\* Mutant of updateView: the action bar is set from the items it had before.
updateViewStale(items) == actionBarHidden' = (basket = {})

(***************************************************************************)
(* NewRequestViewController.updateView, called back with the new items.    *)
(***************************************************************************)
updateView(items) == actionBarHidden' = (items = {})

(***************************************************************************)
(* plusClicked and minusClicked of NewRequestViewController on the row of  *)
(* object o: Basket.update and, through its callback, updateView.  An item *)
(* without a limit is refused before the callback.                         *)
(***************************************************************************)
NewRequestClicked(o, modifier) ==
    /\ screen = "new"
    /\ o \in basket
    /\ CellEnabled(o, modifier)
    /\ heap[o].limit # None
    /\ basket' = UpdatedItems(o, modifier)
    /\ heap' = Collect(UpdatedHeap(o, modifier), basket')
    /\ updateView(basket')
    /\ UNCHANGED <<screen, rows, pending, made, request>>

(***************************************************************************)
(* plusClicked and minusClicked of ItemsViewController: the same, and then *)
(* updateItemsFromBasket.  There are no rows before the last answer.       *)
(***************************************************************************)
ItemsClicked(o, modifier) ==
    /\ screen = "items"
    /\ pending = {}
    /\ o \in rows
    /\ CellEnabled(o, modifier)
    /\ heap[o].limit # None
    /\ basket' = UpdatedItems(o, modifier)
    /\ \E h \in updateItemsFromBasket(UpdatedHeap(o, modifier), basket', rows) :
           heap' = Collect(h, basket' \cup rows)
    /\ updateView(basket')
    /\ UNCHANGED <<screen, rows, pending, made, request>>

(***************************************************************************)
(* LandingViewController presents a new NewRequestViewController: an empty *)
(* basket, the action bar hidden as the storyboard has it, and a request   *)
(* if someone is signed in, who may have signed out since the landing      *)
(* screen came up.                                                         *)
(***************************************************************************)
OpenNewRequest ==
    /\ screen = "closed"
    /\ screen' = "new"
    /\ made' \in BOOLEAN
    /\ UNCHANGED <<heap, basket, rows, pending, actionBarHidden, request>>

(***************************************************************************)
(* NewRequestViewController.newItem                                        *)
(***************************************************************************)
NewItem ==
    /\ screen = "new"
    /\ screen' = "categories"
    /\ UNCHANGED <<heap, basket, rows, pending, actionBarHidden, made, request>>

(***************************************************************************)
(* CategoriesViewController.cellTapped: a new items screen, whose loadItems *)
(* asks for every item of the category.                                    *)
(***************************************************************************)
PickCategory(c) ==
    /\ screen = "categories"
    /\ screen' = "items"
    /\ rows' = {}
    /\ pending' = c
    /\ UNCHANGED <<heap, basket, actionBarHidden, made, request>>

(***************************************************************************)
(* getRequestItem answers for item i, with a new object of limit l, or     *)
(* with nil if the snapshot is incomplete; the last answer fills in the    *)
(* quantities and shows the rows.                                          *)
(***************************************************************************)
Answered(h, i, rs) ==
    /\ rows' = rs
    /\ pending' = pending \ {i}
    /\ IF pending' = {} THEN heap' \in updateItemsFromBasket(h, basket, rs)
                        ELSE heap' = h
    /\ UNCHANGED <<screen, basket, actionBarHidden, made, request>>

\* Mutant of LoadItem: the limit is taken for the quantity.
LoadItemQtyIsLimit(i, l) ==
    /\ screen = "items"
    /\ i \in pending
    /\ \E o \in Objs :
        /\ heap[o] = Free
        /\ Answered([heap EXCEPT ![o] = [id |-> i, qty |-> l, limit |-> l]],
                    i, rows \cup {o})

LoadItem(i, l) ==
    /\ screen = "items"
    /\ i \in pending
    /\ \E o \in Objs :
        /\ heap[o] = Free
        /\ Answered([heap EXCEPT ![o] = [id |-> i, qty |-> 0, limit |-> l]],
                    i, rows \cup {o})

LoadNil(i) ==
    /\ screen = "items"
    /\ i \in pending
    /\ Answered(heap, i, rows)

(***************************************************************************)
(* The card of the items or the categories is swiped away.  Answers still  *)
(* pending reach an items screen nothing else refers to.                   *)
(***************************************************************************)
DismissCard ==
    /\ screen \in {"categories", "items"}
    /\ screen' = IF screen = "items" THEN "categories" ELSE "new"
    /\ heap' = Collect(heap, basket)
    /\ rows' = {}
    /\ pending' = {}
    /\ UNCHANGED <<basket, actionBarHidden, made, request>>

\* Mutant of OpenCheckout: the action bar is always active.
OpenCheckoutAlways ==
    /\ screen = "new"
    /\ screen' = "checkout"
    /\ request' = IF made THEN basket ELSE {}
    /\ UNCHANGED <<heap, basket, rows, pending, actionBarHidden, made>>

(***************************************************************************)
(* NewRequestViewController.prepare: the action bar's button leads to the  *)
(* checkout, which gets the request with the basket's items, the objects   *)
(* themselves, or nil.                                                     *)
(***************************************************************************)
OpenCheckout ==
    /\ screen = "new"
    /\ ~actionBarHidden
    /\ screen' = "checkout"
    /\ request' = IF made THEN basket ELSE {}
    /\ UNCHANGED <<heap, basket, rows, pending, actionBarHidden, made>>

(***************************************************************************)
(* CheckoutViewController.dimissClicked, or a swipe.                       *)
(***************************************************************************)
DismissCheckout ==
    /\ screen = "checkout"
    /\ screen' = "new"
    /\ request' = {}
    /\ UNCHANGED <<heap, basket, rows, pending, actionBarHidden, made>>

(***************************************************************************)
(* cancelNewRequest, or returnToMain after the request was posted: the     *)
(* view controllers and their basket are gone.                             *)
(***************************************************************************)
Leave ==
    /\ screen \in {"new", "checkout"}
    /\ screen' = "closed"
    /\ heap' = [o \in Objs |-> Free]
    /\ basket' = {}
    /\ rows' = {}
    /\ pending' = {}
    /\ actionBarHidden' = TRUE
    /\ made' = FALSE
    /\ request' = {}

Init ==
    /\ screen = "closed"
    /\ heap = [o \in Objs |-> Free]
    /\ basket = {}
    /\ rows = {}
    /\ pending = {}
    /\ actionBarHidden = TRUE
    /\ made = FALSE
    /\ request = {}

Next ==
    \/ \E o \in Objs, modifier \in {1, -1} :
        NewRequestClicked(o, modifier) \/ ItemsClicked(o, modifier)
    \/ OpenNewRequest
    \/ NewItem
    \/ \E c \in Categories : PickCategory(c)
    \/ \E i \in ItemIds : LoadNil(i)
    \/ \E i \in ItemIds : \E l \in Limits[i] \cup {None} : LoadItem(i, l)
    \/ DismissCard
    \/ OpenCheckout
    \/ DismissCheckout
    \/ Leave

Spec == Init /\ [][Next]_vars

-----------------------------------------------------------------------------
(***************************************************************************)
(* Every variable has its type.                                            *)
(***************************************************************************)
TypeOK ==
    /\ screen \in {"closed", "new", "categories", "items", "checkout"}
    /\ heap \in [Objs -> Item \cup {Free}]
    /\ basket \subseteq Objs
    /\ rows \subseteq Objs
    /\ pending \subseteq ItemIds
    /\ actionBarHidden \in BOOLEAN
    /\ made \in BOOLEAN
    /\ request \subseteq Objs
    /\ \A o \in basket \cup rows \cup request : heap[o] \in Item

(***************************************************************************)
(* The basket holds an item at most once, although each opening of the     *)
(* items screen makes another object of it: postRequest keeps one quantity *)
(* per item id, and would drop the other.                                  *)
(***************************************************************************)
OneEntryPerItem ==
    \A o, p \in basket : heap[o].id = heap[p].id => o = p

(***************************************************************************)
(* Every entry has a limit (Basket.update force-unwraps it) and a positive *)
(* quantity, on whatever object and screen it was counted.  The limit is   *)
(* kept but for three cases.  Of an item limited to 1 there may be 2: the  *)
(* append does not clamp, and counts on from the 1 that a row keeps when   *)
(* its entry is gone.  With a limit of 0 a plus on an entry removes it and *)
(* the next one appends one more.  And an item that shares its name takes  *)
(* on the quantity of the other.  In these two cases only the 99 of a      *)
(* fresh cell stops the counting.                                          *)
(***************************************************************************)
Shared(i) == \E j \in ItemIds \ {i} : SameName(i, j)

QuantitiesInBounds ==
    \A o \in basket :
        /\ heap[o].limit # None /\ heap[o].qty >= 1
        /\ \/ heap[o].qty <= heap[o].limit
           \/ heap[o].limit = 1 /\ heap[o].qty = 2
           \/ /\ 0 \in Limits[heap[o].id] \/ Shared(heap[o].id)
              /\ heap[o].qty <= FreshCellMax

(***************************************************************************)
(* The action bar is active only if the basket contains items, and always  *)
(* then, on every path that changes the basket.                            *)
(***************************************************************************)
ActionBarTellsItems == actionBarHidden <=> basket = {}

(***************************************************************************)
(* A row of the items screen shows the quantity that the basket has, if    *)
(* the basket has one entry of that name, be it of another item.           *)
(***************************************************************************)
RowsAgreeWithBasket ==
    (screen = "items" /\ pending = {}) =>
        \A r \in rows, e \in basket :
            Namesakes(heap, basket, r) = {e} => heap[r].qty = heap[e].qty

(***************************************************************************)
(* The checkout has the basket's items, and there are some, unless there   *)
(* is no request to send: a request without content would keep every later *)
(* refresh of the landing screen from completing.                          *)
(***************************************************************************)
CheckoutHasItems ==
    screen = "checkout" =>
        basket # {} /\ request = IF made THEN basket ELSE {}

(***************************************************************************)
(* A click puts no item but the clicked one into the basket or out of it,  *)
(* and changes the quantity of no other, although rows and entries share   *)
(* objects and rows are overwritten with the basket's quantities.  The     *)
(* exception are items that have a namesake in the basket: on the items    *)
(* screen they may take on each other's quantities.                        *)
(***************************************************************************)
QtyOf(i) == {heap[o].qty : o \in Entries(heap, basket, i)}

HasNamesake(i) ==
    \E j \in ItemIds \ {i} : SameName(i, j) /\ Entries(heap, basket, j) # {}

OtherItemsUntouched ==
    [][\A o \in Objs, modifier \in {1, -1} :
           NewRequestClicked(o, modifier) \/ ItemsClicked(o, modifier) =>
           \A i \in ItemIds \ {heap[o].id} :
               /\ Entries(heap, basket, i)' = Entries(heap, basket, i)
               /\ \/ QtyOf(i)' = QtyOf(i)
                  \/ screen = "items" /\ HasNamesake(i)']_vars
=============================================================================
