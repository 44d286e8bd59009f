# Kasei: specifications, model checks and proofs

Kasei is an iOS app (Swift, `src/Kasei/Kasei`) with which elderly users order
groceries. It talks to Firebase (authentication and the realtime database) and
caches the user's requests in Core Data. This directory holds TLA+ modules for
the parts of the app that keep state, TLC configurations that check them on
small instances, and TLAPS proofs of their invariants. `PROJECT.json`
lists the components, runs, mutants, hazards and theorems, and maps every
definition to the lines it models.

## The system

| Part | State | Operations | Hard because |
|---|---|---|---|
| Request cache (`CDHandler`, `AppDelegate`, `LandingViewController.refreshData`) | rows of `CDRequest` in the view context and on disk, `currLocale` in the user defaults | `updateSavedRequests`, `saveRequest`, `deleteRequest`, `markRequestAsOld`, `loadAllRequests` | written row by row with a save for each; fetches and saves can throw; the process can be killed between rows; no uniqueness constraint |
| Fetching requests (`fetchAllUserRequests`, `getRequest`, `getAllItems`) | three levels of counters captured by callbacks | `refreshData` at launch, on a pull, after a new request | reads are answered in any order, refreshes overlap, some paths never call back |
| Composing a request (`Basket`, `ItemsViewController`, `NewRequestViewController`, `RequestItemCell`) | `RequestItem` objects shared by several screens | plus, minus, open and close cards, load items | aliasing, stale quantities, matching by name here and by id there, limits of 0 and 1 |
| Sending a request (`CheckoutViewController`, `postRequest`, `updateCounters`) | callback chain; shared counters on the server | send, two writes, three transactions per item | refusals, kills and lost connections between the steps, several clients |
| Session (`FirAuthHandler`, `LoginViewController`, `SceneDelegate`, `ProfileViewController`) | the one current user, kept across launches | sign in, role check, sign out | attempts overlap, the user is kept before the role is known |
| Delivery slot (`CheckoutDetailCell`) | date and slot pickers, computed when the cell is made | pick, send, fetch | month and year ends, units, a checkout left open past midnight |
| Database client (Firebase SDK: `FPersistentConnection`, `FRepo`) | outstanding puts and listens, answers held back, the transaction queue | set, transaction, single read, connect, disconnect | writes are sent again, transactions cancelled or run again, messages of other devices in between |
| Views, cells, styling | none that matters | | not modelled |

The parts interact like this. The session decides whether the landing screen
is up. The landing screen shows the cache at once and starts a refresh. The
refresh, when it completes, hands its list to the cache and reads it back, and
reloads its table 0.7 s later. A new request is put together in the basket,
handed to the checkout, posted, and the way back starts another refresh.
The landing screen is loaded once per launch, stays under the login screen and
outlives every session. Everything goes through the Firebase SDK, whose source
is vendored under `Pods`; the servers are external, and what is assumed of them
is said in the module that uses them.

## Modules

**`RequestStore`** models the cache. `ctx` is what the view context sees,
`disk` what is saved; a save either brings `disk` up to `ctx` or fails and
leaves it behind. Every iteration of the two loops of `updateSavedRequests` is
an action (`LeaveMatching`, `DeleteOld`, `SaveNew`), so `Crash` can fall
between any two. A `context.fetch` can throw (at most `MaxFetchErrors` times):
`loadAllRequests` then returns nothing, which its caller takes for an empty
cache. A row keeps the id, the status, the flag and the language of its texts;
its other attributes are determined by the id. The variables `before`,
`tainted`, `fetchErrors` and `health` are history that properties refer to.

**`ShownRequests`** is the abstract specification of the cache, seen from the
landing screen: the list is replaced as a whole by the list received last, and
after a relaunch only what the server once sent is shown.
**`RequestStoreRefinement`** adds the history variable the abstraction needs
and states that `RequestStore` implements it.

**`RequestFetch`** models overlapping refreshes from `refreshData` to the
reload of the table. Reads are a set `net`, answered in any order, or, with
`InOrder`, in the order of the batches they went out in. None of them has a
cancel block, so that one the server refuses (`Refuse`) calls nobody back, ever.
The session may end and come back while the landing screen stays. `zoneCount`,
`requestCount` and `counter` are the counters of the code; `unasked` and
`pulled` are history. The list delivered replaces `userRequests` in one step: that the cache hands back what it was
given is `RefreshMirrors` of `RequestStoreProofs`.

**`Basket`** models the composition of a request with a heap of `RequestItem`
objects, because the same object can be in the basket, on the items screen and
in the checkout. `UpdatedHeap` and `UpdatedItems` together are
`Basket.update`. It goes by ids; `updateItemsFromBasket` goes by names, which
items may share (`NameOf`). Which of several entries of its name a row ends up
with depends on the order of rows and entries, which the model does not keep: it
may be any. `made` says that there was a user for whom the screen could make a
request; without one the checkout gets nil. The plus button is modelled as enabled by the bound of a fresh
cell (`FreshCellMax`, 99 in the code): `cellForRow` assigns `count` before
`maxCount`, so the item's own limit does not guard it.

**`PostRequest`** models sending, for several clients. Writes are on their way
(`net`), then applied or refused, then answered (`acks`); a write may also be
applied, its answer lost with the connection, and be sent again
(`ApplyAnswerLost`). Transactions take effect atomically and at most once. Both
are what `WriteContract` allows. It does not promise that nothing is overwritten:
a transaction queued behind another of the same client on the same counter may
undo any part of what the counter has counted (`Undone`; see
`client_overwritten` below). `hung` is the stage of a client with a "Sending..."
card that nothing will replace: `postRequest` returned at its first guard, or
the read of the zone was refused (`ZoneRefused`).

**`SignIn`** models the session. Firebase sets the current user on a queue of
its own before the callback runs on the main thread, hence `AuthAccepted` and
`signinCallback`. `mine` tells attempts of the login screen that is up from
those of an earlier one, whose results go to a screen that is gone.
The read of the role may be refused, and then nobody is told (`RoleRefused`);
the SDK ends a session by itself when its token is found invalid
(`SessionEnds`), and no screen notices. `overlapped`, `survived`, `dropped` and
`ended` are history.

**`Accounts`** composes the session with the landing screen for several
accounts on one device. It extends `SignIn` and adds whose requests are in the
list and in the cache, and the refreshes under way with the uid each began with.
A fetch that throws while the cache is updated leaves rows behind
(`updateThrows`), one that throws when the list is read back leaves it empty, and
a kill may leave any rows. `refreshed` and `leftover` are history.

**`DeliverySlot`** models the checkout's detail cell, the clock, the reuse of
the cell by its table, and the conversions of `postRequest` and `getRequest`.
Time is in hours since 1970, local, without daylight saving; the calendar is
modelled by what it does with a month 13 or a day 32. That the date of the
picker is a midnight within its bounds is assumed, as the cell does.

**`DatabaseClient`** models the part of the SDK that the app's writes and reads
go through. All of it runs on one dispatch queue, so its state is one record and
its methods are functions on it; a step handles one call, message or event to
its end, except that an observer is removed by a block dispatched later
(`removeObserver`). Plain writes go to keys of their own, as `postRequest`'s do;
transactions to one counter; reads are of other places or of a place above the
counter (`Above`), as `getRequestItem`'s reads of `items/<id>` are above the
item's counters. The data of such a read teaches the client the counter and runs
the waiting transactions again (`Taught`). `FSyncTree` lets the read take over
the counter's listen for its duration; the model keeps both listens instead. The
server (`Serve*`) and other devices (`ForeignChange`) are external. `applied`,
`foreign`, `overtaken` and `client.reread` are history.
**`WriteContract`** is the abstract specification the app relies on:
`setValue` is applied at least once before it succeeds and may have been applied
when it fails; a transaction is applied at most once, and if it fails it was not
applied, unless the answer was "disconnect". `DatabaseClient` states that it
implements it (`ImplementsContract`).

`MC*` modules give the constants values and define symmetries.

## Runs

| Run | Checks | Instance |
|---|---|---|
| `store` | types; no duplicates; a completed refresh mirrors the list; the badge; the saved locale | 2 requests, 2 statuses, 2 languages, 3 row identities, no fetch errors |
| `store_errors` | duplicates heal in one complete refresh (that the list is exact from the second on is proved) | 1 request, 3 row identities, 2 fetch errors |
| `store_refinement` | the cache implements `ShownRequests`; `updateSavedRequests` terminates | no fetch errors |
| `fetch` | the join is exact; the table follows the list; the spinner spins for a reason | 2 refreshes, 2 requests, 2 zones, 2 items, any order; reads refused, session lost and regained |
| `fetch_in_order` | overlapping refreshes do not overtake each other; a refresh completes | the same with 1 item, in order, with fairness |
| `basket` | one entry per item, positive quantities, limits, action bar, rows, checkout, other items untouched | 3 items, two of them of one name; limits 1 or 3, 2, and 0 to 2; 4 objects |
| `post` | the result tells the truth; a hanging card hides nothing; no dangling link; the counters; a send comes to a result | 2 clients, 2 zones, 1 item, 2 checkouts in all, one each or both of one client, 1 write sent again, with fairness |
| `accounts` | the wrong role is being checked; landing is for the elderly; whose requests are shown; the spinner stops | 2 attempts, an account of each kind, 1 refresh per account at a time |
| `client` | the contract; what can be overwritten; the limit on retries | 1 write, 2 transactions, 1 read above the counter; 1 break, 1 refusal, 1 foreign change |
| `client_liveness` | every call is answered | the same with 1 transaction and a read elsewhere |
| `client_overwritten` | finds the counterexample to `NothingOverwritten` | 2 transactions, 1 read elsewhere, 1 foreign change, an unbroken connection |
| `delivery` | the dates offered, the slot shown, the slot ahead | 28th to 31st of January, February, April and December, 2023 and 2024; 36 hours |

Bounds. The cache works on one request at a time and requests interact only
through equal ids, so two ids (one to be processed while the other waits) show
the interference; three row identities allow a deleted row's identity to be
taken while two rows exist, and the triple of one request that two fetch errors
can make. Two zones with two requests give both joins of one zone and of two; two
items per request give counters above one. Four objects are two basket entries
and two rows of the same items. Two items of one name are enough for a row to
meet an entry, or two, of another item. Two orders of one client are what a count
can be undone by, one of each client what their transactions are interleaved by. Limit 1 is the smallest with an entry, 3 leaves
room to count up and down. A cell bound of 4 is above every limit, as 99 is
meant to be. Limit 0 is where a plus removes an entry. Two sign-in attempts let
one sign in while the other is checked; more attempts, and two elderly users,
are covered by the theorems. Two transactions are one that is out and one behind
it in the queue, two tries one that fails and one at the limit (25 in the code);
one read is a listen whose answer holds others back; one break is enough for a
call to be applied before and after it. The counter is missing at first in
`client`, so that a transaction's first guess fits, and becomes stale with the
other device's change; in `client_liveness` it is 0 and the first guess is stale.
Steps of
12 hours cross a midnight and the start of a slot.
`fetch*` and `client*` runs say `CHECK_DEADLOCK FALSE`: once the bound on
refreshes or calls is used up and everything is answered the app waits for its
user. `client` is symmetric in the transactions; the contract is, too.

Fairness. `RequestStore`: the main thread runs a handler to its end, so steps
of the update are weakly fair; a kill may still end it. `RequestFetch`,
`PostRequest`, `Accounts`: Firebase answers or refuses what it was asked and the
main queue runs callbacks and timers. That a read is answered rather than
refused is not assumed: the liveness properties name that case. It is an assumption on the environment: without a
connection all three wait, and the code has no timeout. `DatabaseClient`: the
SDK tries to connect until it is connected (`tryScheduleReconnect`), the queue
runs what is dispatched, the server handles what it gets; that the connection
breaks only finitely often is the bound `MaxBreaks`. Nothing the user or another
device does is fair.

What the runs show about the code, beyond that the properties hold:

* A fetch that throws duplicates rows; the next complete refresh removes the
  copies but may keep the stale one, and only the one after it is exact again.
  `deleteRequest` takes an id, and so cannot say which copy it means.
* A switch of language that is cut off leaves rows of two languages under one
  saved locale (`tainted`); a later refresh does not notice.
* The count of an item may exceed its limit: by one if the limit is 1, up to
  the bound of the cell if it is 0. After an entry is removed at zero by the
  clamp, its row on the items screen keeps its quantity and counts on from it.
* A kill between the two writes of `postRequest` leaves a stored request that
  nobody sees, and one between the link and the transactions leaves the
  counters behind for good. They never run ahead.
* If reads are not answered in order, an older refresh can overwrite a newer
  one; `NewestWins` needs `InOrder`.
* One request without content keeps every refresh from completing.
  `CheckoutHasItems` shows that this app sends none.
* A read that is refused has no one to tell. It leaves a refresh unfinished and
  its spinner on (`SpinsForAReason`), the "Sending..." card up for a user who is
  signed in, and the login screen spinning with a user whose role is not known.
* Items that share a name take on each other's quantities when the items screen
  is loaded or clicked, and may so exceed their limits. Nothing else than a
  shared name lets a click change the quantity of another item
  (`OtherItemsUntouched`).
* A kill between authentication and the role check lets any account in on the
  next launch; so does a sign-out that throws. Overlapping attempts can show the
  landing screen to the wrong role for as long as its check takes, or with no
  user at all. The latter is also what a session that ends by itself leaves.
* After a change of account the landing screen shows the earlier account's
  requests until a refresh of the new one completes, and nothing begins one. A
  refresh of the earlier account that was under way can put them back later
  (`leftover`; without that clause `OwnRequestsOnly` fails). So can a refresh of
  the new account whose update could not read the cache: it deletes nothing.
* A session that ends while a request is put together, or a zone that may not be
  read, leaves the user with "Sending..." and no way out but to kill the app.
  What is then left behind is nothing at all (`HungSentNothing`), so that sending
  the request again does not double it.
* Two requests of one client for the same item may end with a count that is too
  low although nothing was cut off; requests of different clients do not
  (`CountersSettle`).
* "Something went wrong!" can be shown for a request that is there: its link was
  applied, the answer lost, and the link refused when sent again.
* A checkout left open past midnight offers today, and sends a slot that may
  have begun. The default slot of `postRequest` is off by a factor of 1000; the
  checkout always sets a slot, so that it is not used.
* In the SDK, an answer to a write that is held back for a listen when the
  connection breaks is passed on only with the answer to some later listen:
  without one, the write's callback waits for the app's next read (`Stranded`).

One run contradicts what is documented. `runTransactionBlock` promises that a
block is run again if the client had stale data (`FIRDatabaseReference.h`). In
`client_overwritten` one transaction is out and a second waits behind it; a read
elsewhere is not answered yet, so that the first one's "ok" is held back;
another device changes the counter and the client is told; then the read is
answered, the "ok" passed on, and `FRepo` sends the second transaction with the
hash of the new value and the output it computed from the old one, before it
would run the block again. The server accepts. `updateCounters` starts its
transactions while the return to the landing screen begins a refresh with its
reads, so the app can meet this on a slow connection, when an item is ordered again
before the transactions of the first order are answered.

There is a second way, and `OverwrittenOnlyWhenOvertaken` shows that there is no
third. A read above the counter, like that of an item when a category or a
request is opened, brings the counter's value and runs the waiting transactions
again. The rerun leaves out the write of the transaction that is out
(`FRepo.m:1155`), and what waits behind it is then computed as if it had not
happened. If its acceptance is passed on next, the one behind is sent with the
hash of the value that includes it, and its effect is gone. Both ways need two
transactions of one client on one counter at the same time. `PostRequest`
therefore lets such a transaction, and no other, undo what was counted.

## Proofs

`tlapm` checks the eight modules from nothing; the two about the database
client, whose steps are the longest, take about nine and five minutes, the
others a few minutes together. Every theorem
is `Spec => []P` for a property `P` that a run checks on a small instance, an
action property, or a refinement, and holds for every value of the constants
that meets the named assumptions; TLC evaluates these on every run. Each
inductive invariant was model-checked before it was proved.

**`RequestStoreProofs`**, for any sets of requests, statuses, languages and any
finite set of row identities: `TypeCorrect`, `NoDuplicates`, `Healing`,
`RefreshMirrors`. Assumptions: `Absent` is none of the values it stands for;
`Objs` is finite; `MaxFetchErrors` is a natural number. None of the invariants
is inductive: that `SaveNew` makes no duplicate depends on what the loop before
it has left. The inductive invariant `IInv` adds, for an update in which no
fetch has thrown, that what is in `oldRequests` is still a row (`OldAreRows`),
that a request in `newRequests` has no row other than an unprocessed one
(`NewAreUnsaved`), that every processed row and every remaining request is as
fetched (`DoneAsFetched`, `NewAsFetched`), and that no fetched request was
forgotten (`FetchedCovered`). For an update that starts from duplicates it
counts: of each id there are as many rows as unprocessed old entries, and one
more once the fetched request of that id is dealt with (`HealingUpdate`); that
argument is about cardinalities, hence the finiteness.

On top of `IInv`, `BadgeIsNews` needs to know what the flags say half way
through the loops (`NInv`): unprocessed rows are as before (`OldAsBefore`), a
processed row is flagged if and only if it was not known before
(`DoneAreFlagged`), and what is still to be saved is news (`UnsavedAreNews`).
`LocaleIsTrue` needs that in a language switch nothing matches, so that every
old row is deleted before the first new one is saved (`SwitchUpdate` of `LInv`).
`CacheImplementsShown` is the step simulation: an update's `Finish`, which
reloads the list, is the abstract replacement, a `Crash` the abstract
relaunch, everything between is a stutter; `SInv` says that what the context
and the disk hold was sent by the server. It assumes, as the run does, that
no fetch throws (`MaxFetchErrors = 0`); with a throw the list can show a
request twice, and the refinement does not hold.

**`BasketProofs`**, for any items, limits and any set of objects: `TypeCorrect`,
`OneEntry`, `InBounds`, `RowsAgree`, `ActionBar`, `CheckoutGetsItems`,
`OthersUntouched`. Assumptions: limits are natural numbers, of at most the 99 a
fresh cell has, every item has a name, categories are sets of items; nothing is
assumed of names being different (`ItemsAssumption`, `FreshCellMaxAssumption`), and `None` is none of the values
it stands for. The invariant `BInv` is the conjunction of the checked ones with
the bounds of rows (`RowsInBounds`), of limits (`LimitsSound`) and what each
screen presupposes (`Screens`). An entry is added with the quantity its row was
left with. So that the basket stays within bounds depends on the rows that have
no entry, and these are within bounds because a row showed its entry's quantity
when the entry was removed. What shared names mix up stays below the bound of the
cell, because every quantity that is copied does.

**`RequestFetchProofs`**, for any zones, requests, items and refreshes:
`TypeCorrect`, `JoinExact`, `TableFollows`, `Spins`, and `NewestFirst` for
connections that answer in order. Assumptions: the three sets are finite,
`None` is no id or item, and there is at least one refresh. The join is three
counters deep, each captured by callbacks, and none says what it has counted. The invariant
`JInv` relates each to the reads that are out: the counter of a refresh to its
zones with an open request, the counter of a zone to its open requests, the
counter of a request to the items still out (`RequestsCounted`,
`ItemsCounted`); with what has been collected so far (`ReadsSound`, `Loading`)
this gives what the refresh completes with (`Completed`), and that one which has
not completed still has a read out, refused or not, unless it never had a user or
met a request without content (`Waits`); this and that a completed one has its
reload to come while the control spins (`SpinningEnds`) give `Spins`. `TypeOK`
includes that no counter falls below zero. For `NewestFirst`, `OInv` adds that reads are
answered in the order they were made (`InTurn`), that requests are delivered
only once all of the list have been asked for (`NoneEarly`), and that a
completed refresh leaves no older one under way (`NoneLate`).

**`AccountsProofs`**, first about the session (`SignIn`), for any accounts and
any number of attempts at once: `WrongRoleChecked`, `LandingChecked`,
`TypeCorrect`. The first is inductive except for a kill on the landing screen,
which must find a checked user there or none; that needs the second, which needs that an
attempt without company reads back the uid it signed in (`Solo`), and that what
a kill leaves behind is checked or marked as not checked (`OffIsChecked`).

Then about the device (`Accounts`), for any number of refreshes too:
`OwnRequestsOnlyHolds`, `DeviceLandingChecked`, `DeviceTypeCorrect`. The first
needs that, unless another's refresh was left over, every refresh under way is
the current user's (`NoOthersUnderWay`): a refresh begins with the uid of the
user that is current. The other two carry over from the session, since every
step of the device is one of the session or leaves it alone (the lemma
`ImplementsSignIn`).

**`PostRequestProofs`**, for any clients, items, zones and number of orders:
`LinksExist`, `ResultIsTrue`, `HungUnsent`, `PostTypeCorrect`,
`NeverCountedTwice`, `CountsSettle`. Assumptions: the bounds `MaxOrders`,
`MaxOpened` and `MaxResent` are natural numbers, quantities are natural numbers,
and there is a zone. The first three
are about writes and answers that are still out when the state they speak of is
reached, so the inductive invariant `PInv` says what they stand for: a link
that is out is of a stored request, and of one not linked yet unless it is
being sent again (`NetSound`); an answer to a link leaves no link out, and tells
the truth (`AcksSound`); nothing of a request is sent before its zone is known,
and no link before it is stored (`Fresh`, `Unopened`); a result leaves no link
out that could falsify it (`Ended`).

The last two are about sums. A counter is a number and does not tell what it has
counted. `CInv` says that for every counter and item there is a set of linked
requests (`Counts`) that it is the sum of, or falls short of if a client has
linked two requests with the item (`Stands`), such that none of them can be
counted again, for its transaction is not out and its link has been answered,
and each other linked request is awaited, out, cut off or asks for none of the
item. A commit adds its request to the set; every other step keeps the set
(`KeepsCounting`). That a sum over one more request is that much more is itself
proved: `Ordered` is a fold of the library, a recursive function on the subsets
of a set, and the library's induction rules cannot be instantiated by the
provers; the lemmas from `Smallest` to `OrderedSame` go through a smallest
counterexample instead, which exists since strict inclusion of finite sets is
well founded.

**`DeliverySlotProofs`**, for any days, years, steps of the clock and number of
them: `MonthOffered`, `ShownIsOffered`, `SlotAhead`. Assumptions: days are
integers, `None` is none, and `Years` has the year of every day the clock can
show (`YearsAssumption`). The first half is the calendar: the leap-year rule and the
count of leap days agree (`YearLength`), every day of a year has components
(`DateExists`), and one more on the month is 28 to 31 days more, in December
too (`NextMonth`). The invariant adds to `OffersAMonth` that the clock stays
within the years (`Clock`) and what has become of the slot (`Sent`).

**`DatabaseClientProofs`**, for any writes, transactions and reads:
`TypeCorrect` and `Implements`, that the SDK implements `WriteContract`.
Assumptions: no call is both a write and a transaction, the counter is not one
of the other places read, it starts missing or at zero, the bounds are natural
numbers and a transaction is tried at least once (`OpsAssumption`,
`CounterAssumption`, `FirstNodesAssumption`, `BoundsAssumption`).

Neither is inductive. A call is answered once because of where it is held, and
truthfully because of what is on the wire. The invariant `Inv` has four parts.
`Sound`: the transactions that wait are those in the queue, each there once
(`Queued`); outstanding puts and answers held back are of calls that wait, no
call is in two of them, and one is of transactions while there is a queue, never
two (`Standing`); an answer says what has happened, and what has not been sent has not taken effect
(`Applied`). `Conn`: a put is on the wire at most once, as itself or as an
honest answer, and only if it is outstanding and sent (`Wire`); no put is before
the authentication is accepted, and nothing at all without a connection
(`Link`); the count of unanswered listens is the number of those on the wire
(`Unacked`); a write takes effect at most once per connection (`Repeats`). `Tended`: types of the rest. `Refusals`: a refused
authentication has a break left to cause. One step may pass on many answers,
and each may send what waits behind it, run blocks again and finish others,
before the next one is looked at. So `Sound` and `Conn` are relations between a
client, the answers not passed on yet and the messages, not between variables;
they are shown to survive one answer (`putAnswered`, with the queue's rerun and
send), and by induction on the answers all of them (`AllPassed`), for
`ackPuts` and `cancelSentTransactions` alike. The induction is over a set of
numbers (`NatInduct`, from well-foundedness), which spares the library's rules
with an operator parameter. `Implements` is then a step simulation: each step of
the SDK or the server issues a call, applies the calls of one put, answers
some, or is a stutter.

**`TransactionProofs`**, for any writes, transactions, reads and foreign
changes, under the same assumptions: `Overwriting`, that
`OverwrittenOnlyWhenOvertaken` holds. The server accepts a put of transactions
if its hash is that of the counter. So nothing is overwritten if each put's value
is what its hash stands for plus the number of its transactions (`Good`). That is
clear of a put made from the cache. One that is made when the put before it
has been accepted takes its value from that put and its hash from the cache,
and they agree only because the server tells of the new value before it
acknowledges it. The invariant `Honoured` adds to `Inv` what this takes: that
the cache contradicts no acceptance held back (`KeptNear`) or on its way
(`AllHeard`), as long as no news has overtaken one; that the client is told at
all, because a put that depends on the counter follows a listen on the wire that
nothing revokes (`Asks`), or else the counter was missing when it was made, and
is found changed if there is one by now (`Missing`); and that the transactions
that took effect can be counted (`Counting`). With `client_overwritten` this
settles the question: the overwriting found there is possible, and no other is
as long as no read above the counter has been answered while it was watched. Once
one has, there is nothing left to show, and nothing takes it back
(`RereadStays`); so the inductive invariant is `Kept`, that `Honoured` holds until
then.

Only model-checked: liveness (`UpdateTerminates`, `SendCompletes`,
`RefreshEnds`, `SpinnerStops`, `CallsAnswered`), which is out of the prover's
reach like `ENABLED`. Every invariant, action property and refinement that a
passing run checks is proved.

## Not modelled

Views, cells and styling, the profile and details cards (they show what one read
returned), and `AppDelegate.saveContext` (never called). Within the modelled
parts: texts, icons, colours and dates of creation; the order of rows, which is
by creation date; `qtyRemaining`, which only enters a cell's `maxCount`; limits
above 99; daylight saving.

The pods, but for the SDK's write path in `DatabaseClient`. Of the SDK: token
refresh and sign-out on a live connection, interrupts, `onDisconnect` writes,
merges, persistence, listens revoked by the server, the handing over of a listen
from one query to another (`FSyncTree`), and writes and transactions at
overlapping paths (the app has none; its reads above a counter are modelled). The vendored C and C++ code (leveldb,
nanopb, and the headers of the pods) is by far the largest part of the
repository by lines. It is third-party code that the app does not call: leveldb
backs the database's persistence, which the app never enables, and nanopb the
analytics of other pods. No property of Kasei depends on it, and so the map
covers the app's Swift and the SDK's Objective-C, and none of it.

## Plan

Done: every component with its runs, and the proofs of every safety property
and refinement the passing runs check. Left open, and of use only together with
the other apps of the system, which are not in this repository: who changes a
request after it is sent, and what keeps the remaining stock from going below
zero.
