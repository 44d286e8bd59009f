----------------------- MODULE RequestStoreRefinement -----------------------
(***************************************************************************)
(* RequestStore, with the history of everything the server sent, shown to  *)
(* implement ShownRequests while no fetch throws.                          *)
(***************************************************************************)
EXTENDS RequestStore

VARIABLE served     \* history: every <<id, status>> in a fetched list

Sent(l) == {<<i, l[i]>> : i \in Listed(l)}

HInit == Init /\ served = {}

HNext == Next /\ served' = served \cup Sent(fetched')

(***************************************************************************)
(* The main thread goes on with an update it has begun, unless killed.     *)
(***************************************************************************)
HSpec == HInit /\ [][HNext]_<<vars, served>> /\ WF_vars(UpdateStep)

(***************************************************************************)
(* The list a table of rows shows: the status of each request in it.       *)
(***************************************************************************)
ListOf(t) ==
    [i \in Ids |-> IF \E x \in Present(t) : t[x].id = i
                   THEN t[CHOOSE x \in Present(t) : t[x].id = i].status
                   ELSE Absent]

Shown == INSTANCE ShownRequests WITH
    open <- pc # "off",
    shown <- ListOf(userRequests),
    last <- fetched

(***************************************************************************)
(* updateSavedRequests with the reload after it acts, on what the user can *)
(* see, as one atomic replacement by the fetched list: no row by row state *)
(* is ever shown, and what a relaunch after a kill at any point shows was  *)
(* sent by the server at some time.                                        *)
(***************************************************************************)
ImplementsShownRequests == Shown!Spec
=============================================================================
