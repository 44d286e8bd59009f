--------------------------- MODULE ShownRequests ----------------------------
(***************************************************************************)
(* What the request cache promises to the landing screen, without rows,    *)
(* contexts or saves: the shown list is replaced as a whole by the list    *)
(* the server sent last, and a relaunched app shows nothing the server has *)
(* not sent at some time.                                                  *)
(***************************************************************************)
CONSTANTS Ids, Statuses, Absent

VARIABLES
    open,   \* the app is running
    shown,  \* the status shown for each request, Absent if it is not shown
    last,   \* the list received last
    served  \* every <<id, status>> the server has sent so far

vars == <<open, shown, last, served>>

Lists == [Ids -> Statuses \cup {Absent}]
Empty == [i \in Ids |-> Absent]
Pairs(l) == {<<i, l[i]>> : i \in {j \in Ids : l[j] # Absent}}

Init ==
    /\ open = FALSE
    /\ shown = Empty
    /\ last = Empty
    /\ served = {}

Receive(l) ==
    /\ open
    /\ last' = l
    /\ served' = served \cup Pairs(l)
    /\ UNCHANGED <<open, shown>>

Apply ==
    /\ open
    /\ shown' = last
    /\ UNCHANGED <<open, last, served>>

Close ==
    /\ open
    /\ open' = FALSE
    /\ shown' = Empty
    /\ last' = Empty
    /\ UNCHANGED served

Reopen(l) ==
    /\ ~open
    /\ Pairs(l) \subseteq served
    /\ open' = TRUE
    /\ shown' = l
    /\ UNCHANGED <<last, served>>

Next ==
    \/ \E l \in Lists : Receive(l) \/ Reopen(l)
    \/ Apply
    \/ Close

Spec == Init /\ [][Next]_vars
=============================================================================
