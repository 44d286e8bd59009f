---------------------------- MODULE WriteContract ---------------------------
(***************************************************************************)
(* What the app may rely on when it writes to the realtime database: an    *)
(* abstract specification of setValue and runTransactionBlock, the two     *)
(* writes it uses, that says nothing of connections, listens or retries.   *)
(*                                                                         *)
(* setValue is applied at least once before it succeeds, and may have been *)
(* applied when it fails.  A transaction is applied at most once; if it    *)
(* fails, it has not been applied, unless the connection broke.            *)
(***************************************************************************)
EXTENDS Integers

CONSTANTS
    Writes,     \* calls of setValue
    Txns        \* calls of runTransactionBlock

VARIABLES
    result,     \* what each call has been told so far
    applied     \* how many times each has taken effect at the server

Ops == Writes \cup Txns
vars == <<result, applied>>

Answers == {"ok", "denied", "disconnect", "maxretries"}

Init ==
    /\ result = [o \in Ops |-> "none"]
    /\ applied = [o \in Ops |-> 0]

(***************************************************************************)
(* The app calls setValue or runTransactionBlock.                          *)
(***************************************************************************)
Issue(o) ==
    /\ result[o] = "none"
    /\ result' = [result EXCEPT ![o] = "pending"]
    /\ UNCHANGED applied

(***************************************************************************)
(* Calls S take effect together: a write again and again, a transaction    *)
(* once.                                                                   *)
(***************************************************************************)
Apply(S) ==
    /\ \A o \in S : result[o] = "pending"
    /\ \A o \in S \cap Txns : applied[o] = 0
    /\ applied' = [o \in Ops |-> applied[o] + IF o \in S THEN 1 ELSE 0]
    /\ UNCHANGED result

(***************************************************************************)
(* What answer a may say of call o.                                        *)
(***************************************************************************)
Truthful(o, a) ==
    \/ a = "ok" /\ applied[o] > 0
    \/ a = "denied" /\ (o \in Txns => applied[o] = 0)
    \/ a = "maxretries" /\ o \in Txns /\ applied[o] = 0
    \/ a = "disconnect" /\ o \in Txns

(***************************************************************************)
(* Calls S are answered, each once and truthfully.                         *)
(***************************************************************************)
Answer(S) ==
    /\ \A o \in S : result[o] = "pending"
    /\ \E answer \in [S -> Answers] :
        /\ \A o \in S : Truthful(o, answer[o])
        /\ result' = [o \in Ops |-> IF o \in S THEN answer[o] ELSE result[o]]
    /\ UNCHANGED applied

Next ==
    \/ \E o \in Ops : Issue(o)
    \/ \E S \in SUBSET Ops : Apply(S) \/ Answer(S)

Spec == Init /\ [][Next]_vars
=============================================================================
