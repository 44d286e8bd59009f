--------------------------- MODULE DatabaseClient ---------------------------
(***************************************************************************)
(* The part of the Firebase SDK that the app's writes go through:          *)
(* FPersistentConnection (the puts and listens that are outstanding, what  *)
(* is sent, held back, cancelled and sent again as the connection comes    *)
(* and goes) and the transactions of FRepo, for plain writes at keys of    *)
(* their own, transactions at one counter, and single reads elsewhere or   *)
(* above the counter, as the app's reads of an item are above its stock.   *)
(*                                                                         *)
(* All of it runs on one dispatch queue: a step handles one call, message  *)
(* or event to its end.  Its state is therefore one record, and the        *)
(* methods are functions from such a record to the next.                   *)
(*                                                                         *)
(* The server is external.  Assumed of it: it handles the messages of a    *)
(* connection in order, answers each, tells a listener of a change before  *)
(* it acknowledges the put that made it, accepts a put with a hash only if *)
(* the data it is for still has that hash, and handles nothing of a        *)
(* connection once it has broken.                                          *)
(***************************************************************************)
EXTENDS Integers, Sequences, SequencesExt, FiniteSets

CONSTANTS
    Writes,     \* calls of setValue
    Txns,       \* calls of runTransactionBlock, all at the same counter
    Reads,      \* queries of observeSingleEvent
    Above,      \* those whose data the counter is part of
    Counter,    \* the query a transaction listens with
    FirstNodes, \* what the counter may hold at first, see node
    MaxTries,   \* kFTransactionMaxRetries
    MaxReads,   \* bound on the reads
    MaxBreaks,  \* bound on the breaks of the connection
    MaxDenials, \* bound on the requests the server refuses
    MaxForeign  \* bound on the changes other devices make to the counter

ASSUME CounterAssumption == Counter \notin Reads /\ Above \subseteq Reads
ASSUME OpsAssumption == Writes \cap Txns = {}
\* The counter is counted from zero, which a missing node stands for as well.
ASSUME FirstNodesAssumption == FirstNodes \subseteq {<<>>, <<0>>}
ASSUME BoundsAssumption ==
    /\ MaxTries \in Nat \ {0}
    /\ MaxReads \in Nat /\ MaxBreaks \in Nat /\ MaxDenials \in Nat
    /\ MaxForeign \in Nat

VARIABLES
    client,     \* the SDK's state, see Clients
    down,       \* messages on their way to the client
    served,     \* the listens the server knows of
    node,       \* the counter: <<>> if there is no such node, else <<n>>
    applied,    \* history: how many times each call has taken effect
    foreign,    \* history: the changes of other devices, counted and summed
    reads,      \* the reads made so far
    breaks,     \* the breaks so far
    denials,    \* the refusals so far
    overtaken   \* history: see onData

vars == <<client, down, served, node, applied, foreign, reads, breaks, denials,
          overtaken>>
server == <<served, node, applied, foreign, denials>>

Ops == Writes \cup Txns
Queries == Reads \cup {Counter}
IsNode(n) == n \in Seq(Int) /\ Len(n) <= 1

(***************************************************************************)
(* A put: the calls it carries out (one write, or the transactions of the  *)
(* queue), whether it has a hash, the hash (the node itself stands for     *)
(* it), and the value to write.                                            *)
(***************************************************************************)
WritePut(w) == [ops |-> <<w>>, hashed |-> FALSE, hash |-> <<>>, val |-> 0]

(***************************************************************************)
(* Messages to the server, and from it.                                    *)
(***************************************************************************)
Auth == [kind |-> "auth"]
Listen(q) == [kind |-> "listen", query |-> q]
Unlisten(q) == [kind |-> "unlisten", query |-> q]
PutMessage(p) == [kind |-> "put", put |-> p]
Data(q, n) == [kind |-> "data", query |-> q, node |-> n]
Reply(m, status) == [kind |-> "reply", to |-> m, status |-> status]

(***************************************************************************)
(* runTransactionBlock's block, as in updateCounters: add one, a missing   *)
(* or foreign value counting as zero.                                      *)
(***************************************************************************)
Block(n) == (IF n = <<>> THEN 0 ELSE n[1]) + 1

(***************************************************************************)
(* What there is of the set X in sequence s, in the order of s.            *)
(* (SelectSeq, as a recursive function.)                                   *)
(***************************************************************************)
Only(s, X) ==
    LET kept[i \in 0..Len(s)] ==
            IF i = 0 THEN <<>>
            ELSE IF s[i] \in X THEN Append(kept[i - 1], s[i]) ELSE kept[i - 1]
    IN  kept[Len(s)]

connected(c) == c.state \in {"authenticating", "connected"}
canSendWrites(c) == c.state = "connected"

Send(c, m) == [c EXCEPT !.up = Append(@, m)]

(***************************************************************************)
(* sendListen, and listen: remember the query, send it if connected.       *)
(***************************************************************************)
sendListen(c, q) == [Send(c, Listen(q)) EXCEPT !.unackedListens = @ + 1]

listen(c, q) ==
    LET remembered == [c EXCEPT !.listens = @ \cup {q}]
    IN  IF connected(c) THEN sendListen(remembered, q) ELSE remembered

unlisten(c, q) ==
    LET forgotten == [c EXCEPT !.listens = @ \ {q}]
    IN  IF q \in c.listens /\ connected(c)
        THEN Send(forgotten, Unlisten(q)) ELSE forgotten

(***************************************************************************)
(* putInternal: the put is outstanding from now on, and sent if connected. *)
(***************************************************************************)
putInternal(c, p) ==
    LET outstanding ==
            [c EXCEPT !.puts = Append(@, [put |-> p, sent |-> canSendWrites(c)])]
    IN  IF canSendWrites(c) THEN Send(outstanding, PutMessage(p))
                            ELSE outstanding

-----------------------------------------------------------------------------
(***************************************************************************)
(* The transactions of FRepo, all in the queue of one path.  Each is       *)
(* "run", "sent" or "needsabort" while it is in the queue.  The local      *)
(* writes of a transaction cover the counter, so that latestStateAtPath,   *)
(* without those of the queue, is what the listener has last been told,    *)
(* and the listener raises no event (FViewProcessor) for what it is told:  *)
(* news of the counter alone re-runs no transaction.                       *)
(*                                                                         *)
(* sendAllReadyTransactions: the queue goes out as one put if none of it   *)
(* is out already.                                                         *)
(***************************************************************************)
sendTransactionQueue(c) ==
    LET p == [ops |-> c.queue, hashed |-> TRUE, hash |-> c.cache,
              val |-> c.output[Last(c.queue)]]
        sent == ToSet(c.queue)
    IN  putInternal([c EXCEPT
            !.status = [t \in Txns |-> IF t \in sent THEN "sent" ELSE @[t]],
            !.tries = [t \in Txns |-> @[t] + IF t \in sent THEN 1 ELSE 0]], p)

sendAllReadyTransactions(c) ==
    IF c.queue # <<>> /\ \A t \in ToSet(c.queue) : c.status[t] = "run"
    THEN sendTransactionQueue(c) ELSE c

(***************************************************************************)
(* Transactions S are over, each with its answer.  (Their listeners go     *)
(* later, see removeObserver.)                                             *)
(***************************************************************************)
Finish(c, S, answer) ==
    [c EXCEPT
        !.queue = Only(@, Txns \ S),
        !.status = [t \in Txns |-> IF t \in S THEN "completed" ELSE @[t]],
        !.result = [o \in Ops |-> IF o \in S THEN answer[o] ELSE @[o]]]

\* Mutants of rerunTransactionQueue: the limit on the tries is missed by one;
\* the blocks are not run again.
rerunTransactionQueueOneMore(c) ==
    LET again == SelectSeq(c.queue, LAMBDA t : /\ c.status[t] = "run"
                                               /\ c.tries[t] <= MaxTries)
        aborted == {t \in ToSet(c.queue) : c.status[t] = "needsabort"}
    IN  sendAllReadyTransactions(
            Finish([c EXCEPT !.output = [t \in Txns |->
                        IF t \in ToSet(again) THEN Block(c.cache) ELSE @[t]]],
                   aborted, c.abort))

rerunTransactionQueueKeepsOutput(c) ==
    LET aborted == {t \in ToSet(c.queue) : \/ c.status[t] = "needsabort"
                                           \/ /\ c.status[t] = "run"
                                              /\ c.tries[t] >= MaxTries}
    IN  sendAllReadyTransactions(
            Finish(c, aborted, [t \in aborted |-> IF c.status[t] = "needsabort"
                                                  THEN c.abort[t] ELSE "maxretries"]))

(***************************************************************************)
(* rerunTransactionsForPath: those that are to be aborted, or have been    *)
(* tried too often, are; the blocks of the others run again, the first on  *)
(* the latest state and each on the output of the one before; the queue is *)
(* sent if ready.  One that is out is left alone.                          *)
(***************************************************************************)
rerunTransactionQueue(c) ==
    LET aborted == {t \in ToSet(c.queue) : \/ c.status[t] = "needsabort"
                                           \/ /\ c.status[t] = "run"
                                              /\ c.tries[t] >= MaxTries}
        again == Only(c.queue, {t \in Txns \ aborted : c.status[t] = "run"})
        rerun == [c EXCEPT !.output = [t \in Txns |->
                    IF t \in ToSet(again)
                    THEN Block(c.cache) - 1 + CHOOSE i \in DOMAIN again : again[i] = t
                    ELSE @[t]]]
    IN  sendAllReadyTransactions(
            Finish(rerun, aborted,
                   [t \in aborted |-> IF c.status[t] = "needsabort"
                                      THEN c.abort[t] ELSE "maxretries"]))

(***************************************************************************)
(* The callbacks FRepo gives to putData.  Of a write: report the status.   *)
(* Of a queue of transactions: if it was accepted, they are over and what  *)
(* waits behind them is sent; if the data was stale, they are to run       *)
(* again, else to be aborted.  In the end the queue is re-run.             *)
(***************************************************************************)
putAnswered(c, p, status) ==
    LET mine == ToSet(p.ops)
        back(s) == [c EXCEPT !.status = [t \in Txns |->
                                            IF t \in mine THEN s ELSE @[t]]]
    IN  IF ~p.hashed
        THEN [c EXCEPT !.result[p.ops[1]] = status]
        ELSE rerunTransactionQueue(
                CASE status = "ok" ->
                        sendAllReadyTransactions(
                            Finish(c, mine, [t \in mine |-> "ok"]))
                  [] status = "datastale" -> back("run")
                  [] OTHER ->
                        [back("needsabort") EXCEPT !.abort =
                            [t \in Txns |-> IF t \in mine THEN status ELSE @[t]]])

(***************************************************************************)
(* The callbacks of a sequence of answers, one after the other.            *)
(***************************************************************************)
AllAnswered(c, answers) ==
    LET answered[i \in 0..Len(answers)] ==
            IF i = 0 THEN c
            ELSE putAnswered(answered[i - 1], answers[i].put, answers[i].status)
    IN  answered[Len(answers)]

(***************************************************************************)
(* ackPuts: the answers held back are passed on, in order.                 *)
(***************************************************************************)
ackPuts(c) == AllAnswered([c EXCEPT !.putsToAck = <<>>], c.putsToAck)

-----------------------------------------------------------------------------
(***************************************************************************)
(* The app's calls.  FRepo set:withNode: hands the value to putData.       *)
(***************************************************************************)
setValue(w) ==
    /\ client.result[w] = "none"
    /\ client' = putInternal([client EXCEPT !.result[w] = "pending"], WritePut(w))
    /\ UNCHANGED <<down, server, reads, breaks, overtaken>>

(***************************************************************************)
(* startTransactionOnPath: listen to the counter, run the block on what    *)
(* is known of it and of the queue, queue up, send if ready.               *)
(***************************************************************************)
startTransaction(t) ==
    LET c == IF Counter \in client.listens THEN client ELSE listen(client, Counter)
        input == IF c.queue = <<>> THEN c.cache ELSE <<c.output[Last(c.queue)]>>
    IN  /\ client.result[t] = "none"
        /\ client' = sendAllReadyTransactions([c EXCEPT
                        !.result[t] = "pending", !.status[t] = "run",
                        !.queue = Append(@, t), !.output[t] = Block(input)])
        /\ UNCHANGED <<down, server, reads, breaks, overtaken>>

(***************************************************************************)
(* observeSingleEvent.                                                     *)
(***************************************************************************)
observeSingleEvent(q) ==
    /\ q \notin client.listens
    /\ reads < MaxReads
    /\ reads' = reads + 1
    /\ client' = listen(client, q)
    /\ UNCHANGED <<down, server, breaks, overtaken>>

(***************************************************************************)
(* What is known of the counter is of use while it is watched, or while    *)
(* transactions wait for it whose listen was refused.  A read above it     *)
(* knows it as well, until it is over.  (FSyncTree has such a read take    *)
(* over the counter's listen, and listens to the counter anew when it is   *)
(* over: here both listens are kept.)                                      *)
(***************************************************************************)
Watched(c) == Counter \in c.listens \/ c.queue # <<>>

Lost(c, q) == q = Counter \/ (q \in Above /\ Counter \notin c.listens)

(***************************************************************************)
(* removeObserverWithHandle, dispatched by the callback of a read that is  *)
(* over, or by the transactions' unwatcher: the last of a query's          *)
(* observers takes the listen with it, and what it knew.                   *)
(***************************************************************************)
removeObserver(q) ==
    /\ q \in client.listens
    /\ IF q = Counter THEN client.queue = <<>> ELSE q \in client.over
    /\ client' = [unlisten(client, q) EXCEPT
                    !.cache = IF Lost(client, q) THEN <<>> ELSE @,
                    !.over = @ \ {q}]
    /\ UNCHANGED <<down, server, reads, breaks, overtaken>>

-----------------------------------------------------------------------------
(***************************************************************************)
(* The connection.  tryScheduleReconnect and openNetworkConnection, with   *)
(* the token fetched in between (failing that, it tries again).            *)
(***************************************************************************)
tryScheduleReconnect ==
    /\ client.state = "disconnected"
    /\ client' = [client EXCEPT !.state = "connecting"]
    /\ UNCHANGED <<down, server, reads, breaks, overtaken>>

(***************************************************************************)
(* restoreState: all listens are sent, in some order, then all outstanding *)
(* puts in the order they were made.                                       *)
(***************************************************************************)
restoreState(c, order) ==
    [c EXCEPT
        !.state = "connected",
        !.unackedListens = @ + Len(order),
        !.up = @ \o [i \in DOMAIN order |-> Listen(order[i])]
                 \o [i \in DOMAIN c.puts |-> PutMessage(c.puts[i].put)],
        !.puts = [i \in DOMAIN @ |-> [put |-> @[i].put, sent |-> TRUE]]]

(***************************************************************************)
(* onReady and restoreAuth: with a token authenticate first, without one   *)
(* (nobody signed in) restore at once.                                     *)
(***************************************************************************)
onReady ==
    /\ client.state = "connecting"
    /\ \/ client' = Send([client EXCEPT !.state = "authenticating"], Auth)
       \/ \E order \in SetToSeqs(client.listens) :
              client' = restoreState(client, order)
    /\ UNCHANGED <<down, server, reads, breaks, overtaken>>

\* Mutant of cancelSentTransactions: none is cancelled, all are sent again.
cancelSentTransactionsNone(c) == c

(***************************************************************************)
(* cancelSentTransactions: the put of the queue, if it has been sent, is   *)
(* answered with "disconnect".  (It may have been applied.)                *)
(***************************************************************************)
cancelSentTransactions(c) ==
    LET cancelled == Only(c.puts, {o \in ToSet(c.puts) : o.put.hashed /\ o.sent})
        answered == AllAnswered(c, [i \in DOMAIN cancelled |->
                        [put |-> cancelled[i].put, status |-> "disconnect"]])
    IN  [answered EXCEPT !.puts = Only(@, ToSet(@) \ ToSet(cancelled))]

\* Mutant of Disconnected: the answers held back are dropped.
DisconnectedDropsAnswers(c) ==
    [cancelSentTransactions([c EXCEPT !.state = "disconnected"]) EXCEPT
        !.unackedListens = 0, !.up = <<>>, !.putsToAck = <<>>]

(***************************************************************************)
(* onDisconnect: what has been sent and not answered is forgotten (the     *)
(* callbacks of requestCBHash, the count of listens); the answers held     *)
(* back are kept.                                                          *)
(***************************************************************************)
Disconnected(c) ==
    [cancelSentTransactions([c EXCEPT !.state = "disconnected"]) EXCEPT
        !.unackedListens = 0, !.up = <<>>]

onDisconnect ==
    /\ client.state # "disconnected"
    /\ breaks < MaxBreaks
    /\ breaks' = breaks + 1
    /\ client' = Disconnected(client)
    /\ down' = <<>>
    /\ served' = {}
    /\ UNCHANGED <<node, applied, foreign, reads, denials, overtaken>>

-----------------------------------------------------------------------------
(***************************************************************************)
(* onDataMessage: the next message of the server is handled.               *)
(***************************************************************************)
Received(m) ==
    /\ down # <<>>
    /\ m = Head(down)
    /\ down' = Tail(down)
    /\ UNCHANGED <<server, reads, breaks>>

(***************************************************************************)
(* The answer to auth.  If it is refused the connection is closed and made *)
(* anew with another token (counted as a break).                           *)
(***************************************************************************)
onAuth(m) ==
    /\ m.kind = "reply" /\ m.to.kind = "auth"
    /\ \/ /\ m.status = "ok"
          /\ Received(m)
          /\ \E order \in SetToSeqs(client.listens) :
                client' = restoreState(client, order)
       \/ /\ m.status # "ok"
          /\ m = Head(down)
          /\ client' = Disconnected(client)
          /\ down' = <<>>
          /\ served' = {}
          /\ breaks' = breaks + 1
          /\ UNCHANGED <<node, applied, foreign, reads, denials>>
    /\ UNCHANGED overtaken

(***************************************************************************)
(* onDataUpdate.  A read is over with the first data it gets; of the       *)
(* counter the listener remembers the latest.  The data of a read above    *)
(* the counter brings the counter along and raises an event, which re-runs *)
(* the transactions that wait, without the effect of the one that is out;  *)
(* data that comes again need not raise one.  (reread, a history: this has *)
(* happened.)                                                              *)
(***************************************************************************)
Taught(c, q, n) ==
    LET told == [c EXCEPT !.over = @ \cup {q}, !.cache = n, !.reread = TRUE]
    IN  {rerunTransactionQueue(told)} \cup IF q \in c.over THEN {told} ELSE {}

DataUpdate(c, q, n) ==
    IF q \notin c.listens THEN {c}
    ELSE IF q = Counter THEN {[c EXCEPT !.cache = n]}
    ELSE IF q \in Above /\ Watched(c) THEN Taught(c, q, n)
    ELSE {[c EXCEPT !.over = @ \cup {q}]}

(***************************************************************************)
(* overtaken: the counter changed, for the client, while the answer to its *)
(* put was held back.                                                      *)
(***************************************************************************)
onData(m) ==
    /\ m.kind = "data"
    /\ Received(m)
    /\ client' \in DataUpdate(client, m.query, m.node)
    /\ overtaken' = (\/ overtaken
                     \/ /\ m.query = Counter
                        /\ \E i \in DOMAIN client.putsToAck :
                                client.putsToAck[i].put.hashed)

(***************************************************************************)
(* A listen that is refused is removed, and what it knew with it.          *)
(***************************************************************************)
Refused(c, m) ==
    [c EXCEPT !.listens = IF m.status = "ok" THEN @ ELSE @ \ {m.to.query},
              !.over = IF m.status = "ok" THEN @ ELSE @ \ {m.to.query},
              !.cache = IF m.status # "ok" /\ Lost(c, m.to.query)
                        THEN <<>> ELSE @]

(***************************************************************************)
(* The answer to a listen.  With the last of them, the answers to puts     *)
(* that were held back are passed on.                                      *)
(***************************************************************************)
onListenReply(m) ==
    LET c == [Refused(client, m) EXCEPT !.unackedListens = @ - 1]
    IN  /\ m.kind = "reply" /\ m.to.kind = "listen"
        /\ Received(m)
        /\ client' = IF c.unackedListens = 0 THEN ackPuts(c) ELSE c
        /\ UNCHANGED overtaken

(***************************************************************************)
(* The answer to a put.  It is passed on at once, or held back while the   *)
(* answer to a listen is due.                                              *)
(***************************************************************************)
onPutReply(m) ==
    LET p == m.to.put
        c == [client EXCEPT !.puts = Only(@, {o \in ToSet(@) : o.put # p})]
    IN  /\ m.kind = "reply" /\ m.to.kind = "put"
        /\ Received(m)
        /\ client' =
            IF \A i \in DOMAIN client.puts : client.puts[i].put # p THEN client
            ELSE IF client.unackedListens = 0 THEN putAnswered(c, p, m.status)
            ELSE [c EXCEPT !.putsToAck =
                    Append(@, [put |-> p, status |-> m.status])]
        /\ UNCHANGED overtaken

onDataMessage ==
    /\ down # <<>>
    /\ \/ onAuth(Head(down))
       \/ onData(Head(down))
       \/ onListenReply(Head(down))
       \/ onPutReply(Head(down))

-----------------------------------------------------------------------------
(***************************************************************************)
(* The server: it handles the next message of the client.                  *)
(***************************************************************************)
Taken(m) ==
    /\ client.up # <<>>
    /\ m = Head(client.up)
    /\ client' = [client EXCEPT !.up = Tail(@)]
    /\ UNCHANGED <<foreign, reads, breaks, overtaken>>

Told(q, n) == IF q \in served THEN <<Data(q, n)>> ELSE <<>>

Accepted(m) == Taken(m) /\ UNCHANGED denials

Denied(m) ==
    /\ denials < MaxDenials
    /\ denials' = denials + 1
    /\ Taken(m)
    /\ down' = Append(down, Reply(m, "denied"))

ServeAuth(m) ==
    /\ m.kind = "auth"
    /\ \/ Accepted(m) /\ down' = Append(down, Reply(m, "ok"))
       \/ breaks < MaxBreaks /\ Denied(m)
    /\ UNCHANGED <<served, node, applied>>

ServeListen(m) ==
    /\ m.kind = "listen"
    /\ \/ /\ Accepted(m)
          /\ served' = served \cup {m.query}
          /\ down' = down \o <<Data(m.query, node), Reply(m, "ok")>>
       \/ Denied(m) /\ served' = served \ {m.query}
    /\ UNCHANGED <<node, applied>>

ServeUnlisten(m) ==
    /\ m.kind = "unlisten"
    /\ Accepted(m)
    /\ served' = served \ {m.query}
    /\ UNCHANGED <<down, node, applied>>

ServePut(m) ==
    /\ m.kind = "put"
    /\ \/ /\ m.put.hashed => m.put.hash = node
          /\ Accepted(m)
          /\ node' = IF m.put.hashed THEN <<m.put.val>> ELSE node
          /\ applied' = [o \in Ops |->
                applied[o] + IF o \in ToSet(m.put.ops) THEN 1 ELSE 0]
          /\ down' = down \o (IF m.put.hashed THEN Told(Counter, node') ELSE <<>>)
                          \o <<Reply(m, "ok")>>
       \/ /\ m.put.hashed /\ m.put.hash # node
          /\ Accepted(m)
          /\ down' = Append(down, Reply(m, "datastale"))
          /\ UNCHANGED <<node, applied>>
       \/ Denied(m) /\ UNCHANGED <<node, applied>>
    /\ UNCHANGED served

ServerStep ==
    /\ client.up # <<>>
    /\ \/ ServeAuth(Head(client.up))
       \/ ServeListen(Head(client.up))
       \/ ServeUnlisten(Head(client.up))
       \/ ServePut(Head(client.up))

(***************************************************************************)
(* Another device adds d to the counter, or takes it away.                 *)
(***************************************************************************)
ForeignChange(d) ==
    /\ foreign.count < MaxForeign
    /\ foreign' = [count |-> foreign.count + 1, sum |-> foreign.sum + d]
    /\ node' = <<(IF node = <<>> THEN 0 ELSE node[1]) + d>>
    /\ down' = down \o Told(Counter, node')
    /\ UNCHANGED <<client, served, applied, reads, breaks, denials, overtaken>>

-----------------------------------------------------------------------------
Init ==
    /\ client = [state |-> "disconnected", listens |-> {}, unackedListens |-> 0,
                 over |-> {}, puts |-> <<>>, putsToAck |-> <<>>, up |-> <<>>, queue |-> <<>>,
                 cache |-> <<>>, reread |-> FALSE,
                 status |-> [t \in Txns |-> "initializing"],
                 abort |-> [t \in Txns |-> "none"],
                 tries |-> [t \in Txns |-> 0],
                 output |-> [t \in Txns |-> 0],
                 result |-> [o \in Ops |-> "none"]]
    /\ down = <<>>
    /\ served = {}
    /\ node \in FirstNodes
    /\ applied = [o \in Ops |-> 0]
    /\ foreign = [count |-> 0, sum |-> 0]
    /\ reads = 0
    /\ breaks = 0
    /\ denials = 0
    /\ overtaken = FALSE

Next ==
    \/ \E w \in Writes : setValue(w)
    \/ \E t \in Txns : startTransaction(t)
    \/ \E q \in Reads : observeSingleEvent(q)
    \/ \E q \in Queries : removeObserver(q)
    \/ tryScheduleReconnect
    \/ onReady
    \/ onDisconnect
    \/ onDataMessage
    \/ ServerStep
    \/ \E d \in {1, -1} : ForeignChange(d)

Spec == Init /\ [][Next]_vars

(***************************************************************************)
(* The SDK retries until it is connected and handles what it receives; the *)
(* server handles what it receives; breaks, and the app's and the other    *)
(* devices' calls, need not happen.                                        *)
(***************************************************************************)
FairSpec ==
    /\ Spec
    /\ WF_vars(tryScheduleReconnect) /\ WF_vars(onReady)
    /\ WF_vars(onDataMessage) /\ WF_vars(ServerStep)
    /\ WF_vars(\E q \in Queries : removeObserver(q))

-----------------------------------------------------------------------------
Answers == {"ok", "denied", "disconnect", "maxretries"}
Puts == [ops: Seq(Ops), hashed: BOOLEAN, hash: Seq(Int), val: Int]

(***************************************************************************)
(* Every variable has its type.                                            *)
(***************************************************************************)
TypeOK ==
    /\ client.state \in {"disconnected", "connecting", "authenticating", "connected"}
    /\ client.listens \subseteq Queries
    /\ client.over \subseteq Reads \cap client.listens
    /\ client.unackedListens \in Nat
    /\ \A i \in DOMAIN client.puts :
        client.puts[i].put \in Puts /\ client.puts[i].sent \in BOOLEAN
    /\ \A i \in DOMAIN client.putsToAck : client.putsToAck[i].put \in Puts
    /\ client.queue \in Seq(Txns)
    /\ IsNode(client.cache)
    /\ client.status \in [Txns -> {"initializing", "run", "sent", "needsabort",
                                   "completed"}]
    /\ client.tries \in [Txns -> 0..MaxTries]
    /\ client.result \in [Ops -> {"none", "pending"} \cup Answers]
    /\ served \subseteq Queries
    /\ IsNode(node)
    /\ applied \in [Ops -> 0..(MaxBreaks + 1)]
    /\ breaks \in 0..MaxBreaks
    /\ denials \in 0..MaxDenials
    /\ reads \in 0..MaxReads

(***************************************************************************)
(* What the app relies on: every call is answered at most once and the     *)
(* truth, a transaction takes effect at most once, whatever breaks, is     *)
(* sent again, retried or cancelled.                                       *)
(***************************************************************************)
Contract == INSTANCE WriteContract WITH result <- client.result
ImplementsContract == Contract!Spec

(***************************************************************************)
(* The counter, as far as transactions and other devices have changed it.  *)
(***************************************************************************)
Counted ==
    foreign.sum + Cardinality({t \in Txns : applied[t] > 0})

(***************************************************************************)
(* runTransactionBlock's promise: "if, when the operation reaches the      *)
(* server, it turns out that this client had stale data, your block will   *)
(* be run again with the latest data": no accepted put of transactions     *)
(* undoes what another device has written.                                 *)
(***************************************************************************)
NothingOverwritten == (IF node = <<>> THEN 0 ELSE node[1]) = Counted

(***************************************************************************)
(* Nothing is overwritten unless what waits in the queue may be sent with  *)
(* a fresh hash and an output that is not.  There are two ways to that:    *)
(* the counter changed, for the client, while an answer to its             *)
(* transactions was held back for a listen, or a read above the counter    *)
(* was answered while they were under way.                                 *)
(***************************************************************************)
OverwrittenOnlyWhenOvertaken ==
    ~overtaken /\ ~client.reread => NothingOverwritten

(***************************************************************************)
(* The answer to call o is held back, and there is no listen whose answer  *)
(* would release it.                                                       *)
(***************************************************************************)
Stranded(o) ==
    /\ \E i \in DOMAIN client.putsToAck : o \in ToSet(client.putsToAck[i].put.ops)
    /\ client.listens = {}
    /\ client.unackedListens = 0

(***************************************************************************)
(* Every call is answered once the connection stops breaking, through      *)
(* reconnects, authentication, stale data and the limit on retries; but    *)
(* for an answer that a break left held back when nothing is listened to:  *)
(* that one waits for the app's next read.                                 *)
(***************************************************************************)
CallsAnswered ==
    \A o \in Ops :
        client.result[o] = "pending" ~>
            (client.result[o] \in Answers \/ Stranded(o))
=============================================================================
