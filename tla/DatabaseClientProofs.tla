------------------------ MODULE DatabaseClientProofs ------------------------
(***************************************************************************)
(* Proofs about DatabaseClient, for any writes, transactions and reads and *)
(* any bounds: that every variable keeps its type, and that the SDK        *)
(* implements WriteContract, what the app relies on when it calls setValue *)
(* and runTransactionBlock.                                                *)
(*                                                                         *)
(* Neither is inductive.  A call is answered at most once because of where *)
(* it is held: in the queue of transactions, in an outstanding put, in an  *)
(* answer held back, and in each of them once.  An answer is the truth     *)
(* because of what is on the wire: a put whose transactions have not taken *)
(* effect, or an answer that tells what has happened to it, never both.  A *)
(* write takes effect once more after a break only if it was still         *)
(* outstanding.                                                            *)
(*                                                                         *)
(* The inductive invariant Inv says this in four parts: Sound (calls,      *)
(* queue, outstanding puts and answers held back), Conn (the wire in each  *)
(* state of the connection, the number of listens that are not answered    *)
(* yet, how often a call has taken effect), Tended (types) and Refusals.   *)
(* Sound and Conn are relations between a client, answers and messages,    *)
(* not between variables, because one step passes on several answers, each *)
(* of which may send what waits in the queue: they are shown to survive    *)
(* one answer, and by induction (AllPassed) all of them.                   *)
(***************************************************************************)
EXTENDS DatabaseClient, FiniteSetTheorems, WellFoundedInduction, TLAPS

(***************************************************************************)
(* Induction over the naturals, with a set in the place of the predicate:  *)
(* the least number outside X would follow one in X.                       *)
(***************************************************************************)
LEMMA NatInduct ==
    ASSUME NEW X, 0 \in X, \A n \in Nat : n \in X => n + 1 \in X
    PROVE  \A n \in Nat : n \in X
<1> SUFFICES ASSUME NEW n \in Nat \ X PROVE FALSE
  OBVIOUS
<1> DEFINE B == Nat \ X
           R == {ss \in Nat \X Nat : ss[1] < ss[2]}
<1>1. IsWellFoundedOn(R, Nat)
  BY NatLessThanWellFounded DEF OpToRel
<1>2. B \subseteq Nat /\ B # {}
  OBVIOUS
<1>3. PICK m \in B : \A k \in B : ~(<<k, m>> \in R)
  <2> HIDE DEF B, R
  <2> QED BY <1>1, <1>2, WFMin
<1>4. m # 0 /\ m - 1 \in Nat
  BY <1>3
<1>5. <<m - 1, m>> \in R
  BY <1>3, <1>4
<1>6. m - 1 \in X
  BY <1>3, <1>4, <1>5
<1> QED BY <1>3, <1>4, <1>6

\* f holds, for every prefix of s, what Only keeps of it.
Keeps(f, s, X, n) ==
    f = [i \in 0..n |-> IF i = 0 THEN <<>>
                        ELSE IF s[i] \in X THEN Append(f[i - 1], s[i]) ELSE f[i - 1]]

(***************************************************************************)
(* There is such a function for every sequence.                            *)
(***************************************************************************)
LEMMA KeepsExists ==
    ASSUME NEW s, NEW X
    PROVE  \A n \in Nat : \E f : Keeps(f, s, X, n)
<1> DEFINE Y == {n \in Nat : \E f : Keeps(f, s, X, n)}
<1>1. 0 \in Y
  <2>1. Keeps([i \in 0..0 |-> <<>>], s, X, 0)
    BY DEF Keeps
  <2> QED BY <2>1
<1>2. ASSUME NEW n \in Y PROVE n + 1 \in Y
  <2>1. PICK f : Keeps(f, s, X, n)
    OBVIOUS
  <2> DEFINE g == [i \in 0..n+1 |-> IF i <= n THEN f[i]
                        ELSE IF s[i] \in X THEN Append(f[n], s[i]) ELSE f[n]]
  <2>2. Keeps(g, s, X, n + 1)
    <3>1. ASSUME NEW i \in 0..n+1
          PROVE  g[i] = IF i = 0 THEN <<>>
                        ELSE IF s[i] \in X THEN Append(g[i - 1], s[i]) ELSE g[i - 1]
      <4>1. CASE i = 0
        BY <2>1, <4>1 DEF Keeps
      <4>2. CASE i \in 1..n
        <5>1. g[i] = f[i] /\ g[i - 1] = f[i - 1] /\ i \in 0..n /\ i # 0
          BY <4>2
        <5>2. f[i] = IF s[i] \in X THEN Append(f[i - 1], s[i]) ELSE f[i - 1]
          BY <2>1, <5>1 DEF Keeps
        <5> QED BY <5>1, <5>2
      <4>3. CASE i = n + 1
        BY <4>3
      <4> QED BY <4>1, <4>2, <4>3
    <3> QED BY <3>1 DEF Keeps
  <2> QED BY <2>2
<1> HIDE DEF Y
<1>3. \A n \in Nat : n \in Y
  BY <1>1, <1>2, NatInduct
<1> QED BY <1>3 DEF Y

(***************************************************************************)
(* Only, which picks what remains of a queue or of the outstanding puts,   *)
(* is the last of these values.                                            *)
(***************************************************************************)
LEMMA OnlyKeeps ==
    ASSUME NEW S, NEW s \in Seq(S), NEW X
    PROVE  \E f : Keeps(f, s, X, Len(s)) /\ Only(s, X) = f[Len(s)]
<1> DEFINE f == CHOOSE f : Keeps(f, s, X, Len(s))
<1>1. Len(s) \in Nat
  OBVIOUS
<1>2. Keeps(f, s, X, Len(s))
  BY <1>1, KeepsExists
<1>3. Only(s, X) = f[Len(s)]
  BY DEF Only, Keeps
<1> QED BY <1>2, <1>3

\* t lists the members of s, up to n, that are in X, in their order.
Embedded(t, s, X, n) ==
    /\ \A i \in 1..Len(t) : \E a \in 1..n : s[a] = t[i] /\ s[a] \in X
    /\ \A a \in 1..n : s[a] \in X => \E i \in 1..Len(t) : t[i] = s[a]
    /\ \A i, j \in 1..Len(t) :
        i < j => \E a, b \in 1..n : a < b /\ s[a] = t[i] /\ s[b] = t[j]

(***************************************************************************)
(* One step of the recursion of Only.                                      *)
(***************************************************************************)
LEMMA KeepsStep ==
    ASSUME NEW S, NEW s \in Seq(S), NEW X, NEW f, Keeps(f, s, X, Len(s)),
           NEW n \in 0..Len(s)
    PROVE  /\ n = 0 => f[n] = <<>>
           /\ n # 0 => f[n] = IF s[n] \in X THEN Append(f[n - 1], s[n]) ELSE f[n - 1]
BY DEF Keeps

(***************************************************************************)
(* Keeping one more element keeps the order.                               *)
(***************************************************************************)
LEMMA AppendEmbeds ==
    ASSUME NEW S, NEW s \in Seq(S), NEW X, NEW t \in Seq(S), NEW n \in Nat,
           n + 1 <= Len(s), Embedded(t, s, X, n), s[n + 1] \in X
    PROVE  Embedded(Append(t, s[n + 1]), s, X, n + 1)
<1> DEFINE u == Append(t, s[n + 1])
<1>1. /\ Len(u) = Len(t) + 1 /\ Len(t) \in Nat
      /\ \A i \in 1..Len(t) : u[i] = t[i]
      /\ u[Len(t) + 1] = s[n + 1]
  OBVIOUS
<1> HIDE DEF u
<1>2. ASSUME NEW i \in 1..Len(u) PROVE \E a \in 1..n+1 : s[a] = u[i] /\ s[a] \in X
  <2>1. CASE i = Len(t) + 1
    BY <1>1, <2>1
  <2>2. CASE i \in 1..Len(t)
    <3>1. PICK a \in 1..n : s[a] = t[i] /\ s[a] \in X
      BY <2>2 DEF Embedded
    <3> QED BY <1>1, <2>2, <3>1
  <2> QED BY <1>1, <2>1, <2>2
<1>3. ASSUME NEW a \in 1..n+1, s[a] \in X PROVE \E i \in 1..Len(u) : u[i] = s[a]
  <2>1. CASE a = n + 1
    BY <1>1, <2>1
  <2>2. CASE a \in 1..n
    <3>1. PICK i \in 1..Len(t) : t[i] = s[a]
      BY <1>3, <2>2 DEF Embedded
    <3> QED BY <1>1, <3>1
  <2> QED BY <2>1, <2>2
<1>4. ASSUME NEW i \in 1..Len(u), NEW j \in 1..Len(u), i < j
      PROVE  \E a, b \in 1..n+1 : a < b /\ s[a] = u[i] /\ s[b] = u[j]
  <2>1. CASE j = Len(t) + 1
    <3>0. i \in 1..Len(t) /\ u[i] = t[i]
      BY <1>1, <1>4, <2>1
    <3>1. PICK a \in 1..n : s[a] = u[i]
      BY <3>0 DEF Embedded
    <3> QED BY <1>1, <2>1, <3>1
  <2>2. CASE j \in 1..Len(t)
    <3>1. i \in 1..Len(t)
      BY <1>1, <1>4, <2>2
    <3>2. PICK a \in 1..n, b \in 1..n : a < b /\ s[a] = t[i] /\ s[b] = t[j]
      BY <1>4, <2>2, <3>1 DEF Embedded
    <3> QED BY <1>1, <2>2, <3>1, <3>2
  <2>3. j \in 1..Len(t) \/ j = Len(t) + 1
    BY <1>1
  <2> QED BY <2>1, <2>2, <2>3
<1> QED BY <1>2, <1>3, <1>4 DEF Embedded, u

(***************************************************************************)
(* What Only keeps of a sequence are the members that are to be kept, in   *)
(* their order.                                                            *)
(***************************************************************************)
LEMMA OnlyEmbedded ==
    ASSUME NEW S, NEW s \in Seq(S), NEW X
    PROVE  Only(s, X) \in Seq(S) /\ Embedded(Only(s, X), s, X, Len(s))
<1>1. PICK f : Keeps(f, s, X, Len(s)) /\ Only(s, X) = f[Len(s)]
  BY OnlyKeeps
<1> DEFINE Y == {n \in Nat : n <= Len(s) => f[n] \in Seq(S) /\ Embedded(f[n], s, X, n)}
<1>2. 0 \in Y
  <2>1. f[0] = <<>>
    BY <1>1, KeepsStep
  <2>2. <<>> \in Seq(S) /\ Embedded(<<>>, s, X, 0)
    BY DEF Embedded
  <2> QED BY <2>1, <2>2
<1>3. ASSUME NEW n \in Nat, n \in Y PROVE n + 1 \in Y
  <2> SUFFICES ASSUME n + 1 <= Len(s)
               PROVE  f[n + 1] \in Seq(S) /\ Embedded(f[n + 1], s, X, n + 1)
    OBVIOUS
  <2>1. f[n] \in Seq(S) /\ Embedded(f[n], s, X, n)
    BY <1>3
  <2>2. f[n + 1] = IF s[n + 1] \in X THEN Append(f[n], s[n + 1]) ELSE f[n]
    BY <1>1, KeepsStep
  <2>3. CASE s[n + 1] \in X
    <3>1. s[n + 1] \in S
      OBVIOUS
    <3>2. Append(f[n], s[n + 1]) \in Seq(S)
      BY <2>1, <3>1
    <3> QED BY <2>1, <2>2, <2>3, <3>2, AppendEmbeds
  <2>4. CASE s[n + 1] \notin X
    BY <2>1, <2>2, <2>4 DEF Embedded
  <2> QED BY <2>3, <2>4
<1> HIDE DEF Y
<1>4. \A n \in Nat : n \in Y
  BY <1>2, <1>3, NatInduct
<1> QED BY <1>1, <1>4 DEF Y

(***************************************************************************)
(* What Append does to each place of a sequence.                           *)
(***************************************************************************)
LEMMA AppendLast ==
    ASSUME NEW S, NEW s \in Seq(S), NEW x \in S
    PROVE  /\ Append(s, x) \in Seq(S)
           /\ Len(Append(s, x)) = Len(s) + 1
           /\ \A i \in 1..Len(s) : Append(s, x)[i] = s[i]
           /\ Append(s, x)[Len(s) + 1] = x
OBVIOUS

\* Of s, exactly what follows the first m is in X.
Splits(s, X, m) ==
    /\ m \in 0..Len(s)
    /\ \A i \in 1..m : s[i] \notin X
    /\ \A i \in m+1..Len(s) : s[i] \in X

\* t is s without the first m.
Suffix(t, s, m) ==
    /\ Len(t) = Len(s) - m
    /\ \A i \in 1..Len(s)-m : t[i] = s[m + i]

(***************************************************************************)
(* If exactly a suffix is to be kept, Only returns the suffix: the         *)
(* transactions that were sent leave the queue, those that waited behind   *)
(* them stay in their order.                                               *)
(***************************************************************************)
LEMMA OnlySuffix ==
    ASSUME NEW S, NEW s \in Seq(S), NEW X, NEW m, Splits(s, X, m)
    PROVE  Only(s, X) \in Seq(S) /\ Suffix(Only(s, X), s, m)
<1> USE DEF Splits, Suffix
<1>1. PICK f : Keeps(f, s, X, Len(s)) /\ Only(s, X) = f[Len(s)]
  BY OnlyKeeps
<1> DEFINE P(n) == IF n <= m THEN f[n] = <<>>
                   ELSE /\ f[n] \in Seq(S) /\ Len(f[n]) = n - m
                        /\ \A i \in 1..n-m : f[n][i] = s[m + i]
           Y == {n \in Nat : n <= Len(s) => P(n)}
<1>2. 0 \in Y
  BY <1>1, KeepsStep
<1>3. ASSUME NEW n \in Nat, n \in Y PROVE n + 1 \in Y
  <2> SUFFICES ASSUME n + 1 <= Len(s) PROVE P(n + 1)
    OBVIOUS
  <2>1. P(n)
    BY <1>3
  <2>2. f[n + 1] = IF s[n + 1] \in X THEN Append(f[n], s[n + 1]) ELSE f[n]
    BY <1>1, KeepsStep
  <2>3. CASE n + 1 <= m
    BY <2>1, <2>2, <2>3
  <2>4. CASE n + 1 > m
    <3>1. s[n + 1] \in X /\ s[n + 1] \in S
      BY <2>4
    <3>2. f[n] \in Seq(S) /\ Len(f[n]) = n - m /\ \A i \in 1..n-m : f[n][i] = s[m + i]
      <4>1. CASE n = m
        <5>1. f[n] = <<>> /\ n - m = 0
          BY <2>1, <4>1
        <5>2. <<>> \in Seq(S) /\ Len(<<>>) = 0
          OBVIOUS
        <5> QED BY <5>1, <5>2
      <4>2. CASE n > m
        <5>1. ~(n <= m)
          BY <4>2
        <5> QED BY <2>1, <5>1
      <4> QED BY <2>4, <4>1, <4>2
    <3>3. f[n + 1] = Append(f[n], s[n + 1])
      BY <2>2, <3>1
    <3>4. f[n + 1] \in Seq(S) /\ Len(f[n + 1]) = n + 1 - m
      <4>1. f[n + 1] \in Seq(S) /\ Len(f[n + 1]) = Len(f[n]) + 1
        BY <3>1, <3>2, <3>3, AppendLast
      <4> QED BY <3>2, <4>1
    <3>5. ASSUME NEW i \in 1..n+1-m PROVE f[n + 1][i] = s[m + i]
      <4>1. CASE i \in 1..n-m
        BY <3>1, <3>2, <3>3, <4>1
      <4>2. CASE i = n + 1 - m
        BY <3>1, <3>2, <3>3, <4>2
      <4> QED BY <4>1, <4>2
    <3>6. ~(n + 1 <= m)
      BY <2>4
    <3> QED BY <3>4, <3>5, <3>6
  <2> QED BY <2>3, <2>4
<1> HIDE DEF Y
<1>4. \A n \in Nat : n \in Y
  BY <1>2, <1>3, NatInduct
<1>5. P(Len(s))
  BY <1>4 DEF Y
<1>6. CASE m = Len(s)
  <2>1. f[Len(s)] = <<>> /\ Len(s) - m = 0
    BY <1>5, <1>6
  <2>2. <<>> \in Seq(S) /\ Len(<<>>) = 0
    OBVIOUS
  <2> QED BY <1>1, <2>1, <2>2
<1>7. CASE m < Len(s)
  <2>1. ~(Len(s) <= m)
    BY <1>7
  <2> QED BY <1>1, <1>5, <2>1
<1> QED BY <1>6, <1>7

\* f holds, for every prefix of the answers a, the client after them.
Chain(f, c, a, n) ==
    f = [i \in 0..n |-> IF i = 0 THEN c
                        ELSE putAnswered(f[i - 1], a[i].put, a[i].status)]

(***************************************************************************)
(* There is such a function for every sequence of answers.                 *)
(***************************************************************************)
LEMMA ChainExists ==
    ASSUME NEW c, NEW a
    PROVE  \A n \in Nat : \E f : Chain(f, c, a, n)
<1> DEFINE Y == {n \in Nat : \E f : Chain(f, c, a, n)}
<1>1. 0 \in Y
  <2>1. Chain([i \in 0..0 |-> c], c, a, 0)
    BY DEF Chain
  <2> QED BY <2>1
<1>2. ASSUME NEW n \in Y PROVE n + 1 \in Y
  <2>1. PICK f : Chain(f, c, a, n)
    OBVIOUS
  <2> DEFINE g == [i \in 0..n+1 |-> IF i <= n THEN f[i]
                                    ELSE putAnswered(f[n], a[i].put, a[i].status)]
  <2>2. Chain(g, c, a, n + 1)
    <3>1. ASSUME NEW i \in 0..n+1
          PROVE  g[i] = IF i = 0 THEN c
                        ELSE putAnswered(g[i - 1], a[i].put, a[i].status)
      <4>1. CASE i = 0
        BY <2>1, <4>1 DEF Chain
      <4>2. CASE i \in 1..n
        <5>1. g[i] = f[i] /\ g[i - 1] = f[i - 1] /\ i \in 0..n /\ i # 0
          BY <4>2
        <5>2. f[i] = putAnswered(f[i - 1], a[i].put, a[i].status)
          BY <2>1, <5>1 DEF Chain
        <5> QED BY <5>1, <5>2
      <4>3. CASE i = n + 1
        BY <4>3
      <4> QED BY <4>1, <4>2, <4>3
    <3> QED BY <3>1 DEF Chain
  <2> QED BY <2>2
<1> HIDE DEF Y
<1>3. \A n \in Nat : n \in Y
  BY <1>1, <1>2, NatInduct
<1> QED BY <1>3 DEF Y

(***************************************************************************)
(* AllAnswered, the loop of ackPuts and of cancelSentTransactions over the *)
(* answers, is the last of these values.                                   *)
(***************************************************************************)
LEMMA AllAnsweredChain ==
    ASSUME NEW c, NEW a, Len(a) \in Nat
    PROVE  \E f : Chain(f, c, a, Len(a)) /\ AllAnswered(c, a) = f[Len(a)]
<1> DEFINE f == CHOOSE f : Chain(f, c, a, Len(a))
<1>2. Chain(f, c, a, Len(a))
  BY ChainExists
<1>3. AllAnswered(c, a) = f[Len(a)]
  BY DEF AllAnswered, Chain
<1> QED BY <1>2, <1>3

(***************************************************************************)
(* One step of that loop.                                                  *)
(***************************************************************************)
LEMMA ChainStep ==
    ASSUME NEW c, NEW a, Len(a) \in Nat, NEW f, Chain(f, c, a, Len(a))
    PROVE  /\ f[0] = c
           /\ \A n \in 1..Len(a) : f[n] = putAnswered(f[n - 1], a[n].put, a[n].status)
<1>1. 0 \in 0..Len(a)
  OBVIOUS
<1>2. ASSUME NEW n \in 1..Len(a)
      PROVE f[n] = putAnswered(f[n - 1], a[n].put, a[n].status)
  <2>1. n \in 0..Len(a) /\ n # 0
    OBVIOUS
  <2> QED BY <2>1 DEF Chain
<1> QED BY <1>1, <1>2 DEF Chain

-----------------------------------------------------------------------------
\* The types of the client, as one set of records.
States == {"disconnected", "connecting", "authenticating", "connected"}
TxnStates == {"initializing", "run", "sent", "needsabort", "completed"}
Replies == {"ok", "denied", "datastale"}

\* The counter's node: missing, or with a value.
Nodes == {n \in Seq(Int) : Len(n) <= 1}
Outstanding == [put: Puts, sent: BOOLEAN]
Acks == [put: Puts, status: Replies]
UpMessages == [kind: {"auth"}] \cup [kind: {"listen", "unlisten"}, query: Queries]
                  \cup [kind: {"put"}, put: Puts]
DownMessages == [kind: {"data"}, query: Queries, node: Nodes]
                  \cup [kind: {"reply"}, to: UpMessages, status: Replies]

\* What the SDK's state ranges over.
Clients ==
    [state: States, listens: SUBSET Queries, unackedListens: Int,
     over: SUBSET Reads, puts: Seq(Outstanding), putsToAck: Seq(Acks),
     up: Seq(UpMessages), queue: Seq(Txns), cache: Nodes, reread: BOOLEAN,
     status: [Txns -> TxnStates], abort: [Txns -> {"none"} \cup Answers],
     tries: [Txns -> Nat], output: [Txns -> Int],
     result: [Ops -> {"none", "pending"} \cup Answers]]

\* The step from c to d leaves the connection and what is listened to alone.
SameConn(c, d) ==
    /\ d.state = c.state /\ d.listens = c.listens /\ d.over = c.over
    /\ d.unackedListens = c.unackedListens /\ d.cache = c.cache
    /\ d.putsToAck = c.putsToAck /\ d.reread = c.reread

\* The put that sendTransactionQueue makes of the whole queue.
QueuePut(c) == [ops |-> c.queue, hashed |-> TRUE, hash |-> c.cache,
                val |-> c.output[Last(c.queue)]]

\* Put p goes out with the step from c to d: it is outstanding, and on the
\* wire if there is a connection.
GoesOut(c, d, p) ==
    /\ d.puts = Append(c.puts, [put |-> p, sent |-> c.state = "connected"])
    /\ d.up = IF c.state = "connected" THEN Append(c.up, PutMessage(p)) ELSE c.up

(***************************************************************************)
(* The put of a queue is a put.                                            *)
(***************************************************************************)
LEMMA QueuePutType ==
    ASSUME NEW c \in Clients, c.queue # <<>> PROVE QueuePut(c) \in Puts
<1>1. c.queue \in Seq(Txns) /\ c.output \in [Txns -> Int] /\ c.cache \in Nodes
  BY DEF Clients
<1>2. Last(c.queue) \in Txns
  BY <1>1 DEF Last
<1>3. c.queue \in Seq(Ops)
  BY <1>1 DEF Ops
<1> QED BY <1>1, <1>2, <1>3 DEF QueuePut, Puts, Nodes

(***************************************************************************)
(* What putInternal changes: the outstanding puts and the wire, nothing    *)
(* else.                                                                   *)
(***************************************************************************)
LEMMA PutInternal ==
    ASSUME NEW c \in Clients, NEW p \in Puts
    PROVE  /\ putInternal(c, p) \in Clients
           /\ SameConn(c, putInternal(c, p))
           /\ GoesOut(c, putInternal(c, p), p)
           /\ putInternal(c, p).queue = c.queue
           /\ putInternal(c, p).status = c.status
           /\ putInternal(c, p).abort = c.abort
           /\ putInternal(c, p).tries = c.tries
           /\ putInternal(c, p).output = c.output
           /\ putInternal(c, p).result = c.result
<1>1. PutMessage(p) \in UpMessages
  BY DEF PutMessage, UpMessages
<1>2. [put |-> p, sent |-> c.state = "connected"] \in Outstanding
  BY DEF Outstanding
<1>3. /\ c.puts \in Seq(Outstanding) /\ c.up \in Seq(UpMessages)
  BY DEF Clients
<1>4. /\ Append(c.puts, [put |-> p, sent |-> c.state = "connected"]) \in Seq(Outstanding)
      /\ Append(c.up, PutMessage(p)) \in Seq(UpMessages)
  BY <1>1, <1>2, <1>3
<1>5. CASE c.state = "connected"
  BY <1>4, <1>5 DEF putInternal, canSendWrites, Send, Clients, SameConn, GoesOut
<1>6. CASE c.state # "connected"
  BY <1>4, <1>6 DEF putInternal, canSendWrites, Send, Clients, SameConn, GoesOut
<1> QED BY <1>5, <1>6

(***************************************************************************)
(* What sendTransactionQueue changes: the whole queue is marked as sent,   *)
(* tried once more, and goes out as one put.                               *)
(***************************************************************************)
LEMMA SendQueue ==
    ASSUME NEW c \in Clients, c.queue # <<>>, NEW d, d = sendTransactionQueue(c)
    PROVE  /\ d \in Clients
           /\ SameConn(c, d)
           /\ GoesOut(c, d, QueuePut(c))
           /\ d.queue = c.queue /\ d.abort = c.abort
           /\ d.output = c.output /\ d.result = c.result
           /\ \A t \in Txns : d.status[t] = IF t \in ToSet(c.queue) THEN "sent" ELSE c.status[t]
           /\ \A t \in Txns : d.tries[t] = IF t \in ToSet(c.queue) THEN c.tries[t] + 1 ELSE c.tries[t]
<1> DEFINE status == [t \in Txns |-> IF t \in ToSet(c.queue) THEN "sent" ELSE c.status[t]]
           tries == [t \in Txns |-> c.tries[t] + IF t \in ToSet(c.queue) THEN 1 ELSE 0]
           e == [c EXCEPT !.status = status, !.tries = tries]
<1>1. status \in [Txns -> TxnStates] /\ tries \in [Txns -> Nat]
  BY DEF Clients, TxnStates
<1>2. /\ e \in Clients /\ SameConn(c, e)
      /\ e.puts = c.puts /\ e.up = c.up /\ e.queue = c.queue /\ e.abort = c.abort
      /\ e.output = c.output /\ e.result = c.result
      /\ e.status = status /\ e.tries = tries
  <2> HIDE DEF status, tries
  <2> QED BY <1>1 DEF Clients, SameConn
<1>3. d = putInternal(e, QueuePut(c))
  BY DEF sendTransactionQueue, QueuePut, Clients
<1>4. QueuePut(c) \in Puts
  BY QueuePutType
<1> HIDE DEF e
<1>5. /\ d \in Clients /\ SameConn(e, d) /\ GoesOut(e, d, QueuePut(c))
      /\ d.queue = e.queue /\ d.status = e.status /\ d.abort = e.abort
      /\ d.tries = e.tries /\ d.output = e.output /\ d.result = e.result
  BY <1>2, <1>3, <1>4, PutInternal
<1>6. SameConn(c, d) /\ GoesOut(c, d, QueuePut(c))
  BY <1>2, <1>5 DEF SameConn, GoesOut
<1>7. d.status = status /\ d.tries = tries
  BY <1>2, <1>5
<1>8. ASSUME NEW t \in Txns
      PROVE  /\ d.status[t] = IF t \in ToSet(c.queue) THEN "sent" ELSE c.status[t]
             /\ d.tries[t] = IF t \in ToSet(c.queue) THEN c.tries[t] + 1 ELSE c.tries[t]
  <2>1. c.tries[t] \in Nat
    BY DEF Clients
  <2> QED BY <1>7, <2>1
<1> QED BY <1>2, <1>5, <1>6, <1>8

(***************************************************************************)
(* What Finish changes: the transactions in S leave the queue, completed,  *)
(* and their calls are answered.                                           *)
(***************************************************************************)
LEMMA FinishFields ==
    ASSUME NEW c \in Clients, NEW S \in SUBSET Txns, NEW answer \in [S -> Answers],
           NEW d, d = Finish(c, S, answer)
    PROVE  /\ d \in Clients /\ SameConn(c, d)
           /\ d.puts = c.puts /\ d.up = c.up /\ d.abort = c.abort
           /\ d.tries = c.tries /\ d.output = c.output
           /\ d.queue = Only(c.queue, Txns \ S)
           /\ \A t \in Txns : d.status[t] = IF t \in S THEN "completed" ELSE c.status[t]
           /\ \A o \in Ops : d.result[o] = IF o \in S THEN answer[o] ELSE c.result[o]
<1> DEFINE status == [t \in Txns |-> IF t \in S THEN "completed" ELSE c.status[t]]
           result == [o \in Ops |-> IF o \in S THEN answer[o] ELSE c.result[o]]
           queue == Only(c.queue, Txns \ S)
<1>1. status \in [Txns -> TxnStates]
  BY DEF Clients, TxnStates
<1>2. result \in [Ops -> {"none", "pending"} \cup Answers]
  BY DEF Clients, Ops
<1>3. queue \in Seq(Txns)
  <2>1. c.queue \in Seq(Txns)
    BY DEF Clients
  <2> QED BY <2>1, OnlyEmbedded
<1>4. d = [c EXCEPT !.queue = queue, !.status = status, !.result = result]
  BY DEF Finish, Clients
<1>5. d.status = status /\ d.result = result
  <2> HIDE DEF status, result, queue
  <2> QED BY <1>4 DEF Clients
<1>6. /\ d \in Clients /\ SameConn(c, d)
      /\ d.puts = c.puts /\ d.up = c.up /\ d.abort = c.abort
      /\ d.tries = c.tries /\ d.output = c.output
      /\ d.queue = queue
  <2> HIDE DEF status, result, queue
  <2> QED BY <1>1, <1>2, <1>3, <1>4 DEF Clients, SameConn
<1> QED BY <1>5, <1>6

\* The counter's value, a missing node counting as zero.
Val(n) == IF n = <<>> THEN 0 ELSE n[1]

\* No element twice.
Injective(s) == \A i, j \in 1..Len(s) : s[i] = s[j] => i = j

(***************************************************************************)
(* Only depends on which of the members of s are in X.                     *)
(***************************************************************************)
LEMMA OnlySame ==
    ASSUME NEW S, NEW s \in Seq(S), NEW X, NEW Y,
           \A i \in 1..Len(s) : s[i] \in X <=> s[i] \in Y
    PROVE  Only(s, X) = Only(s, Y)
<1>1. PICK f : Keeps(f, s, X, Len(s)) /\ Only(s, X) = f[Len(s)]
  BY OnlyKeeps
<1>2. PICK g : Keeps(g, s, Y, Len(s)) /\ Only(s, Y) = g[Len(s)]
  BY OnlyKeeps
<1> DEFINE Z == {n \in Nat : n <= Len(s) => f[n] = g[n]}
<1>3. 0 \in Z
  BY <1>1, <1>2, KeepsStep
<1>4. ASSUME NEW n \in Nat, n \in Z PROVE n + 1 \in Z
  <2> SUFFICES ASSUME n + 1 <= Len(s) PROVE f[n + 1] = g[n + 1]
    OBVIOUS
  <2>1. f[n] = g[n]
    BY <1>4
  <2>2. f[n + 1] = IF s[n + 1] \in X THEN Append(f[n], s[n + 1]) ELSE f[n]
    BY <1>1, KeepsStep
  <2>3. g[n + 1] = IF s[n + 1] \in Y THEN Append(g[n], s[n + 1]) ELSE g[n]
    BY <1>2, KeepsStep
  <2> QED BY <2>1, <2>2, <2>3
<1> HIDE DEF Z
<1>5. \A n \in Nat : n \in Z
  BY <1>3, <1>4, NatInduct
<1> QED BY <1>1, <1>2, <1>5 DEF Z

(***************************************************************************)
(* If everything is to be kept, Only changes nothing.                      *)
(***************************************************************************)
LEMMA OnlyAll ==
    ASSUME NEW S, NEW s \in Seq(S), NEW X, \A i \in 1..Len(s) : s[i] \in X
    PROVE  Only(s, X) = s
<1>0. Splits(s, X, 0)
  BY DEF Splits
<1>1. Only(s, X) \in Seq(S) /\ Suffix(Only(s, X), s, 0)
  BY <1>0, OnlySuffix
<1>2. Len(Only(s, X)) = Len(s) /\ \A i \in 1..Len(s) : Only(s, X)[i] = s[i]
  BY <1>1 DEF Suffix
<1> QED BY <1>1, <1>2

(***************************************************************************)
(* The elements that Only returns, each at most as often as before.        *)
(***************************************************************************)
LEMMA OnlySet ==
    ASSUME NEW S, NEW s \in Seq(S), NEW X
    PROVE  /\ Only(s, X) \in Seq(S)
           /\ ToSet(Only(s, X)) = ToSet(s) \cap X
           /\ Injective(s) => Injective(Only(s, X))
<1> DEFINE t == Only(s, X)
<1>1. t \in Seq(S) /\ Embedded(t, s, X, Len(s))
  BY OnlyEmbedded
<1> HIDE DEF t
<1>2. ToSet(t) = ToSet(s) \cap X
  <2>1. ASSUME NEW x \in ToSet(t) PROVE x \in ToSet(s) \cap X
    <3>1. PICK i \in 1..Len(t) : t[i] = x
      BY <1>1 DEF ToSet
    <3>2. PICK a \in 1..Len(s) : s[a] = t[i] /\ s[a] \in X
      BY <1>1, <3>1 DEF Embedded
    <3> QED BY <3>1, <3>2 DEF ToSet
  <2>2. ASSUME NEW x \in ToSet(s) \cap X PROVE x \in ToSet(t)
    <3>1. PICK a \in 1..Len(s) : s[a] = x
      BY DEF ToSet
    <3>2. PICK i \in 1..Len(t) : t[i] = s[a]
      BY <1>1, <3>1 DEF Embedded
    <3> QED BY <1>1, <3>1, <3>2 DEF ToSet
  <2> QED BY <2>1, <2>2
<1>3. ASSUME Injective(s) PROVE Injective(t)
  <2>1. ASSUME NEW i \in 1..Len(t), NEW j \in 1..Len(t), i < j PROVE t[i] # t[j]
    <3>1. PICK a \in 1..Len(s), b \in 1..Len(s) : a < b /\ s[a] = t[i] /\ s[b] = t[j]
      BY <1>1, <2>1 DEF Embedded
    <3> QED BY <1>3, <3>1 DEF Injective
  <2>2. ASSUME NEW i \in 1..Len(t), NEW j \in 1..Len(t), t[i] = t[j] PROVE i = j
    BY <1>1, <2>1, <2>2
  <2> QED BY <2>2 DEF Injective
<1> QED BY <1>1, <1>2, <1>3 DEF t

\* The transactions that rerunTransactionQueue gives up: aborted ones, and
\* those that have been tried too often.
Overdue(c) == {t \in ToSet(c.queue) : \/ c.status[t] = "needsabort"
                                      \/ c.status[t] = "run" /\ c.tries[t] >= MaxTries}

\* What it answers to each of them.
Verdict(c) == [t \in Overdue(c) |-> IF c.status[t] = "needsabort" THEN c.abort[t]
                                    ELSE "maxretries"]

\* Those whose block it runs again.
RunAgain(c) == Only(c.queue, {t \in Txns \ Overdue(c) : c.status[t] = "run"})

\* The client once it has run these blocks.
Rerun(c) == [c EXCEPT !.output = [t \in Txns |->
                IF t \in ToSet(RunAgain(c))
                THEN Block(c.cache) - 1 + CHOOSE i \in DOMAIN RunAgain(c) : RunAgain(c)[i] = t
                ELSE c.output[t]]]

(***************************************************************************)
(* rerunTransactionQueue, cut into these pieces.                           *)
(***************************************************************************)
LEMMA RerunIs ==
    ASSUME NEW c \in Clients
    PROVE  rerunTransactionQueue(c) =
                sendAllReadyTransactions(Finish(Rerun(c), Overdue(c), Verdict(c)))
BY DEF rerunTransactionQueue, Rerun, Overdue, Verdict, RunAgain, Clients

(***************************************************************************)
(* The app's block adds one to the value it is given.                      *)
(***************************************************************************)
LEMMA BlockInt ==
    ASSUME NEW n \in Nodes PROVE Block(n) = Val(n) + 1 /\ Val(n) \in Int
<1>1. CASE n = <<>>
  BY <1>1 DEF Block, Val
<1>2. CASE n # <<>>
  <2>1. Len(n) \in Nat /\ n \in Seq(Int) /\ 1 \in 1..Len(n)
    BY <1>2 DEF Nodes
  <2>2. n[1] \in Int
    BY <2>1
  <2> QED BY <1>2, <2>2 DEF Block, Val
<1> QED BY <1>1, <1>2

(***************************************************************************)
(* What running the blocks again changes: the i-th gets the value of the   *)
(* cache plus i.                                                           *)
(***************************************************************************)
LEMMA RerunFields ==
    ASSUME NEW c \in Clients, NEW e, e = Rerun(c)
    PROVE  /\ e \in Clients /\ SameConn(c, e)
           /\ e.puts = c.puts /\ e.up = c.up /\ e.abort = c.abort /\ e.tries = c.tries
           /\ e.queue = c.queue /\ e.status = c.status /\ e.result = c.result
           /\ \A i \in 1..Len(RunAgain(c)) : Injective(RunAgain(c)) =>
                e.output[RunAgain(c)[i]] = Val(c.cache) + i
           /\ \A t \in Txns : t \notin ToSet(RunAgain(c)) => e.output[t] = c.output[t]
<1> DEFINE a == RunAgain(c)
           pos(t) == CHOOSE i \in DOMAIN a : a[i] = t
           out == [t \in Txns |-> IF t \in ToSet(a) THEN Block(c.cache) - 1 + pos(t)
                                  ELSE c.output[t]]
<1>0. /\ c.queue \in Seq(Txns) /\ c.cache \in Nodes /\ c.output \in [Txns -> Int]
  BY DEF Clients
<1>1. a \in Seq(Txns) /\ ToSet(a) \subseteq Txns
  <2>1. a \in Seq(Txns)
    BY <1>0, OnlySet DEF RunAgain
  <2> QED BY <2>1 DEF ToSet
<1>2. Block(c.cache) = Val(c.cache) + 1 /\ Val(c.cache) \in Int
  BY <1>0, BlockInt
<1>3. ASSUME NEW t \in ToSet(a) PROVE pos(t) \in 1..Len(a) /\ a[pos(t)] = t
  <2>1. DOMAIN a = 1..Len(a) /\ \E i \in DOMAIN a : a[i] = t
    BY <1>1 DEF ToSet
  <2> QED BY <2>1
<1> HIDE DEF pos, a
<1>4. out \in [Txns -> Int]
  BY <1>0, <1>1, <1>2, <1>3
<1>5. e = [c EXCEPT !.output = out]
  BY DEF Rerun, a, pos
<1>6. /\ e \in Clients /\ SameConn(c, e)
      /\ e.puts = c.puts /\ e.up = c.up /\ e.abort = c.abort /\ e.tries = c.tries
      /\ e.queue = c.queue /\ e.status = c.status /\ e.result = c.result
      /\ e.output = out
  <2> HIDE DEF out
  <2> QED BY <1>4, <1>5 DEF Clients, SameConn
<1>7. ASSUME NEW i \in 1..Len(a), Injective(a) PROVE e.output[a[i]] = Val(c.cache) + i
  <2>1. a[i] \in ToSet(a) /\ a[i] \in Txns
    BY <1>1 DEF ToSet
  <2>2. pos(a[i]) = i
    BY <1>3, <1>7, <2>1 DEF Injective
  <2> QED BY <1>2, <1>6, <2>1, <2>2
<1>8. ASSUME NEW t \in Txns, t \notin ToSet(a) PROVE e.output[t] = c.output[t]
  BY <1>6, <1>8
<1> QED BY <1>6, <1>7, <1>8 DEF a

(***************************************************************************)
(* What sendAllReadyTransactions changes if nothing of the queue has been  *)
(* sent: the whole queue goes out, if there is one.                        *)
(***************************************************************************)
LEMMA SendReady ==
    ASSUME NEW c \in Clients, NEW d, d = sendAllReadyTransactions(c),
           \A t \in ToSet(c.queue) : c.status[t] = "run"
    PROVE  /\ d \in Clients /\ SameConn(c, d) /\ QueuePut(d) = QueuePut(c)
           /\ d.queue = c.queue /\ d.abort = c.abort
           /\ d.output = c.output /\ d.result = c.result
           /\ \A t \in Txns : d.status[t] = IF t \in ToSet(c.queue) THEN "sent" ELSE c.status[t]
           /\ \A t \in Txns : d.tries[t] = IF t \in ToSet(c.queue) THEN c.tries[t] + 1 ELSE c.tries[t]
           /\ d.queue = <<>> => d.puts = c.puts /\ d.up = c.up
           /\ d.queue # <<>> => GoesOut(c, d, QueuePut(d))
<1>1. CASE c.queue = <<>>
  <2>1. d = c
    BY <1>1 DEF sendAllReadyTransactions
  <2>2. ToSet(c.queue) = {}
    BY <1>1 DEF ToSet
  <2> QED BY <1>1, <2>1, <2>2 DEF SameConn, QueuePut
<1>2. CASE c.queue # <<>>
  <2>1. d = sendTransactionQueue(c)
    BY <1>2 DEF sendAllReadyTransactions
  <2>2. /\ d \in Clients
        /\ SameConn(c, d)
        /\ GoesOut(c, d, QueuePut(c))
        /\ d.queue = c.queue /\ d.abort = c.abort
        /\ d.output = c.output /\ d.result = c.result
        /\ \A t \in Txns : d.status[t] = IF t \in ToSet(c.queue) THEN "sent" ELSE c.status[t]
        /\ \A t \in Txns : d.tries[t] = IF t \in ToSet(c.queue) THEN c.tries[t] + 1 ELSE c.tries[t]
    BY <1>2, <2>1, SendQueue
  <2>3. QueuePut(d) = QueuePut(c)
    BY <2>2 DEF QueuePut, SameConn
  <2> QED BY <1>2, <2>2, <2>3
<1> QED BY <1>1, <1>2

\* Nothing of the queue is overdue, and its head is on its way.
HeadOut(c) == Overdue(c) = {} /\ (c.queue # <<>> => c.status[c.queue[1]] = "sent")

(***************************************************************************)
(* rerunTransactionQueue while the head of the queue is on its way and     *)
(* nothing is overdue: the blocks of those that wait run again, and        *)
(* nothing else changes.                                                   *)
(***************************************************************************)
LEMMA RerunWaits ==
    ASSUME NEW c \in Clients, NEW d, d = rerunTransactionQueue(c), HeadOut(c)
    PROVE  /\ d \in Clients /\ SameConn(c, d)
           /\ d.puts = c.puts /\ d.up = c.up /\ d.queue = c.queue /\ d.abort = c.abort
           /\ \A t \in Txns : d.status[t] = c.status[t] /\ d.tries[t] = c.tries[t]
           /\ \A t \in Txns : t \notin ToSet(c.queue) \/ c.status[t] # "run" =>
                d.output[t] = c.output[t]
           /\ \A o \in Ops : d.result[o] = c.result[o]
<1> DEFINE e == Rerun(c)
           f == Finish(e, Overdue(c), Verdict(c))
<1>1. c.queue \in Seq(Txns)
  BY DEF Clients
<1>2. Overdue(c) = {}
  BY DEF HeadOut
<1>3. ToSet(RunAgain(c)) \subseteq {t \in ToSet(c.queue) : c.status[t] = "run"}
  <2>1. ToSet(RunAgain(c)) = ToSet(c.queue) \cap {t \in Txns \ Overdue(c) : c.status[t] = "run"}
    BY <1>1, OnlySet DEF RunAgain
  <2> QED BY <2>1
<1>4. /\ e \in Clients /\ SameConn(c, e)
      /\ e.puts = c.puts /\ e.up = c.up /\ e.abort = c.abort /\ e.tries = c.tries
      /\ e.queue = c.queue /\ e.status = c.status /\ e.result = c.result
      /\ \A t \in Txns : t \notin ToSet(c.queue) \/ c.status[t] # "run" =>
            e.output[t] = c.output[t]
  <2>1. /\ e \in Clients /\ SameConn(c, e)
        /\ e.puts = c.puts /\ e.up = c.up /\ e.abort = c.abort /\ e.tries = c.tries
        /\ e.queue = c.queue /\ e.status = c.status /\ e.result = c.result
        /\ \A t \in Txns : t \notin ToSet(RunAgain(c)) => e.output[t] = c.output[t]
    BY RerunFields
  <2> QED BY <1>3, <2>1
<1> HIDE DEF e
<1>5. /\ f \in Clients /\ SameConn(e, f)
      /\ f.puts = e.puts /\ f.up = e.up /\ f.abort = e.abort
      /\ f.tries = e.tries /\ f.output = e.output
      /\ f.queue = Only(e.queue, Txns \ {})
      /\ \A t \in Txns : f.status[t] = e.status[t]
      /\ \A o \in Ops : f.result[o] = e.result[o]
  <2>1. Overdue(c) \in SUBSET Txns /\ Verdict(c) \in [Overdue(c) -> Answers]
    BY <1>2 DEF Verdict
  <2>2. f = Finish(e, Overdue(c), Verdict(c))
    OBVIOUS
  <2> HIDE DEF f
  <2>3. /\ f \in Clients /\ SameConn(e, f)
        /\ f.puts = e.puts /\ f.up = e.up /\ f.abort = e.abort
        /\ f.tries = e.tries /\ f.output = e.output
        /\ f.queue = Only(e.queue, Txns \ Overdue(c))
        /\ \A t \in Txns : f.status[t] = IF t \in Overdue(c) THEN "completed" ELSE e.status[t]
        /\ \A o \in Ops : f.result[o] = IF o \in Overdue(c) THEN Verdict(c)[o] ELSE e.result[o]
    <3>1. e \in Clients /\ Overdue(c) \in SUBSET Txns
      BY <1>4, <2>1
    <3> QED BY <2>1, <2>2, <3>1, FinishFields
  <2> QED BY <1>2, <2>3
<1>6. f.queue = c.queue
  <2>1. \A i \in 1..Len(c.queue) : c.queue[i] \in Txns \ {}
    BY <1>1
  <2> QED BY <1>1, <1>4, <1>5, <2>1, OnlyAll
<1> HIDE DEF f
<1>7. d = sendAllReadyTransactions(f)
  BY RerunIs DEF f, e
<1>8. d = f
  <2>1. CASE c.queue = <<>>
    BY <1>6, <1>7, <2>1 DEF sendAllReadyTransactions
  <2>2. CASE c.queue # <<>>
    <3>1. c.queue[1] \in ToSet(c.queue) /\ c.queue[1] \in Txns
      BY <1>1, <2>2 DEF ToSet
    <3>2. f.status[c.queue[1]] = "sent"
      BY <1>4, <1>5, <2>2, <3>1 DEF HeadOut
    <3> QED BY <1>6, <1>7, <3>1, <3>2 DEF sendAllReadyTransactions
  <2> QED BY <2>1, <2>2
<1>9. SameConn(c, f)
  BY <1>4, <1>5 DEF SameConn
<1> QED BY <1>4, <1>5, <1>6, <1>8, <1>9

(***************************************************************************)
(* It changes nothing while the whole queue is on its way.                 *)
(***************************************************************************)
LEMMA RerunIdle ==
    ASSUME NEW c \in Clients, NEW d, d = rerunTransactionQueue(c),
           \A t \in ToSet(c.queue) : c.status[t] = "sent"
    PROVE  /\ d \in Clients /\ SameConn(c, d)
           /\ d.puts = c.puts /\ d.up = c.up /\ d.queue = c.queue
           /\ \A t \in Txns : /\ d.status[t] = c.status[t] /\ d.tries[t] = c.tries[t]
                              /\ d.output[t] = c.output[t]
           /\ \A o \in Ops : d.result[o] = c.result[o]
<1>1. Overdue(c) = {}
  BY DEF Overdue
<1>2. HeadOut(c)
  <2>1. c.queue # <<>> => c.queue[1] \in ToSet(c.queue)
    BY DEF Clients, ToSet
  <2> QED BY <1>1, <2>1 DEF HeadOut
<1>3. \A t \in Txns : t \notin ToSet(c.queue) \/ c.status[t] # "run"
  OBVIOUS
<1> QED BY <1>2, <1>3, RerunWaits

(***************************************************************************)
(* What rerunTransactionQueue changes if nothing of the queue is on its    *)
(* way: what is overdue is given up and answered, the rest goes out with   *)
(* the value of the cache plus their number.                               *)
(***************************************************************************)
LEMMA RerunAll ==
    ASSUME NEW c \in Clients, NEW d, d = rerunTransactionQueue(c), Injective(c.queue),
           \A t \in ToSet(c.queue) :
                \/ c.status[t] = "run"
                \/ c.status[t] = "needsabort" /\ c.abort[t] \in Answers
    PROVE  /\ d \in Clients /\ SameConn(c, d)
           /\ d.queue \in Seq(Txns) /\ Injective(d.queue)
           /\ ToSet(d.queue) = ToSet(c.queue) \ Overdue(c)
           /\ \A t \in Txns : d.status[t] = IF t \in ToSet(d.queue) THEN "sent"
                                            ELSE IF t \in Overdue(c) THEN "completed"
                                            ELSE c.status[t]
           /\ \A t \in Txns : d.tries[t] = IF t \in ToSet(d.queue) THEN c.tries[t] + 1
                                           ELSE c.tries[t]
           /\ \A o \in Ops : d.result[o] = IF o \in Overdue(c) THEN Verdict(c)[o]
                                           ELSE c.result[o]
           /\ d.queue = <<>> => d.puts = c.puts /\ d.up = c.up
           /\ d.queue # <<>> => /\ GoesOut(c, d, QueuePut(d))
                                /\ QueuePut(d).val = Val(c.cache) + Len(d.queue)
<1> DEFINE e == Rerun(c)
           f == Finish(e, Overdue(c), Verdict(c))
<1>1. c.queue \in Seq(Txns) /\ c.cache \in Nodes
  BY DEF Clients
<1>2. Overdue(c) \in SUBSET Txns /\ Overdue(c) \subseteq ToSet(c.queue)
  <2>1. ToSet(c.queue) \subseteq Txns
    BY <1>1 DEF ToSet
  <2> QED BY <2>1 DEF Overdue
<1>3. Verdict(c) \in [Overdue(c) -> Answers]
  BY DEF Verdict, Overdue, Answers
<1>4. /\ e \in Clients /\ SameConn(c, e)
      /\ e.puts = c.puts /\ e.up = c.up /\ e.abort = c.abort /\ e.tries = c.tries
      /\ e.queue = c.queue /\ e.status = c.status /\ e.result = c.result
      /\ \A i \in 1..Len(RunAgain(c)) : Injective(RunAgain(c)) =>
            e.output[RunAgain(c)[i]] = Val(c.cache) + i
  BY RerunFields
<1> HIDE DEF e
<1>5. /\ f \in Clients /\ SameConn(e, f)
      /\ f.puts = e.puts /\ f.up = e.up /\ f.abort = e.abort
      /\ f.tries = e.tries /\ f.output = e.output
      /\ f.queue = Only(e.queue, Txns \ Overdue(c))
      /\ \A t \in Txns : f.status[t] = IF t \in Overdue(c) THEN "completed" ELSE e.status[t]
      /\ \A o \in Ops : f.result[o] = IF o \in Overdue(c) THEN Verdict(c)[o] ELSE e.result[o]
  <2>1. f = Finish(e, Overdue(c), Verdict(c))
    OBVIOUS
  <2> HIDE DEF f
  <2>2. e \in Clients /\ Overdue(c) \in SUBSET Txns
    BY <1>2, <1>4
  <2> QED BY <1>3, <2>1, <2>2, FinishFields
<1> HIDE DEF f
<1>6. /\ f.queue \in Seq(Txns) /\ Injective(f.queue)
      /\ ToSet(f.queue) = ToSet(c.queue) \cap (Txns \ Overdue(c))
  BY <1>1, <1>4, <1>5, OnlySet
<1>7. ToSet(f.queue) = ToSet(c.queue) \ Overdue(c)
  <2>1. ToSet(c.queue) \subseteq Txns
    BY <1>1 DEF ToSet
  <2> QED BY <1>6, <2>1
<1>8. \A t \in ToSet(f.queue) : t \in Txns /\ c.status[t] = "run" /\ f.status[t] = "run"
  BY <1>4, <1>5, <1>6, <1>7 DEF Overdue
<1>9. RunAgain(c) = f.queue
  <2>1. ASSUME NEW i \in 1..Len(c.queue)
        PROVE  c.queue[i] \in {t \in Txns \ Overdue(c) : c.status[t] = "run"}
                    <=> c.queue[i] \in Txns \ Overdue(c)
    <3>1. c.queue[i] \in ToSet(c.queue)
      BY <1>1 DEF ToSet
    <3> QED BY <1>7, <1>8, <3>1
  <2> QED BY <1>1, <1>4, <1>5, <2>1, OnlySame DEF RunAgain
<1>10. d = sendAllReadyTransactions(f)
  BY RerunIs DEF f, e
<1>11. /\ d \in Clients /\ SameConn(f, d) /\ QueuePut(d) = QueuePut(f)
       /\ d.queue = f.queue /\ d.abort = f.abort
       /\ d.output = f.output /\ d.result = f.result
       /\ \A t \in Txns : d.status[t] = IF t \in ToSet(f.queue) THEN "sent" ELSE f.status[t]
       /\ \A t \in Txns : d.tries[t] = IF t \in ToSet(f.queue) THEN f.tries[t] + 1 ELSE f.tries[t]
       /\ d.queue = <<>> => d.puts = f.puts /\ d.up = f.up
       /\ d.queue # <<>> => GoesOut(f, d, QueuePut(d))
  BY <1>5, <1>8, <1>10, SendReady
<1>12. SameConn(c, d)
  BY <1>4, <1>5, <1>11 DEF SameConn
<1>13. d.queue # <<>> => GoesOut(c, d, QueuePut(d))
  BY <1>4, <1>5, <1>11 DEF GoesOut, SameConn
<1>14. ASSUME d.queue # <<>> PROVE QueuePut(d).val = Val(c.cache) + Len(d.queue)
  <2>1. Len(d.queue) \in 1..Len(d.queue)
    BY <1>6, <1>11, <1>14
  <2>2. e.output[Last(d.queue)] = Val(c.cache) + Len(d.queue)
    BY <1>4, <1>6, <1>9, <1>11, <2>1 DEF Last
  <2>3. QueuePut(d).val = d.output[Last(d.queue)]
    BY DEF QueuePut
  <2> QED BY <1>5, <1>11, <2>2, <2>3
<1>15. \A t \in Txns : /\ d.status[t] = IF t \in ToSet(d.queue) THEN "sent"
                                        ELSE IF t \in Overdue(c) THEN "completed"
                                        ELSE c.status[t]
                       /\ d.tries[t] = IF t \in ToSet(d.queue) THEN c.tries[t] + 1
                                       ELSE c.tries[t]
  <2> TAKE t \in Txns
  <2>1. /\ e.status[t] = c.status[t] /\ e.tries[t] = c.tries[t]
        /\ f.tries[t] = e.tries[t]
        /\ f.status[t] = IF t \in Overdue(c) THEN "completed" ELSE e.status[t]
    BY <1>4, <1>5
  <2>2. /\ d.status[t] = IF t \in ToSet(f.queue) THEN "sent" ELSE f.status[t]
        /\ d.tries[t] = IF t \in ToSet(f.queue) THEN f.tries[t] + 1 ELSE f.tries[t]
        /\ d.queue = f.queue
    BY <1>11
  <2> QED BY <2>1, <2>2
<1>16. \A o \in Ops : d.result[o] = IF o \in Overdue(c) THEN Verdict(c)[o] ELSE c.result[o]
  BY <1>4, <1>5, <1>11
<1>17. d.queue = <<>> => d.puts = c.puts /\ d.up = c.up
  BY <1>4, <1>5, <1>11
<1> QED BY <1>6, <1>7, <1>11, <1>12, <1>13, <1>14, <1>15, <1>16, <1>17

\* What a put can be answered with, by the server or by a break.
Statuses == Replies \cup {"disconnect"}

-----------------------------------------------------------------------------
\* Put p stands for the first transactions of the queue: these are marked as
\* sent, those behind them wait, with the outputs that follow unless a read
\* above the counter has had them run again.
TxnFor(c, p) ==
    /\ p.hashed
    /\ Len(p.ops) \in 1..Len(c.queue)
    /\ \A i \in 1..Len(p.ops) : p.ops[i] = c.queue[i]
    /\ \A i \in 1..Len(p.ops) : c.status[c.queue[i]] = "sent"
    /\ \A i \in Len(p.ops)+1..Len(c.queue) :
            /\ c.status[c.queue[i]] = "run"
            /\ ~c.reread => c.output[c.queue[i]] = p.val + i - Len(p.ops)
    /\ p.val = c.output[c.queue[Len(p.ops)]]

\* The queue holds each transaction that is pending once, and nothing else;
\* none of them is past its limit of tries.
Queued(c) ==
    /\ Injective(c.queue)
    /\ \A t \in Txns :
        /\ c.status[t] # "needsabort"
        /\ t \in ToSet(c.queue) <=> c.status[t] \in {"run", "sent"}
        /\ t \in ToSet(c.queue) <=> c.result[t] = "pending"
        /\ c.status[t] = "initializing" <=> c.result[t] = "none"
        /\ c.status[t] = "run" => c.tries[t] < MaxTries
        /\ c.tries[t] <= MaxTries
        /\ c.status[t] = "initializing" => c.tries[t] = 0

\* What the answer s to put p of transactions has done to the client when the
\* step from c to d is over: only what p carries is answered, everything left
\* in the queue has gone out again as one put.
Settled(c, p, s, d) ==
    /\ d \in Clients /\ SameConn(c, d) /\ Queued(d)
    /\ \A o \in Ops :
        \/ d.result[o] = c.result[o]
        \/ /\ o \in ToSet(p.ops) /\ c.result[o] = "pending"
           /\ d.result[o] = IF s = "datastale" THEN "maxretries" ELSE s
    /\ \A t \in Txns : /\ d.status[t] # "run"
                       /\ d.status[t] = "initializing" => c.status[t] = "initializing"
    /\ \A t \in ToSet(d.queue) : \/ c.status[t] = "run"
                                 \/ s = "datastale" /\ t \in ToSet(p.ops)
    /\ d.queue = <<>> => d.puts = c.puts /\ d.up = c.up
    /\ d.queue # <<>> =>
        /\ GoesOut(c, d, QueuePut(d))
        /\ TxnFor(d, QueuePut(d))
        /\ \/ s = "ok" /\ c.reread
           \/ QueuePut(d).val = Len(d.queue) + IF s = "ok" THEN p.val ELSE Val(c.cache)

(***************************************************************************)
(* The transactions that a put carries are pending and sent; the others of *)
(* the queue wait.                                                         *)
(***************************************************************************)
LEMMA MineIsPrefix ==
    ASSUME NEW c \in Clients, Queued(c), NEW p \in Puts, TxnFor(c, p)
    PROVE  /\ ToSet(p.ops) \subseteq ToSet(c.queue)
           /\ ToSet(p.ops) \in SUBSET Txns
           /\ \A t \in ToSet(p.ops) : c.status[t] = "sent" /\ c.result[t] = "pending"
           /\ \A t \in ToSet(c.queue) : t \notin ToSet(p.ops) => c.status[t] = "run"
           /\ \A i \in 1..Len(p.ops) : c.queue[i] \in ToSet(p.ops)
           /\ \A i \in Len(p.ops)+1..Len(c.queue) : c.queue[i] \notin ToSet(p.ops)
<1>1. /\ c.queue \in Seq(Txns) /\ p.ops \in Seq(Ops)
      /\ Len(p.ops) \in 1..Len(c.queue) /\ Len(c.queue) \in Nat
      /\ \A i \in 1..Len(p.ops) : p.ops[i] = c.queue[i]
  <2>1. c.queue \in Seq(Txns)
    BY DEF Clients
  <2>2. p.ops \in Seq(Ops)
    BY DEF Puts
  <2>3. /\ Len(p.ops) \in 1..Len(c.queue)
        /\ \A i \in 1..Len(p.ops) : p.ops[i] = c.queue[i]
    BY DEF TxnFor
  <2> QED BY <2>1, <2>2, <2>3
<1>2. \A i \in 1..Len(c.queue) : c.queue[i] \in ToSet(c.queue) /\ c.queue[i] \in Txns
  BY <1>1 DEF ToSet
<1>3. ASSUME NEW t \in ToSet(p.ops)
      PROVE  \E i \in 1..Len(p.ops) : t = c.queue[i] /\ i \in 1..Len(c.queue)
  BY <1>1 DEF ToSet
<1>4. ASSUME NEW t \in ToSet(p.ops)
      PROVE  t \in ToSet(c.queue) /\ t \in Txns /\ c.status[t] = "sent" /\ c.result[t] = "pending"
  <2>1. PICK i \in 1..Len(p.ops) : t = c.queue[i] /\ i \in 1..Len(c.queue)
    BY <1>3
  <2>2. t \in ToSet(c.queue) /\ t \in Txns
    BY <1>2, <2>1
  <2>3. c.status[t] = "sent"
    BY <2>1 DEF TxnFor
  <2> QED BY <2>2, <2>3 DEF Queued
<1>5. ASSUME NEW i \in 1..Len(p.ops) PROVE c.queue[i] \in ToSet(p.ops)
  BY <1>1 DEF ToSet
<1>6. ASSUME NEW i \in Len(p.ops)+1..Len(c.queue) PROVE c.queue[i] \notin ToSet(p.ops)
  <2> SUFFICES ASSUME c.queue[i] \in ToSet(p.ops) PROVE FALSE
    OBVIOUS
  <2>1. PICK j \in 1..Len(p.ops) : c.queue[i] = c.queue[j] /\ j \in 1..Len(c.queue)
    BY <1>3
  <2>2. i \in 1..Len(c.queue)
    BY <1>1
  <2>3. i = j
    BY <2>1, <2>2 DEF Queued, Injective
  <2> QED BY <1>1, <2>3
<1>7. ASSUME NEW t \in ToSet(c.queue), t \notin ToSet(p.ops) PROVE c.status[t] = "run"
  <2>1. PICK i \in 1..Len(c.queue) : c.queue[i] = t
    BY <1>1 DEF ToSet
  <2>2. i \in Len(p.ops)+1..Len(c.queue)
    BY <1>1, <1>5, <1>7, <2>1
  <2> QED BY <2>1, <2>2 DEF TxnFor
<1> QED BY <1>4, <1>5, <1>6, <1>7

(***************************************************************************)
(* A queue that has just gone out has its put to stand for it.             *)
(***************************************************************************)
LEMMA QueueOut ==
    ASSUME NEW d \in Clients, d.queue # <<>>, \A t \in ToSet(d.queue) : d.status[t] = "sent"
    PROVE  TxnFor(d, QueuePut(d))
<1>1. d.queue \in Seq(Txns) /\ Len(d.queue) \in Nat /\ Len(d.queue) # 0
  BY DEF Clients
<1>2. \A i \in 1..Len(d.queue) : d.queue[i] \in ToSet(d.queue)
  BY <1>1 DEF ToSet
<1> QED BY <1>1, <1>2 DEF TxnFor, QueuePut, Last

(***************************************************************************)
(* The completion block of an accepted put (sendTransactionQueue's         *)
(* callback, status ok): its transactions complete and those behind them   *)
(* go out.                                                                 *)
(***************************************************************************)
LEMMA CallbackOk ==
    ASSUME NEW c \in Clients, Queued(c), NEW p \in Puts, TxnFor(c, p),
           NEW d, d = putAnswered(c, p, "ok")
    PROVE  Settled(c, p, "ok", d)
<1> DEFINE mine == ToSet(p.ops)
           ok == [t \in mine |-> "ok"]
           e == Finish(c, mine, ok)
           f == sendAllReadyTransactions(e)
           m == Len(p.ops)
<1>0. /\ c.queue \in Seq(Txns) /\ Len(c.queue) \in Nat
      /\ m \in 1..Len(c.queue)
  BY DEF Clients, TxnFor
<1>1. /\ mine \subseteq ToSet(c.queue)
      /\ mine \in SUBSET Txns
      /\ \A t \in mine : c.status[t] = "sent" /\ c.result[t] = "pending"
      /\ \A t \in ToSet(c.queue) : t \notin mine => c.status[t] = "run"
      /\ \A i \in 1..m : c.queue[i] \in mine
      /\ \A i \in m+1..Len(c.queue) : c.queue[i] \notin mine
  BY MineIsPrefix
<1>2. d = rerunTransactionQueue(f)
  BY DEF putAnswered, TxnFor
<1>3. /\ e \in Clients /\ SameConn(c, e)
      /\ e.puts = c.puts /\ e.up = c.up /\ e.abort = c.abort
      /\ e.tries = c.tries /\ e.output = c.output
      /\ e.queue = Only(c.queue, Txns \ mine)
      /\ \A t \in Txns : e.status[t] = IF t \in mine THEN "completed" ELSE c.status[t]
      /\ \A o \in Ops : e.result[o] = IF o \in mine THEN "ok" ELSE c.result[o]
  <2>1. ok \in [mine -> Answers] /\ \A t \in mine : ok[t] = "ok"
    BY DEF Answers
  <2>2. e = Finish(c, mine, ok)
    OBVIOUS
  <2> HIDE DEF e, mine, ok
  <2>3. /\ e \in Clients /\ SameConn(c, e)
        /\ e.puts = c.puts /\ e.up = c.up /\ e.abort = c.abort
        /\ e.tries = c.tries /\ e.output = c.output
        /\ e.queue = Only(c.queue, Txns \ mine)
        /\ \A t \in Txns : e.status[t] = IF t \in mine THEN "completed" ELSE c.status[t]
        /\ \A o \in Ops : e.result[o] = IF o \in mine THEN ok[o] ELSE c.result[o]
    <3>1. mine \in SUBSET Txns /\ ok \in [mine -> Answers]
      BY <1>1, <2>1
    <3> QED BY <2>2, <3>1, FinishFields
  <2> QED BY <2>1, <2>3
<1> HIDE DEF e, mine, m, ok
<1>4. /\ e.queue \in Seq(Txns) /\ Len(e.queue) = Len(c.queue) - m
      /\ \A i \in 1..Len(c.queue)-m : e.queue[i] = c.queue[m + i]
  <2> DEFINE X == Txns \ mine
  <2>1. Splits(c.queue, X, m)
    BY <1>0, <1>1 DEF Splits
  <2> HIDE DEF X
  <2>2. Only(c.queue, X) \in Seq(Txns) /\ Suffix(Only(c.queue, X), c.queue, m)
    BY <1>0, <2>1, OnlySuffix
  <2> QED BY <1>3, <2>2 DEF X, Suffix
<1>5. Injective(e.queue) /\ ToSet(e.queue) = ToSet(c.queue) \ mine /\ ToSet(c.queue) \subseteq Txns
  <2>1. Injective(c.queue)
    BY DEF Queued
  <2>2. ToSet(c.queue) \subseteq Txns
    BY <1>0 DEF ToSet
  <2>3. ToSet(e.queue) = ToSet(c.queue) \cap (Txns \ mine) /\ Injective(e.queue)
    BY <1>0, <1>3, <2>1, OnlySet
  <2> QED BY <2>2, <2>3
<1>6. \A t \in ToSet(e.queue) : t \in Txns /\ c.status[t] = "run" /\ e.status[t] = "run"
  BY <1>1, <1>3, <1>5
<1>7. /\ f \in Clients /\ SameConn(e, f) /\ QueuePut(f) = QueuePut(e)
      /\ f.queue = e.queue /\ f.abort = e.abort
      /\ f.output = e.output /\ f.result = e.result
      /\ \A t \in Txns : f.status[t] = IF t \in ToSet(e.queue) THEN "sent" ELSE e.status[t]
      /\ \A t \in Txns : f.tries[t] = IF t \in ToSet(e.queue) THEN e.tries[t] + 1 ELSE e.tries[t]
      /\ f.queue = <<>> => f.puts = e.puts /\ f.up = e.up
      /\ f.queue # <<>> => GoesOut(e, f, QueuePut(f))
  BY <1>3, <1>6, SendReady
<1> HIDE DEF f
<1>8. /\ d \in Clients /\ SameConn(f, d)
      /\ d.puts = f.puts /\ d.up = f.up /\ d.queue = f.queue
      /\ \A t \in Txns : /\ d.status[t] = f.status[t] /\ d.tries[t] = f.tries[t]
                         /\ d.output[t] = f.output[t]
      /\ \A o \in Ops : d.result[o] = f.result[o]
  <2>1. \A t \in ToSet(f.queue) : f.status[t] = "sent"
    BY <1>6, <1>7
  <2> QED BY <1>2, <1>7, <2>1, RerunIdle
<1>9. SameConn(c, d)
  BY <1>3, <1>7, <1>8 DEF SameConn
<1>10. \A o \in Ops : d.result[o] = IF o \in mine THEN "ok" ELSE c.result[o]
  BY <1>3, <1>7, <1>8
<1>11. \A t \in Txns : d.status[t] = IF t \in ToSet(d.queue) THEN "sent"
                                     ELSE IF t \in mine THEN "completed" ELSE c.status[t]
  <2> TAKE t \in Txns
  <2>1. d.status[t] = f.status[t] /\ ToSet(d.queue) = ToSet(e.queue)
    BY <1>7, <1>8
  <2>2. f.status[t] = IF t \in ToSet(e.queue) THEN "sent" ELSE e.status[t]
    BY <1>7
  <2>3. e.status[t] = IF t \in mine THEN "completed" ELSE c.status[t]
    BY <1>3
  <2> QED BY <2>1, <2>2, <2>3
<1>12. \A t \in Txns : d.tries[t] = IF t \in ToSet(d.queue) THEN c.tries[t] + 1 ELSE c.tries[t]
  BY <1>3, <1>7, <1>8
<1>13. Txns \subseteq Ops
  BY DEF Ops
<1>14. /\ d.queue = e.queue /\ Injective(d.queue)
       /\ ToSet(d.queue) = ToSet(c.queue) \ mine
  BY <1>5, <1>7, <1>8
<1>15. Queued(d)
  <2>1. ASSUME NEW t \in Txns
        PROVE  /\ d.status[t] # "needsabort"
               /\ t \in ToSet(d.queue) <=> d.status[t] \in {"run", "sent"}
               /\ t \in ToSet(d.queue) <=> d.result[t] = "pending"
               /\ d.status[t] = "initializing" <=> d.result[t] = "none"
               /\ d.status[t] = "run" => d.tries[t] < MaxTries
               /\ d.tries[t] <= MaxTries
               /\ d.status[t] = "initializing" => d.tries[t] = 0
    <3>1. /\ c.status[t] # "needsabort"
          /\ t \in ToSet(c.queue) <=> c.status[t] \in {"run", "sent"}
          /\ t \in ToSet(c.queue) <=> c.result[t] = "pending"
          /\ c.status[t] = "initializing" <=> c.result[t] = "none"
          /\ c.status[t] = "run" => c.tries[t] < MaxTries
          /\ c.tries[t] <= MaxTries
          /\ c.status[t] = "initializing" => c.tries[t] = 0
      BY DEF Queued
    <3>2. c.tries[t] \in Nat /\ MaxTries \in Nat /\ t \in Ops
      BY <1>13, BoundsAssumption DEF Clients
    <3>3. CASE t \in ToSet(d.queue)
      <4>1. c.status[t] = "run" /\ t \notin mine
        BY <1>6, <1>14, <3>3
      <4> QED BY <1>10, <1>11, <1>12, <3>1, <3>2, <3>3, <4>1
    <3>4. CASE t \in mine
      <4>1. t \notin ToSet(d.queue)
        BY <1>14, <3>4
      <4> QED BY <1>10, <1>11, <1>12, <3>1, <3>2, <3>4, <4>1
    <3>5. CASE t \notin ToSet(d.queue) /\ t \notin mine
      <4>1. t \notin ToSet(c.queue)
        BY <1>14, <3>5
      <4> QED BY <1>10, <1>11, <1>12, <3>1, <3>2, <3>5, <4>1
    <3> QED BY <3>3, <3>4, <3>5
  <2> QED BY <1>14, <2>1 DEF Queued
<1>16. \A o \in Ops :
        \/ d.result[o] = c.result[o]
        \/ o \in mine /\ c.result[o] = "pending" /\ d.result[o] = "ok"
  BY <1>1, <1>10
<1>17. \A t \in Txns : /\ d.status[t] # "run"
                       /\ d.status[t] = "initializing" => c.status[t] = "initializing"
  <2> TAKE t \in Txns
  <2>1. t \in ToSet(c.queue) <=> c.status[t] \in {"run", "sent"}
    BY DEF Queued
  <2> QED BY <1>1, <1>11, <1>14, <2>1
<1>18. \A t \in ToSet(d.queue) : c.status[t] = "run"
  BY <1>6, <1>14
<1>19. d.queue = <<>> => d.puts = c.puts /\ d.up = c.up
  BY <1>3, <1>7, <1>8
<1>20. ASSUME d.queue # <<>>
       PROVE  /\ GoesOut(c, d, QueuePut(d))
              /\ TxnFor(d, QueuePut(d))
              /\ ~c.reread => QueuePut(d).val = Len(d.queue) + p.val
  <2>1. Len(d.queue) \in Nat /\ Len(d.queue) # 0 /\ Last(d.queue) = d.queue[Len(d.queue)]
    BY <1>4, <1>14, <1>20 DEF Last
  <2>2. d.queue[Len(d.queue)] = c.queue[Len(c.queue)] /\ c.queue[Len(c.queue)] \in Txns
    <3>1. Len(d.queue) \in 1..Len(c.queue)-m /\ m + Len(d.queue) = Len(c.queue)
      <4>1. Len(d.queue) = Len(c.queue) - m
        BY <1>4, <1>14
      <4>2. Len(c.queue) \in Nat /\ m \in Nat
        BY <1>0
      <4> QED BY <2>1, <4>1, <4>2
    <3>2. d.queue[Len(d.queue)] = c.queue[m + Len(d.queue)]
      BY <1>4, <1>14, <3>1
    <3>3. Len(c.queue) \in 1..Len(c.queue)
      BY <1>0
    <3> QED BY <1>0, <3>1, <3>2, <3>3
  <2>3. QueuePut(d) = QueuePut(f)
    <3>1. d.queue = f.queue /\ d.cache = f.cache
      BY <1>8 DEF SameConn
    <3>2. Last(d.queue) \in Txns
      BY <2>1, <2>2
    <3>3. d.output[Last(d.queue)] = f.output[Last(f.queue)]
      BY <1>8, <3>1, <3>2
    <3> QED BY <3>1, <3>3 DEF QueuePut
  <2>4. GoesOut(c, d, QueuePut(d))
    BY <1>3, <1>7, <1>8, <1>20, <2>3 DEF GoesOut, SameConn
  <2>5. TxnFor(d, QueuePut(d))
    <3>1. \A t \in ToSet(d.queue) : d.status[t] = "sent"
      BY <1>5, <1>11, <1>14
    <3> QED BY <1>8, <1>20, <3>1, QueueOut
  <2>6. QueuePut(d).val = c.output[c.queue[Len(c.queue)]]
    BY <1>3, <1>7, <1>8, <2>1, <2>2 DEF QueuePut
  <2>7. ~c.reread => c.output[c.queue[Len(c.queue)]] = p.val + Len(c.queue) - m
    <3>1. Len(c.queue) \in m+1..Len(c.queue)
      BY <1>0, <1>4, <1>14, <2>1
    <3> QED BY <3>1 DEF TxnFor, m
  <2>8. p.val \in Int /\ Len(d.queue) = Len(c.queue) - m
    BY <1>4, <1>14 DEF Puts
  <2>9. ASSUME ~c.reread PROVE QueuePut(d).val = Len(d.queue) + p.val
    <3> DEFINE n == Len(c.queue)
               v == p.val
    <3>1. n \in Int /\ m \in Int /\ v \in Int
      BY <1>0, <2>8
    <3>2. QueuePut(d).val = v + n - m /\ Len(d.queue) = n - m
      BY <2>6, <2>7, <2>8, <2>9
    <3> HIDE DEF n, v, m
    <3>3. v + n - m = (n - m) + v
      BY <3>1
    <3> QED BY <3>2, <3>3 DEF v
  <2> QED BY <2>4, <2>5, <2>9
<1> QED BY <1>8, <1>9, <1>15, <1>16, <1>17, <1>18, <1>19, <1>20 DEF Settled, mine

\* The client once transactions have been put back into the queue, or marked
\* to be aborted.
Back(c, S, x, a) ==
    [c EXCEPT !.status = [t \in Txns |-> IF t \in S THEN x ELSE c.status[t]], !.abort = a]

(***************************************************************************)
(* What that changes.                                                      *)
(***************************************************************************)
LEMMA BackFields ==
    ASSUME NEW c \in Clients, NEW S \in SUBSET Txns, NEW x \in TxnStates,
           NEW a \in [Txns -> {"none"} \cup Answers],
           NEW e, e = Back(c, S, x, a)
    PROVE  /\ e \in Clients /\ SameConn(c, e)
           /\ e.puts = c.puts /\ e.up = c.up /\ e.abort = a
           /\ e.tries = c.tries /\ e.output = c.output
           /\ e.queue = c.queue /\ e.result = c.result
           /\ \A t \in Txns : e.status[t] = IF t \in S THEN x ELSE c.status[t]
<1> DEFINE status == [t \in Txns |-> IF t \in S THEN x ELSE c.status[t]]
<1>1. status \in [Txns -> TxnStates]
  BY DEF Clients
<1>2. e = [c EXCEPT !.status = status, !.abort = a]
  BY DEF Back
<1>3. /\ e \in Clients /\ SameConn(c, e)
      /\ e.puts = c.puts /\ e.up = c.up /\ e.abort = a
      /\ e.tries = c.tries /\ e.output = c.output
      /\ e.queue = c.queue /\ e.result = c.result /\ e.status = status
  <2> HIDE DEF status
  <2> QED BY <1>1, <1>2 DEF Clients, SameConn
<1> QED BY <1>3

(***************************************************************************)
(* The completion block of a put that was not accepted: stale data runs    *)
(* the blocks again, a refusal or a break gives the transactions up.       *)
(***************************************************************************)
LEMMA CallbackAgain ==
    ASSUME NEW c \in Clients, Queued(c), NEW p \in Puts, TxnFor(c, p),
           NEW s \in {"datastale", "denied", "disconnect"},
           NEW d, d = putAnswered(c, p, s)
    PROVE  Settled(c, p, s, d)
<1> DEFINE mine == ToSet(p.ops)
           x == IF s = "datastale" THEN "run" ELSE "needsabort"
           v == IF s = "datastale" THEN "maxretries" ELSE s
           a == IF s = "datastale" THEN c.abort
                ELSE [t \in Txns |-> IF t \in mine THEN s ELSE c.abort[t]]
           e == Back(c, mine, x, a)
<1>0. c.queue \in Seq(Txns) /\ Len(c.queue) \in Nat /\ Injective(c.queue) /\ Txns \subseteq Ops
  BY DEF Clients, Queued, Ops
<1>1. /\ mine \subseteq ToSet(c.queue)
      /\ mine \in SUBSET Txns
      /\ \A t \in mine : c.status[t] = "sent" /\ c.result[t] = "pending"
      /\ \A t \in ToSet(c.queue) : t \notin mine => c.status[t] = "run"
  BY MineIsPrefix
<1>2. /\ x \in TxnStates /\ a \in [Txns -> {"none"} \cup Answers]
      /\ s # "datastale" => \A t \in mine : a[t] = s
  BY <1>1 DEF TxnStates, Clients, Answers
<1>3. d = rerunTransactionQueue(e)
  <2>1. CASE s = "datastale"
    <3>1. e = [c EXCEPT !.status = [t \in Txns |-> IF t \in mine THEN "run" ELSE c.status[t]]]
      BY <2>1 DEF Clients, Back
    <3> QED BY <2>1, <3>1 DEF putAnswered, TxnFor
  <2>2. CASE s # "datastale"
    <3>1. e = [[c EXCEPT !.status = [t \in Txns |-> IF t \in mine THEN "needsabort" ELSE c.status[t]]]
                  EXCEPT !.abort = [t \in Txns |-> IF t \in mine THEN s ELSE c.abort[t]]]
      BY <2>2 DEF Clients, Back
    <3>2. d = rerunTransactionQueue([[c EXCEPT !.status = [t \in Txns |-> IF t \in mine THEN "needsabort" ELSE c.status[t]]]
                  EXCEPT !.abort = [t \in Txns |-> IF t \in mine THEN s ELSE c.abort[t]]])
      BY <2>2 DEF putAnswered, TxnFor, Clients
    <3> QED BY <3>1, <3>2
  <2> QED BY <2>1, <2>2
<1>4. /\ e \in Clients /\ SameConn(c, e)
      /\ e.puts = c.puts /\ e.up = c.up /\ e.abort = a
      /\ e.tries = c.tries /\ e.output = c.output
      /\ e.queue = c.queue /\ e.result = c.result
      /\ \A t \in Txns : e.status[t] = IF t \in mine THEN x ELSE c.status[t]
  <2>1. e = Back(c, mine, x, a)
    OBVIOUS
  <2>2. mine \in SUBSET Txns /\ x \in TxnStates /\ a \in [Txns -> {"none"} \cup Answers]
    BY <1>1, <1>2
  <2> HIDE DEF e, mine, x, a
  <2> QED BY <2>1, <2>2, BackFields
<1> HIDE DEF e, mine, a
<1>5. ToSet(c.queue) \subseteq Txns
  BY <1>0 DEF ToSet
<1>6. ASSUME NEW t \in ToSet(e.queue)
      PROVE  \/ e.status[t] = "run"
             \/ e.status[t] = "needsabort" /\ e.abort[t] \in Answers
  <2>1. t \in Txns /\ t \in ToSet(c.queue)
    BY <1>4, <1>5
  <2>2. CASE t \in mine
    BY <1>2, <1>4, <2>1, <2>2 DEF Answers
  <2>3. CASE t \notin mine
    BY <1>1, <1>4, <2>1, <2>3
  <2> QED BY <2>2, <2>3
<1>7. /\ Overdue(e) \subseteq mine
      /\ s # "datastale" => Overdue(e) = mine
      /\ \A t \in mine : t \notin Overdue(e) => c.tries[t] < MaxTries
  <2>1. ASSUME NEW t \in ToSet(c.queue)
        PROVE  c.tries[t] \in Nat /\ (t \notin mine => c.tries[t] < MaxTries)
    BY <1>1, <1>5 DEF Queued, Clients
  <2>2. MaxTries \in Nat
    BY BoundsAssumption
  <2>3. ASSUME NEW t \in Overdue(e) PROVE t \in mine
    <3>1. t \in ToSet(c.queue) /\ t \in Txns
      BY <1>4, <1>5 DEF Overdue
    <3>2. CASE e.status[t] = "needsabort"
      BY <1>1, <1>4, <3>1, <3>2
    <3>3. CASE e.status[t] = "run" /\ e.tries[t] >= MaxTries
      BY <1>4, <2>1, <2>2, <3>1, <3>3
    <3> QED BY <3>2, <3>3 DEF Overdue
  <2>4. ASSUME NEW t \in mine, s # "datastale" PROVE t \in Overdue(e)
    BY <1>1, <1>4, <1>5, <2>4 DEF Overdue
  <2>5. ASSUME NEW t \in mine, t \notin Overdue(e) PROVE c.tries[t] < MaxTries
    <3>1. t \in ToSet(c.queue) /\ t \in Txns /\ c.tries[t] \in Nat
      BY <1>1, <1>5, <2>1
    <3>2. s = "datastale" /\ e.status[t] = "run"
      BY <1>4, <2>4, <2>5, <3>1
    <3> QED BY <1>4, <2>2, <2>5, <3>1, <3>2 DEF Overdue
  <2> QED BY <2>3, <2>4, <2>5
<1>8. \A t \in Overdue(e) : Verdict(e)[t] = v
  <2> TAKE t \in Overdue(e)
  <2>1. t \in mine /\ t \in Txns
    BY <1>1, <1>7
  <2> QED BY <1>2, <1>4, <2>1 DEF Verdict
<1> HIDE DEF x
<1>9. /\ d \in Clients /\ SameConn(e, d)
      /\ d.queue \in Seq(Txns) /\ Injective(d.queue)
      /\ ToSet(d.queue) = ToSet(e.queue) \ Overdue(e)
      /\ \A t \in Txns : d.status[t] = IF t \in ToSet(d.queue) THEN "sent"
                                       ELSE IF t \in Overdue(e) THEN "completed"
                                       ELSE e.status[t]
      /\ \A t \in Txns : d.tries[t] = IF t \in ToSet(d.queue) THEN e.tries[t] + 1
                                      ELSE e.tries[t]
      /\ \A o \in Ops : d.result[o] = IF o \in Overdue(e) THEN Verdict(e)[o]
                                      ELSE e.result[o]
      /\ d.queue = <<>> => d.puts = e.puts /\ d.up = e.up
      /\ d.queue # <<>> => /\ GoesOut(e, d, QueuePut(d))
                           /\ QueuePut(d).val = Val(e.cache) + Len(d.queue)
  <2>1. Injective(e.queue)
    BY <1>0, <1>4
  <2>2. \A t \in ToSet(e.queue) : \/ e.status[t] = "run"
                                  \/ e.status[t] = "needsabort" /\ e.abort[t] \in Answers
    BY <1>6
  <2> QED BY <1>3, <1>4, <2>1, <2>2, RerunAll
<1>10. SameConn(c, d) /\ ToSet(d.queue) = ToSet(c.queue) \ Overdue(e)
  BY <1>4, <1>9 DEF SameConn
<1>11. \A o \in Ops : d.result[o] = IF o \in Overdue(e) THEN v ELSE c.result[o]
  BY <1>4, <1>8, <1>9
<1>12. \A t \in Txns :
        /\ d.tries[t] = IF t \in ToSet(d.queue) THEN c.tries[t] + 1 ELSE c.tries[t]
        /\ d.status[t] = IF t \in ToSet(d.queue) THEN "sent"
                         ELSE IF t \in Overdue(e) THEN "completed" ELSE c.status[t]
  <2> TAKE t \in Txns
  <2>1. CASE t \in ToSet(d.queue) \/ t \in Overdue(e)
    BY <1>4, <1>9, <2>1
  <2>2. CASE ~(t \in ToSet(d.queue) \/ t \in Overdue(e))
    <3>1. t \notin mine
      BY <1>1, <1>10, <2>2
    <3> QED BY <1>4, <1>9, <2>2, <3>1
  <2> QED BY <2>1, <2>2
<1>13. v \in Answers /\ v \notin {"none", "pending"}
  BY DEF Answers
<1> HIDE DEF v
<1>14. Queued(d)
  <2>1. ASSUME NEW t \in Txns
        PROVE  /\ d.status[t] # "needsabort"
               /\ t \in ToSet(d.queue) <=> d.status[t] \in {"run", "sent"}
               /\ t \in ToSet(d.queue) <=> d.result[t] = "pending"
               /\ d.status[t] = "initializing" <=> d.result[t] = "none"
               /\ d.status[t] = "run" => d.tries[t] < MaxTries
               /\ d.tries[t] <= MaxTries
               /\ d.status[t] = "initializing" => d.tries[t] = 0
    <3>1. /\ c.status[t] # "needsabort"
          /\ t \in ToSet(c.queue) <=> c.status[t] \in {"run", "sent"}
          /\ t \in ToSet(c.queue) <=> c.result[t] = "pending"
          /\ c.status[t] = "initializing" <=> c.result[t] = "none"
          /\ c.status[t] = "run" => c.tries[t] < MaxTries
          /\ c.tries[t] <= MaxTries
          /\ c.status[t] = "initializing" => c.tries[t] = 0
      BY DEF Queued
    <3>2. c.tries[t] \in Nat /\ MaxTries \in Nat /\ t \in Ops
      BY <1>0, BoundsAssumption DEF Clients
    <3>3. CASE t \in ToSet(d.queue)
      <4>1. t \in ToSet(c.queue) /\ t \notin Overdue(e)
        BY <1>10, <3>3
      <4>2. c.tries[t] < MaxTries
        BY <1>1, <1>7, <3>1, <4>1
      <4> QED BY <1>11, <1>12, <3>1, <3>2, <3>3, <4>1, <4>2
    <3>4. CASE t \in Overdue(e)
      <4>1. t \notin ToSet(d.queue)
        BY <1>10, <3>4
      <4> QED BY <1>11, <1>12, <1>13, <3>1, <3>2, <3>4, <4>1
    <3>5. CASE t \notin ToSet(d.queue) /\ t \notin Overdue(e)
      <4>1. t \notin ToSet(c.queue)
        BY <1>10, <3>5
      <4> QED BY <1>11, <1>12, <3>1, <3>2, <3>5, <4>1
    <3> QED BY <3>3, <3>4, <3>5
  <2> QED BY <1>9, <2>1 DEF Queued
<1>16. \A o \in Ops :
        \/ d.result[o] = c.result[o]
        \/ o \in mine /\ c.result[o] = "pending" /\ d.result[o] = v
  BY <1>1, <1>7, <1>11
<1>17. \A t \in Txns : /\ d.status[t] # "run"
                       /\ d.status[t] = "initializing" => c.status[t] = "initializing"
  <2> TAKE t \in Txns
  <2>1. t \in ToSet(c.queue) <=> c.status[t] \in {"run", "sent"}
    BY DEF Queued
  <2> QED BY <1>1, <1>10, <1>12, <2>1
<1>18. \A t \in ToSet(d.queue) :
        \/ c.status[t] = "run"
        \/ s = "datastale" /\ t \in mine
  <2> TAKE t \in ToSet(d.queue)
  <2>1. t \in ToSet(c.queue) /\ t \notin Overdue(e)
    BY <1>10
  <2>2. CASE t \in mine
    BY <1>7, <2>1, <2>2
  <2>3. CASE t \notin mine
    BY <1>1, <2>1, <2>3
  <2> QED BY <2>2, <2>3
<1>19. d.queue = <<>> => d.puts = c.puts /\ d.up = c.up
  BY <1>4, <1>9
<1>20. ASSUME d.queue # <<>>
       PROVE  /\ GoesOut(c, d, QueuePut(d))
              /\ TxnFor(d, QueuePut(d))
              /\ QueuePut(d).val = Len(d.queue) + Val(c.cache)
  <2>1. GoesOut(c, d, QueuePut(d))
    BY <1>4, <1>9, <1>20 DEF GoesOut, SameConn
  <2>2. TxnFor(d, QueuePut(d))
    <3>1. \A t \in ToSet(d.queue) : d.status[t] = "sent"
      BY <1>5, <1>10, <1>12
    <3> QED BY <1>9, <1>20, <3>1, QueueOut
  <2>3. QueuePut(d).val = Val(c.cache) + Len(d.queue)
    BY <1>4, <1>9, <1>20 DEF SameConn
  <2>4. Val(c.cache) \in Int /\ Len(d.queue) \in Nat
    BY <1>9, BlockInt DEF Clients
  <2> QED BY <2>1, <2>2, <2>3, <2>4
<1> QED BY <1>9, <1>10, <1>14, <1>16, <1>17, <1>18, <1>19, <1>20 DEF Settled, mine, v

(***************************************************************************)
(* The completion block of a put of transactions, whatever the answer.     *)
(***************************************************************************)
LEMMA Callback ==
    ASSUME NEW c \in Clients, Queued(c), NEW p \in Puts, TxnFor(c, p),
           NEW s \in Statuses, NEW d, d = putAnswered(c, p, s)
    PROVE  Settled(c, p, s, d)
BY CallbackOk, CallbackAgain DEF Statuses, Replies

\* A put and the answer to it.
AckOf == [put: Puts, status: Statuses]

\* Put p is that of a write that waits for its answer.
WriteFor(c, p) == \E w \in Writes : p = WritePut(w) /\ c.result[w] = "pending"

\* Put p stands for calls that wait for their answer.
Stands(c, p) == WriteFor(c, p) \/ TxnFor(c, p)

\* Two puts are different, and not both of transactions.
Apart(p, q) == ~(p.hashed /\ q.hashed) /\ p # q

\* Every outstanding put, and every put in K whose answer a[i] is yet to be
\* passed on, stands for calls that wait; they are apart from each other; if
\* there is a queue, one of them is the put of its head.
Standing(c, P, a, K) ==
    /\ \A i \in 1..Len(P) : Stands(c, P[i].put)
    /\ \A i \in K : Stands(c, a[i].put)
    /\ \A i, j \in 1..Len(P) : i # j => Apart(P[i].put, P[j].put)
    /\ \A i, j \in K : i # j => Apart(a[i].put, a[j].put)
    /\ \A i \in 1..Len(P), j \in K : Apart(P[i].put, a[j].put)
    /\ c.queue # <<>> => \/ \E i \in 1..Len(P) : P[i].put.hashed
                         \/ \E i \in K : a[i].put.hashed

\* Nothing of what put p carries has taken effect.
Unapplied(p, ap) == \A o \in ToSet(p.ops) : ap[o] = 0

\* Answer s to put p tells what has happened to it.
Honest(p, s, ap) ==
    /\ s = "ok" => \A o \in ToSet(p.ops) : ap[o] > 0
    /\ s \notin {"ok", "disconnect"} /\ p.hashed => Unapplied(p, ap)
    /\ s \in {"datastale", "disconnect"} => p.hashed

\* What has taken effect: nothing of a transaction that waits or that was
\* never sent, exactly what the answers say, and nothing of transactions that
\* are to be sent for the first time or again.
Applied(c, P, a, K, ap) ==
    /\ \A t \in Txns : c.status[t] \in {"initializing", "run"} => ap[t] = 0
    /\ \A i \in K : Honest(a[i].put, a[i].status, ap)
    /\ \A i \in 1..Len(P) : P[i].put.hashed /\ c.state # "connected" => ~P[i].sent
    /\ \A i \in 1..Len(P) : P[i].put.hashed /\ ~P[i].sent => Unapplied(P[i].put, ap)

\* The first part of the inductive invariant, about the calls: the queue, the
\* outstanding puts and the answers held back account for every call that
\* waits.
Sound(c, P, a, K, ap) ==
    /\ c \in Clients /\ P \in Seq(Outstanding)
    /\ Queued(c) /\ Standing(c, P, a, K) /\ Applied(c, P, a, K, ap)

\* How put p was made from c, if x is the answer being passed on: from the
\* cache, or from the value that has just been accepted (unless what waited
\* has been run again in between).
Made(c, p, x) ==
    p.hashed => /\ p.hash = c.cache
                /\ \/ p.val = Len(p.ops) + Val(c.cache)
                   \/ /\ x.put.hashed /\ x.status = "ok"
                      /\ c.reread \/ p.val = Len(p.ops) + x.put.val

\* The step from c to d sends put p, in addition to the outstanding ones.
Sends(c, d, P, Q, p, x, ap) ==
    /\ GoesOut(c, d, p)
    /\ Q = Append(P, [put |-> p, sent |-> c.state = "connected"])
    /\ \A i \in 1..Len(P) : P[i].put # p
    /\ Unapplied(p, ap)
    /\ Made(c, p, x)

\* What passing on answer x does to the connection: nothing, or one put goes
\* out.
Follows(c, d, P, Q, x, ap) ==
    /\ SameConn(c, d)
    /\ \A o \in Ops : c.result[o] # "none" => d.result[o] # "none"
    /\ \/ d.puts = c.puts /\ d.up = c.up /\ Q = P
       \/ \E p \in Puts : Sends(c, d, P, Q, p, x, ap)

\* Answer r to call o is one that the contract allows.
Truth(o, r, ap) ==
    \/ r = "ok" /\ ap[o] > 0
    \/ r = "denied" /\ (o \in Txns => ap[o] = 0)
    \/ r = "maxretries" /\ o \in Txns /\ ap[o] = 0
    \/ r = "disconnect" /\ o \in Txns

\* Between c and d calls that waited are answered the truth, and nothing else
\* is answered.
Spoken(c, d, ap) ==
    \A o \in Ops : \/ d.result[o] = c.result[o]
                   \/ c.result[o] = "pending" /\ Truth(o, d.result[o], ap)

(***************************************************************************)
(* The put of a write carries this write and nothing else.                 *)
(***************************************************************************)
LEMMA WritePutType ==
    ASSUME NEW w \in Writes
    PROVE  /\ WritePut(w) \in Puts /\ ~WritePut(w).hashed
           /\ WritePut(w).ops[1] = w /\ ToSet(WritePut(w).ops) = {w}
           /\ w \in Ops /\ w \notin Txns
           /\ \A v \in Writes : WritePut(v) = WritePut(w) => v = w
<1>1. <<w>> \in Seq(Ops) /\ <<w>>[1] = w /\ w \in Ops /\ <<>> \in Seq(Int)
  BY DEF Ops
<1>2. WritePut(w) \in Puts /\ ~WritePut(w).hashed
  BY <1>1 DEF WritePut, Puts
<1>3. WritePut(w).ops = <<w>>
  BY DEF WritePut
<1>4. ToSet(<<w>>) = {w}
  BY DEF ToSet
<1>5. \A v \in Writes : WritePut(v) = WritePut(w) => v = w
  BY DEF WritePut
<1> QED BY <1>1, <1>2, <1>3, <1>4, <1>5, OpsAssumption

(***************************************************************************)
(* Passing on the answer to a write keeps the calls accounted for, sends   *)
(* nothing, and tells the truth.                                           *)
(***************************************************************************)
LEMMA AnsweredWrite ==
    ASSUME NEW c, NEW P, NEW a \in Seq(AckOf), NEW K \in SUBSET (1..Len(a)), NEW ap,
           Sound(c, P, a, K, ap), NEW j \in K, WriteFor(c, a[j].put),
           NEW d, d = putAnswered(c, a[j].put, a[j].status)
    PROVE  /\ Sound(d, P, a, K \ {j}, ap)
           /\ Follows(c, d, P, P, a[j], ap)
           /\ Spoken(c, d, ap)
<1> DEFINE p == a[j].put
           s == a[j].status
<1>1. PICK w \in Writes : p = WritePut(w) /\ c.result[w] = "pending"
  BY DEF WriteFor
<1>2. /\ p \in Puts /\ s \in Statuses /\ ~p.hashed /\ p.ops[1] = w /\ ToSet(p.ops) = {w}
      /\ w \in Ops /\ w \notin Txns
      /\ \A v \in Writes : WritePut(v) = p => v = w
  <2>1. a[j] \in AckOf
    OBVIOUS
  <2> QED BY <1>1, <2>1, WritePutType DEF AckOf
<1>3. Honest(p, s, ap)
  BY DEF Sound, Applied
<1>4. s \in {"ok", "denied"} /\ (s = "ok" => ap[w] > 0)
  BY <1>2, <1>3 DEF Honest, Statuses, Replies
<1>5. d = [c EXCEPT !.result[w] = s]
  BY <1>2 DEF putAnswered
<1> HIDE DEF p, s
<1>6. c \in Clients /\ Queued(c) /\ Standing(c, P, a, K) /\ Applied(c, P, a, K, ap)
      /\ P \in Seq(Outstanding)
  BY DEF Sound
<1>7. /\ d \in Clients /\ SameConn(c, d)
      /\ d.puts = c.puts /\ d.up = c.up /\ d.abort = c.abort /\ d.tries = c.tries
      /\ d.queue = c.queue /\ d.status = c.status /\ d.output = c.output
      /\ d.result[w] = s
      /\ \A o \in Ops : o # w => d.result[o] = c.result[o]
  <2> DEFINE res == [c.result EXCEPT ![w] = s]
  <2>1. c.result \in [Ops -> {"none", "pending"} \cup Answers] /\ s \in Answers
    BY <1>4, <1>6 DEF Clients, Answers
  <2>2. /\ res \in [Ops -> {"none", "pending"} \cup Answers]
        /\ res[w] = s /\ \A o \in Ops : o # w => res[o] = c.result[o]
    BY <1>2, <2>1
  <2>3. d = [c EXCEPT !.result = res]
    BY <1>5
  <2> HIDE DEF res
  <2>4. /\ d \in Clients /\ SameConn(c, d)
        /\ d.puts = c.puts /\ d.up = c.up /\ d.abort = c.abort /\ d.tries = c.tries
        /\ d.queue = c.queue /\ d.status = c.status /\ d.output = c.output
        /\ d.result = res
    BY <1>6, <2>2, <2>3 DEF Clients, SameConn
  <2> QED BY <2>2, <2>4
<1>8. Queued(d)
  <2>1. \A t \in Txns : d.result[t] = c.result[t]
    BY <1>2, <1>7 DEF Ops
  <2> QED BY <1>6, <1>7, <2>1 DEF Queued
<1>9. ASSUME NEW q, Stands(c, q), q # p PROVE Stands(d, q)
  <2>1. CASE TxnFor(c, q)
    BY <1>7, <2>1 DEF TxnFor, Stands, SameConn
  <2>2. CASE WriteFor(c, q)
    <3>1. PICK v \in Writes : q = WritePut(v) /\ c.result[v] = "pending"
      BY <2>2 DEF WriteFor
    <3>2. v # w /\ v \in Ops
      BY <1>1, <1>9, <3>1 DEF Ops
    <3> QED BY <1>7, <3>1, <3>2 DEF WriteFor, Stands
  <2> QED BY <1>9, <2>1, <2>2 DEF Stands
<1>10. Standing(d, P, a, K \ {j})
  <2>1. \A i \in 1..Len(P) : Stands(d, P[i].put)
    BY <1>6, <1>9 DEF Standing, Apart, p
  <2>2. \A i \in K \ {j} : Stands(d, a[i].put)
    BY <1>6, <1>9 DEF Standing, Apart, p
  <2>3. ASSUME d.queue # <<>>
        PROVE  \/ \E i \in 1..Len(P) : P[i].put.hashed
               \/ \E i \in K \ {j} : a[i].put.hashed
    BY <1>2, <1>6, <1>7, <2>3 DEF Standing, p
  <2> QED BY <1>6, <2>1, <2>2, <2>3 DEF Standing
<1>11. Applied(d, P, a, K \ {j}, ap)
  BY <1>6, <1>7 DEF Applied, SameConn
<1>12. Spoken(c, d, ap)
  BY <1>1, <1>2, <1>4, <1>7 DEF Spoken, Truth
<1>13. Follows(c, d, P, P, a[j], ap)
  BY <1>4, <1>7 DEF Follows
<1> QED BY <1>6, <1>7, <1>8, <1>10, <1>11, <1>12, <1>13 DEF Sound

(***************************************************************************)
(* So does passing on the answer to transactions; what is left of the      *)
(* queue goes out.                                                         *)
(***************************************************************************)
LEMMA AnsweredTxn ==
    ASSUME NEW c, NEW P, NEW a \in Seq(AckOf), NEW K \in SUBSET (1..Len(a)), NEW ap,
           Sound(c, P, a, K, ap), NEW j \in K, TxnFor(c, a[j].put),
           NEW d, d = putAnswered(c, a[j].put, a[j].status)
    PROVE  /\ \E Q : Sound(d, Q, a, K \ {j}, ap) /\ Follows(c, d, P, Q, a[j], ap)
           /\ Spoken(c, d, ap)
<1> DEFINE p == a[j].put
           s == a[j].status
           q == QueuePut(d)
           x == [put |-> q, sent |-> c.state = "connected"]
<1>1. p \in Puts /\ s \in Statuses
  <2>1. a[j] \in AckOf
    OBVIOUS
  <2> QED BY <2>1 DEF AckOf
<1>2. /\ c \in Clients /\ Queued(c) /\ Standing(c, P, a, K) /\ Applied(c, P, a, K, ap)
      /\ P \in Seq(Outstanding)
  BY DEF Sound
<1>3. Settled(c, p, s, d)
  BY <1>1, <1>2, Callback
<1>4. Honest(p, s, ap) /\ p.hashed
  BY <1>2 DEF Applied, TxnFor
<1>5. d \in Clients /\ SameConn(c, d) /\ Queued(d)
  BY <1>3 DEF Settled
<1>6. /\ ToSet(p.ops) \in SUBSET Txns
      /\ \A t \in ToSet(p.ops) : c.status[t] = "sent"
  BY <1>1, <1>2, MineIsPrefix
<1> HIDE DEF p, s, q, x
<1>7. \A o \in Ops :
        \/ d.result[o] = c.result[o]
        \/ /\ o \in ToSet(p.ops) /\ c.result[o] = "pending"
           /\ d.result[o] = IF s = "datastale" THEN "maxretries" ELSE s
  BY <1>3 DEF Settled
<1>8. Spoken(c, d, ap)
  <2>1. ASSUME NEW o \in Ops, d.result[o] # c.result[o]
        PROVE  c.result[o] = "pending" /\ Truth(o, d.result[o], ap)
    <3>1. /\ o \in ToSet(p.ops) /\ c.result[o] = "pending"
          /\ d.result[o] = IF s = "datastale" THEN "maxretries" ELSE s
      BY <1>7, <2>1
    <3>2. o \in Txns
      BY <1>6, <3>1
    <3>3. s = "ok" => ap[o] > 0
      BY <1>4, <3>1 DEF Honest
    <3>4. s \in {"denied", "datastale"} => ap[o] = 0
      BY <1>4, <3>1 DEF Honest, Unapplied
    <3> QED BY <1>1, <3>1, <3>2, <3>3, <3>4 DEF Truth, Statuses, Replies
  <2> QED BY <2>1 DEF Spoken
<1>9. \A o \in Ops : c.result[o] # "none" => d.result[o] # "none"
  BY <1>1, <1>7 DEF Statuses, Replies
<1>10. ASSUME NEW r, Stands(c, r), ~r.hashed PROVE Stands(d, r)
  <2>1. WriteFor(c, r)
    BY <1>10 DEF Stands, TxnFor
  <2>2. PICK v \in Writes : r = WritePut(v) /\ c.result[v] = "pending"
    BY <2>1 DEF WriteFor
  <2>3. v \in Ops /\ v \notin Txns
    BY WritePutType
  <2>4. d.result[v] = c.result[v]
    BY <1>6, <1>7, <2>3
  <2> QED BY <2>2, <2>4 DEF WriteFor, Stands
<1>11. /\ \A i \in 1..Len(P) : ~P[i].put.hashed /\ Stands(d, P[i].put)
       /\ \A i \in K \ {j} : ~a[i].put.hashed /\ Stands(d, a[i].put)
  <2>1. \A i \in 1..Len(P) : ~P[i].put.hashed /\ Stands(c, P[i].put)
    BY <1>2, <1>4 DEF Standing, Apart, p
  <2>2. \A i \in K \ {j} : ~a[i].put.hashed /\ Stands(c, a[i].put)
    BY <1>2, <1>4 DEF Standing, Apart, p
  <2> QED BY <1>10, <2>1, <2>2
<1>12. \A t \in Txns : d.status[t] \in {"initializing", "run"} => ap[t] = 0
  BY <1>2, <1>3 DEF Settled, Applied
<1>13. \A i \in K \ {j} : Honest(a[i].put, a[i].status, ap)
  BY <1>2 DEF Applied
<1>14. CASE d.queue = <<>>
  <2>1. Standing(d, P, a, K \ {j})
    BY <1>2, <1>11, <1>14 DEF Standing
  <2>2. Applied(d, P, a, K \ {j}, ap)
    BY <1>11, <1>12, <1>13 DEF Applied
  <2>3. Follows(c, d, P, P, a[j], ap)
    BY <1>3, <1>5, <1>9, <1>14 DEF Follows, Settled
  <2> QED BY <1>2, <1>5, <1>8, <2>1, <2>2, <2>3 DEF Sound
<1>15. CASE d.queue # <<>>
  <2>1. q \in Puts /\ q.hashed /\ q.ops = d.queue /\ q.hash = c.cache
    BY <1>5, <1>15, QueuePutType DEF q, QueuePut, SameConn
  <2>2. /\ GoesOut(c, d, q) /\ TxnFor(d, q)
        /\ \/ s = "ok" /\ c.reread
           \/ q.val = Len(d.queue) + IF s = "ok" THEN p.val ELSE Val(c.cache)
    BY <1>3, <1>15 DEF Settled, q
  <2>3. Unapplied(q, ap)
    <3>1. ASSUME NEW t \in ToSet(d.queue) PROVE ap[t] = 0
      <4>0. t \in Txns
        BY <1>5 DEF Clients, ToSet
      <4>1. \/ c.status[t] = "run"
            \/ s = "datastale" /\ t \in ToSet(p.ops)
        BY <1>3 DEF Settled
      <4>2. CASE c.status[t] = "run"
        BY <1>2, <4>0, <4>2 DEF Applied
      <4>3. CASE s = "datastale" /\ t \in ToSet(p.ops)
        BY <1>4, <4>3 DEF Honest, Unapplied
      <4> QED BY <4>1, <4>2, <4>3
    <3> QED BY <2>1, <3>1 DEF Unapplied
  <2> DEFINE Q == Append(P, x)
  <2>4. x \in Outstanding /\ x.put = q /\ x.sent = (c.state = "connected")
    BY <2>1 DEF x, Outstanding
  <2>5. /\ Q \in Seq(Outstanding) /\ Len(Q) = Len(P) + 1 /\ Len(P) \in Nat
        /\ \A i \in 1..Len(P) : Q[i] = P[i]
        /\ Q[Len(P) + 1] = x
    BY <1>2, <2>4, AppendLast
  <2> HIDE DEF Q
  <2>6. \A i \in 1..Len(Q) : i \in 1..Len(P) \/ i = Len(P) + 1
    BY <2>5
  <2>7. Standing(d, Q, a, K \ {j})
    <3>1. \A i \in 1..Len(Q) : Stands(d, Q[i].put)
      BY <1>11, <2>2, <2>4, <2>5, <2>6 DEF Stands
    <3>2. ASSUME NEW i \in 1..Len(Q), NEW k \in 1..Len(Q), i # k
          PROVE  Apart(Q[i].put, Q[k].put)
      <4>1. CASE i \in 1..Len(P) /\ k \in 1..Len(P)
        BY <1>2, <2>5, <3>2, <4>1 DEF Standing
      <4>2. CASE i \in 1..Len(P) /\ k = Len(P) + 1
        BY <1>11, <2>1, <2>4, <2>5, <4>2 DEF Apart
      <4>3. CASE i = Len(P) + 1 /\ k \in 1..Len(P)
        BY <1>11, <2>1, <2>4, <2>5, <4>3 DEF Apart
      <4> QED BY <2>6, <3>2, <4>1, <4>2, <4>3
    <3>3. ASSUME NEW i \in 1..Len(Q), NEW k \in K \ {j} PROVE Apart(Q[i].put, a[k].put)
      <4>1. CASE i \in 1..Len(P)
        BY <1>2, <2>5, <4>1 DEF Standing
      <4>2. CASE i = Len(P) + 1
        BY <1>11, <2>1, <2>4, <2>5, <4>2 DEF Apart
      <4> QED BY <2>6, <4>1, <4>2
    <3>4. Len(P) + 1 \in 1..Len(Q) /\ Q[Len(P) + 1].put.hashed
      BY <2>1, <2>4, <2>5
    <3>5. \A i, k \in K \ {j} : i # k => Apart(a[i].put, a[k].put)
      BY <1>2 DEF Standing
    <3> QED BY <1>11, <3>1, <3>2, <3>3, <3>4, <3>5 DEF Standing
  <2>8. Applied(d, Q, a, K \ {j}, ap)
    <3>1. \A i \in 1..Len(Q) : Q[i].put.hashed => i = Len(P) + 1
      BY <1>11, <2>5, <2>6
    <3>2. Q[Len(P) + 1].put = q /\ Q[Len(P) + 1].sent = (c.state = "connected")
      BY <2>4, <2>5
    <3>3. d.state = c.state
      BY <1>5 DEF SameConn
    <3> QED BY <1>12, <1>13, <2>3, <3>1, <3>2, <3>3 DEF Applied
  <2>9. Made(c, q, a[j])
    BY <1>4, <2>1, <2>2 DEF Made, p, s
  <2>10. \A i \in 1..Len(P) : P[i].put # q
    BY <1>11, <2>1
  <2>11. Sends(c, d, P, Q, q, a[j], ap)
    BY <2>2, <2>3, <2>9, <2>10 DEF Sends, Q, x
  <2>12. Follows(c, d, P, Q, a[j], ap)
    BY <1>5, <1>9, <2>1, <2>11 DEF Follows
  <2> QED BY <1>5, <1>8, <2>5, <2>7, <2>8, <2>12 DEF Sound
<1> QED BY <1>14, <1>15

(***************************************************************************)
(* So does passing on any answer: the step of the loop in ackPuts.         *)
(***************************************************************************)
LEMMA Answered ==
    ASSUME NEW c, NEW P, NEW a \in Seq(AckOf), NEW K \in SUBSET (1..Len(a)), NEW ap,
           Sound(c, P, a, K, ap), NEW j \in K,
           NEW d, d = putAnswered(c, a[j].put, a[j].status)
    PROVE  /\ \E Q : Sound(d, Q, a, K \ {j}, ap) /\ Follows(c, d, P, Q, a[j], ap)
           /\ Spoken(c, d, ap)
<1>1. Stands(c, a[j].put)
  BY DEF Sound, Standing
<1>2. CASE WriteFor(c, a[j].put)
  BY <1>2, AnsweredWrite
<1>3. CASE TxnFor(c, a[j].put)
  BY <1>3, AnsweredTxn
<1> QED BY <1>1, <1>2, <1>3 DEF Stands

-----------------------------------------------------------------------------
\* The places of s that hold a member of X, and how many there are.
Marked(s, X) == {i \in 1..Len(s) : s[i] \in X}
Number(s, X) == Cardinality(Marked(s, X))

(***************************************************************************)
(* They are finitely many.                                                 *)
(***************************************************************************)
LEMMA NumberNat ==
    ASSUME NEW S, NEW s \in Seq(S), NEW X
    PROVE  IsFiniteSet(Marked(s, X)) /\ Number(s, X) \in Nat
<1>1. Len(s) \in Nat /\ Marked(s, X) \in SUBSET (1..Len(s))
  BY DEF Marked
<1>2. IsFiniteSet(1..Len(s))
  BY <1>1, FS_Interval
<1>3. IsFiniteSet(Marked(s, X))
  BY <1>1, <1>2, FS_Subset
<1> QED BY <1>3, FS_CardinalityType DEF Number

(***************************************************************************)
(* Counting in a concatenation.                                            *)
(***************************************************************************)
LEMMA NumberConcat ==
    ASSUME NEW S, NEW s \in Seq(S), NEW t \in Seq(S), NEW X
    PROVE  Number(s \o t, X) = Number(s, X) + Number(t, X)
<1> DEFINE u == s \o t
           A == Marked(s, X)
           B == Marked(t, X)
           C == {Len(s) + i : i \in B}
           f == [i \in B |-> Len(s) + i]
<1>1. /\ Len(s) \in Nat /\ Len(t) \in Nat /\ Len(u) = Len(s) + Len(t)
      /\ \A i \in 1..Len(s) : u[i] = s[i]
      /\ \A i \in 1..Len(t) : u[Len(s) + i] = t[i]
  OBVIOUS
<1> HIDE DEF u
<1>2. A \subseteq 1..Len(s) /\ B \subseteq 1..Len(t)
  BY DEF Marked
<1>3. Marked(u, X) = A \cup C
  <2>1. ASSUME NEW i \in Marked(u, X) PROVE i \in A \cup C
    <3>1. i \in 1..Len(u) /\ u[i] \in X
      BY DEF Marked
    <3>2. CASE i <= Len(s)
      BY <1>1, <3>1, <3>2 DEF Marked
    <3>3. CASE i > Len(s)
      <4>1. i - Len(s) \in 1..Len(t) /\ i = Len(s) + (i - Len(s))
        BY <1>1, <3>1, <3>3
      <4>2. t[i - Len(s)] = u[i]
        BY <1>1, <4>1
      <4>3. i - Len(s) \in B
        BY <3>1, <4>1, <4>2 DEF Marked
      <4> QED BY <4>1, <4>3
    <3> QED BY <1>1, <3>1, <3>2, <3>3
  <2>2. ASSUME NEW i \in A PROVE i \in Marked(u, X)
    BY <1>1 DEF Marked
  <2>3. ASSUME NEW i \in B PROVE Len(s) + i \in Marked(u, X)
    BY <1>1 DEF Marked
  <2> QED BY <2>1, <2>2, <2>3
<1>4. IsFiniteSet(A) /\ IsFiniteSet(B)
  BY NumberNat
<1> HIDE DEF A, B
<1>5. f \in Bijection(B, C)
  <2>1. f \in [B -> C]
    OBVIOUS
  <2>2. \A i, j \in B : f[i] = f[j] => i = j
    BY <1>1, <1>2
  <2>3. \A k \in C : \E i \in B : f[i] = k
    OBVIOUS
  <2> QED BY <2>1, <2>2, <2>3 DEF Bijection, Injection, Surjection, IsInjective
<1>6. IsFiniteSet(C) /\ Cardinality(C) = Cardinality(B)
  <2>1. ExistsBijection(B, C)
    BY <1>5 DEF ExistsBijection
  <2> HIDE DEF C
  <2> QED BY <1>4, <2>1, FS_Bijection
<1>7. A \cap C = {}
  BY <1>1, <1>2
<1> HIDE DEF C
<1>8. Cardinality(A \cup C) = Cardinality(A) + Cardinality(C) - Cardinality(A \cap C)
  BY <1>4, <1>6, FS_Union
<1>9. Cardinality(A \cap C) = 0 /\ Cardinality(A) \in Nat /\ Cardinality(C) \in Nat
  BY <1>4, <1>6, <1>7, FS_EmptySet, FS_CardinalityType
<1> QED BY <1>3, <1>6, <1>8, <1>9 DEF Number, A, B, u

(***************************************************************************)
(* Counting what is not there.                                             *)
(***************************************************************************)
LEMMA NumberNone ==
    ASSUME NEW s, NEW X, \A i \in 1..Len(s) : s[i] \notin X
    PROVE  Number(s, X) = 0
<1>1. Marked(s, X) = {}
  BY DEF Marked
<1> QED BY <1>1, FS_EmptySet DEF Number

(***************************************************************************)
(* Counting everything.                                                    *)
(***************************************************************************)
LEMMA NumberAll ==
    ASSUME NEW S, NEW s \in Seq(S), NEW X, \A i \in 1..Len(s) : s[i] \in X
    PROVE  Number(s, X) = Len(s)
<1>1. Marked(s, X) = 1..Len(s) /\ Len(s) \in Nat
  BY DEF Marked
<1>2. Cardinality(1..Len(s)) = Len(s)
  <2>1. 1 \in Int /\ Len(s) \in Int
    BY <1>1
  <2>2. Cardinality(1..Len(s)) = IF 1 > Len(s) THEN 0 ELSE Len(s) - 1 + 1
    BY <2>1, FS_Interval
  <2> QED BY <1>1, <2>2
<1> QED BY <1>1, <1>2 DEF Number

(***************************************************************************)
(* Counting in a sequence of one.                                          *)
(***************************************************************************)
LEMMA NumberOne ==
    ASSUME NEW x, NEW X
    PROVE  Number(<<x>>, X) = IF x \in X THEN 1 ELSE 0
<1>1. <<x>> \in Seq({x}) /\ Len(<<x>>) = 1 /\ <<x>>[1] = x /\ \A i \in 1..1 : i = 1
  OBVIOUS
<1>2. CASE x \in X
  BY <1>1, <1>2, NumberAll
<1>3. CASE x \notin X
  BY <1>1, <1>3, NumberNone
<1> QED BY <1>2, <1>3

(***************************************************************************)
(* Counting after an element has been added.                               *)
(***************************************************************************)
LEMMA NumberAppend ==
    ASSUME NEW S, NEW s \in Seq(S), NEW x \in S, NEW X
    PROVE  Number(Append(s, x), X) = Number(s, X) + IF x \in X THEN 1 ELSE 0
<1>1. Append(s, x) = s \o <<x>> /\ <<x>> \in Seq(S)
  OBVIOUS
<1>2. Number(s \o <<x>>, X) = Number(s, X) + Number(<<x>>, X)
  BY <1>1, NumberConcat
<1> QED BY <1>1, <1>2, NumberOne

(***************************************************************************)
(* Counting after the first has been taken.                                *)
(***************************************************************************)
LEMMA NumberTail ==
    ASSUME NEW S, NEW s \in Seq(S), s # <<>>, NEW X
    PROVE  Number(Tail(s), X) = Number(s, X) - IF Head(s) \in X THEN 1 ELSE 0
<1>1. s = <<Head(s)>> \o Tail(s) /\ <<Head(s)>> \in Seq(S) /\ Tail(s) \in Seq(S)
  OBVIOUS
<1>2. Number(<<Head(s)>> \o Tail(s), X) = Number(<<Head(s)>>, X) + Number(Tail(s), X)
  BY <1>1, NumberConcat
<1>3. Number(Tail(s), X) \in Nat
  BY <1>1, NumberNat
<1>4. Number(<<Head(s)>>, X) = IF Head(s) \in X THEN 1 ELSE 0
  BY NumberOne
<1>5. Number(s, X) = Number(<<Head(s)>>, X) + Number(Tail(s), X)
  BY <1>1, <1>2
<1> HIDE DEF Number
<1> DEFINE n == Number(Tail(s), X)
           k == Number(<<Head(s)>>, X)
<1>6. n \in Nat /\ k \in {0, 1} /\ Number(s, X) = k + n
  BY <1>3, <1>4, <1>5
<1> HIDE DEF n, k
<1>7. n = Number(s, X) - k
  BY <1>6
<1> QED BY <1>4, <1>7 DEF n, k

-----------------------------------------------------------------------------
\* The kinds of messages.
IsPut(m) == m.kind = "put"
IsPutReply(m) == m.kind = "reply" /\ m.to.kind = "put"
IsAuth(m) == m.kind = "auth"
IsAuthReply(m) == m.kind = "reply" /\ m.to.kind = "auth"
IsListen(m) == m.kind = "listen"
IsListenReply(m) == m.kind = "reply" /\ m.to.kind = "listen"

\* Put p is outstanding and has been sent.
Out(c, p) == \E i \in 1..Len(c.puts) : c.puts[i].put = p /\ c.puts[i].sent

\* What is on the wire: every put on its way, or its answer, belongs to a put
\* that is outstanding and sent, each is there once, as put or as answer; the
\* transactions of a put on its way have not taken effect.
Wire(c, dn, ap) ==
    /\ \A i \in 1..Len(c.up) : IsPut(c.up[i]) =>
            /\ Out(c, c.up[i].put)
            /\ c.up[i].put.hashed => Unapplied(c.up[i].put, ap)
    /\ \A i, j \in 1..Len(c.up) :
            IsPut(c.up[i]) /\ IsPut(c.up[j]) /\ c.up[i].put = c.up[j].put => i = j
    /\ \A i \in 1..Len(c.up), j \in 1..Len(dn) :
            IsPut(c.up[i]) /\ IsPutReply(dn[j]) => c.up[i].put # dn[j].to.put
    /\ \A i \in 1..Len(dn) : IsPutReply(dn[i]) =>
            Out(c, dn[i].to.put) /\ Honest(dn[i].to.put, dn[i].status, ap)
    /\ \A i, j \in 1..Len(dn) :
            IsPutReply(dn[i]) /\ IsPutReply(dn[j]) /\ dn[i].to.put = dn[j].to.put => i = j

\* What is on the wire in each state of the connection: nothing before it is
\* up, the authentication first and no put while it is under way, no
\* authentication after it.
Link(c, dn, sv) ==
    /\ c.state \in {"disconnected", "connecting"} => c.up = <<>> /\ dn = <<>> /\ sv = {}
    /\ c.state = "authenticating" =>
        /\ \A i \in 1..Len(c.up) : ~IsPut(c.up[i])
        /\ \A i \in 1..Len(dn) : ~IsPutReply(dn[i])
        /\ \/ /\ dn = <<>> /\ sv = {}
              /\ c.up # <<>> /\ IsAuth(c.up[1])
              /\ \A i \in 2..Len(c.up) : ~IsAuth(c.up[i])
           \/ /\ dn # <<>> /\ IsAuthReply(dn[1])
              /\ \A i \in 2..Len(dn) : ~IsAuthReply(dn[i])
              /\ \A i \in 1..Len(c.up) : ~IsAuth(c.up[i])
    /\ c.state = "connected" =>
        /\ \A i \in 1..Len(dn) : ~IsAuthReply(dn[i])
        /\ \A i \in 1..Len(c.up) : ~IsAuth(c.up[i])

\* Listens, and the answers to them.
ListensUp == {m \in UpMessages : IsListen(m)}
ListensDown == {m \in DownMessages : IsListenReply(m)}

\* unackedListens counts the listens on their way and the answers to them on
\* theirs.
Unacked(c, dn) ==
    c.unackedListens = Number(c.up, ListensUp) + Number(dn, ListensDown)

\* Write w is to be sent, or is on its way.
Due(c, w) ==
    /\ \E i \in 1..Len(c.puts) : c.puts[i].put = WritePut(w)
    /\ \/ c.state # "connected"
       \/ \E i \in 1..Len(c.up) : c.up[i] = PutMessage(WritePut(w))

\* How often a call takes effect: a transaction once, a write once and once
\* more for every break, not counting the time it is due for.
Repeats(c, ap, br) ==
    /\ \A t \in Txns : ap[t] \in 0..1
    /\ \A w \in Writes :
        /\ ap[w] \in 0..br+1
        /\ c.result[w] = "none" => ap[w] = 0
        /\ Due(c, w) => ap[w] <= br

\* The second part of the inductive invariant, about the connection.
Conn(c, dn, sv, ap, br) ==
    Wire(c, dn, ap) /\ Link(c, dn, sv) /\ Unacked(c, dn) /\ Repeats(c, ap, br)

(***************************************************************************)
(* A step that changes no message and no outstanding put keeps it.         *)
(***************************************************************************)
LEMMA SameMessages ==
    ASSUME NEW c \in Clients, NEW d \in Clients, NEW dn, NEW sv, NEW ap, NEW br \in Nat,
           Conn(c, dn, sv, ap, br), SameConn(c, d), d.puts = c.puts, d.up = c.up,
           \A o \in Ops : c.result[o] # "none" => d.result[o] # "none"
    PROVE  Conn(d, dn, sv, ap, br)
<1>1. Wire(d, dn, ap)
  BY DEF Conn, Wire, Out
<1>2. Link(d, dn, sv)
  BY DEF Conn, Link, SameConn
<1>3. Unacked(d, dn)
  BY DEF Conn, Unacked, SameConn
<1>4. Repeats(d, ap, br)
  BY DEF Conn, Repeats, Due, SameConn, Ops
<1> QED BY <1>1, <1>2, <1>3, <1>4 DEF Conn

(***************************************************************************)
(* The message of a put is a put.                                          *)
(***************************************************************************)
LEMMA UpMessageIs ==
    ASSUME NEW p \in Puts
    PROVE  /\ PutMessage(p) \in UpMessages /\ IsPut(PutMessage(p))
           /\ PutMessage(p).put = p
           /\ ~IsAuth(PutMessage(p)) /\ ~IsListen(PutMessage(p))
BY DEF PutMessage, UpMessages, IsPut, IsAuth, IsListen

(***************************************************************************)
(* Sending a put that is new, and carries nothing that has taken effect,   *)
(* keeps it.                                                               *)
(***************************************************************************)
LEMMA SendsConn ==
    ASSUME NEW c \in Clients, NEW d \in Clients, NEW dn, NEW sv, NEW ap, NEW br \in Nat,
           Conn(c, dn, sv, ap, br), SameConn(c, d),
           \A o \in Ops : c.result[o] # "none" => d.result[o] # "none",
           NEW p \in Puts, NEW x, Sends(c, d, c.puts, d.puts, p, x, ap)
    PROVE  Conn(d, dn, sv, ap, br)
<1> DEFINE y == [put |-> p, sent |-> c.state = "connected"]
<1>1. /\ c.puts \in Seq(Outstanding) /\ c.up \in Seq(UpMessages)
      /\ Len(c.puts) \in Nat /\ Len(c.up) \in Nat /\ d.up \in Seq(UpMessages)
  BY DEF Clients
<1>2. y \in Outstanding /\ y.put = p /\ y.sent = (c.state = "connected")
  BY DEF Outstanding
<1>3. /\ d.puts = Append(c.puts, y)
      /\ \A i \in 1..Len(c.puts) : c.puts[i].put # p
      /\ Unapplied(p, ap)
  BY DEF Sends
<1> HIDE DEF y
<1>4. /\ Len(d.puts) = Len(c.puts) + 1
      /\ \A i \in 1..Len(c.puts) : d.puts[i] = c.puts[i]
      /\ d.puts[Len(c.puts) + 1] = y
  BY <1>1, <1>2, <1>3, AppendLast
<1>5. \A q : Out(c, q) => Out(d, q) /\ q # p
  <2> SUFFICES ASSUME NEW q, Out(c, q) PROVE Out(d, q) /\ q # p
    OBVIOUS
  <2>1. PICK i \in 1..Len(c.puts) : c.puts[i].put = q /\ c.puts[i].sent
    BY DEF Out
  <2>2. i \in 1..Len(d.puts) /\ d.puts[i] = c.puts[i]
    BY <1>1, <1>4, <2>1
  <2> QED BY <1>3, <2>1, <2>2 DEF Out
<1>6. CASE c.state # "connected"
  <2>1. d.up = c.up
    BY <1>6 DEF Sends, GoesOut
  <2>2. Wire(d, dn, ap)
    BY <1>5, <2>1 DEF Conn, Wire
  <2>3. Link(d, dn, sv)
    BY <2>1 DEF Conn, Link, SameConn
  <2>4. Unacked(d, dn)
    BY <2>1 DEF Conn, Unacked, SameConn
  <2>5. Repeats(d, ap, br)
    <3>1. ASSUME NEW w \in Writes
          PROVE  /\ ap[w] \in 0..br+1
                 /\ d.result[w] = "none" => ap[w] = 0
                 /\ Due(d, w) => ap[w] <= br
      <4>1. /\ ap[w] \in 0..br+1
            /\ c.result[w] = "none" => ap[w] = 0
            /\ Due(c, w) => ap[w] <= br
        BY DEF Conn, Repeats
      <4>2. w \in Ops
        BY DEF Ops
      <4>3. ASSUME Due(d, w) PROVE ap[w] <= br
        <5>1. PICK i \in 1..Len(d.puts) : d.puts[i].put = WritePut(w)
          BY <4>3 DEF Due
        <5>2. CASE i \in 1..Len(c.puts)
          <6>1. Due(c, w)
            BY <1>4, <1>6, <5>1, <5>2 DEF Due
          <6> QED BY <4>1, <6>1
        <5>3. CASE i = Len(c.puts) + 1
          <6>1. p = WritePut(w)
            BY <1>2, <1>4, <5>1, <5>3
          <6>2. ap[w] = 0
            BY <1>3, <6>1, WritePutType DEF Unapplied
          <6> QED BY <6>2
        <5> QED BY <1>1, <1>4, <5>1, <5>2, <5>3
      <4> QED BY <4>1, <4>2, <4>3
    <3> QED BY <3>1 DEF Conn, Repeats
  <2> QED BY <2>2, <2>3, <2>4, <2>5 DEF Conn
<1>7. CASE c.state = "connected"
  <2> DEFINE m == PutMessage(p)
  <2>1. m \in UpMessages /\ IsPut(m) /\ m.put = p /\ ~IsAuth(m) /\ ~IsListen(m)
    BY UpMessageIs
  <2>2. d.up = Append(c.up, m)
    BY <1>7 DEF Sends, GoesOut
  <2> HIDE DEF m
  <2>3. /\ Len(d.up) = Len(c.up) + 1
        /\ \A i \in 1..Len(c.up) : d.up[i] = c.up[i]
        /\ d.up[Len(c.up) + 1] = m
    BY <1>1, <2>1, <2>2, AppendLast
  <2>4. \A i \in 1..Len(d.up) : i \in 1..Len(c.up) \/ i = Len(c.up) + 1
    BY <1>1, <2>3
  <2>5. Out(d, p)
    <3>1. Len(c.puts) + 1 \in 1..Len(d.puts)
      BY <1>1, <1>4
    <3> QED BY <1>2, <1>4, <1>7, <3>1 DEF Out
  <2>6. Wire(d, dn, ap)
    <3>1. \A i \in 1..Len(d.up) : IsPut(d.up[i]) =>
            /\ Out(d, d.up[i].put)
            /\ d.up[i].put.hashed => Unapplied(d.up[i].put, ap)
      BY <1>3, <1>5, <2>1, <2>3, <2>4, <2>5 DEF Conn, Wire
    <3>2. ASSUME NEW i \in 1..Len(d.up), NEW j \in 1..Len(d.up),
                 IsPut(d.up[i]), IsPut(d.up[j]), d.up[i].put = d.up[j].put
          PROVE  i = j
      <4>1. \A k \in 1..Len(c.up) : IsPut(c.up[k]) => c.up[k].put # p
        BY <1>5 DEF Conn, Wire
      <4>2. CASE i \in 1..Len(c.up) /\ j \in 1..Len(c.up)
        BY <2>3, <3>2, <4>2 DEF Conn, Wire
      <4>3. CASE i \in 1..Len(c.up) /\ j = Len(c.up) + 1
        BY <2>1, <2>3, <3>2, <4>1, <4>3
      <4>4. CASE i = Len(c.up) + 1 /\ j \in 1..Len(c.up)
        BY <2>1, <2>3, <3>2, <4>1, <4>4
      <4> QED BY <2>4, <4>2, <4>3, <4>4
    <3>3. \A i \in 1..Len(dn) : IsPutReply(dn[i]) =>
            Out(d, dn[i].to.put) /\ Honest(dn[i].to.put, dn[i].status, ap) /\ dn[i].to.put # p
      BY <1>5 DEF Conn, Wire
    <3>4. ASSUME NEW i \in 1..Len(d.up), NEW j \in 1..Len(dn),
                 IsPut(d.up[i]), IsPutReply(dn[j])
          PROVE  d.up[i].put # dn[j].to.put
      <4>1. CASE i \in 1..Len(c.up)
        BY <2>3, <3>4, <4>1 DEF Conn, Wire
      <4>2. CASE i = Len(c.up) + 1
        BY <2>1, <2>3, <3>3, <3>4, <4>2
      <4> QED BY <2>4, <4>1, <4>2
    <3> QED BY <3>1, <3>2, <3>3, <3>4 DEF Conn, Wire
  <2>7. Link(d, dn, sv)
    <3>1. d.state = "connected"
      BY <1>7 DEF SameConn
    <3>2. \A i \in 1..Len(dn) : ~IsAuthReply(dn[i])
      BY <1>7 DEF Conn, Link
    <3>3. \A i \in 1..Len(d.up) : ~IsAuth(d.up[i])
      BY <1>7, <2>1, <2>3, <2>4 DEF Conn, Link
    <3> QED BY <3>1, <3>2, <3>3 DEF Link
  <2>8. Unacked(d, dn)
    <3>1. m \notin ListensUp
      BY <2>1 DEF ListensUp
    <3>2. Number(c.up, ListensUp) \in Nat
      BY <1>1, NumberNat
    <3>3. Number(d.up, ListensUp) = Number(c.up, ListensUp)
      BY <1>1, <2>1, <2>2, <3>1, <3>2, NumberAppend
    <3> QED BY <3>3 DEF Conn, Unacked, SameConn
  <2>9. Repeats(d, ap, br)
    <3>1. ASSUME NEW w \in Writes
          PROVE  /\ ap[w] \in 0..br+1
                 /\ d.result[w] = "none" => ap[w] = 0
                 /\ Due(d, w) => ap[w] <= br
      <4>1. /\ ap[w] \in 0..br+1
            /\ c.result[w] = "none" => ap[w] = 0
            /\ Due(c, w) => ap[w] <= br
        BY DEF Conn, Repeats
      <4>2. w \in Ops
        BY DEF Ops
      <4>3. ASSUME Due(d, w), ap[w] # 0 PROVE ap[w] <= br
        <5>1. p # WritePut(w)
          BY <1>3, <4>3, WritePutType DEF Unapplied
        <5>2. d.state = "connected"
          BY <1>7 DEF SameConn
        <5>3. PICK i \in 1..Len(d.up) : d.up[i] = PutMessage(WritePut(w))
          BY <4>3, <5>2 DEF Due
        <5>4. d.up[i] # m
          BY <2>1, <5>1, <5>3 DEF PutMessage
        <5>5. i \in 1..Len(c.up) /\ c.up[i] = PutMessage(WritePut(w))
          BY <2>3, <2>4, <5>3, <5>4
        <5>6. PICK k \in 1..Len(d.puts) : d.puts[k].put = WritePut(w)
          BY <4>3 DEF Due
        <5>7. k \in 1..Len(c.puts) /\ c.puts[k].put = WritePut(w)
          BY <1>1, <1>2, <1>4, <5>1, <5>6
        <5>8. Due(c, w)
          BY <5>5, <5>7 DEF Due
        <5> QED BY <4>1, <5>8
      <4> QED BY <4>1, <4>2, <4>3
    <3> QED BY <3>1 DEF Conn, Repeats
  <2> QED BY <2>6, <2>7, <2>8, <2>9 DEF Conn
<1> QED BY <1>6, <1>7

(***************************************************************************)
(* Passing on an answer keeps it.                                          *)
(***************************************************************************)
LEMMA FollowsConn ==
    ASSUME NEW c \in Clients, NEW d \in Clients, NEW dn, NEW sv, NEW ap, NEW br \in Nat,
           Conn(c, dn, sv, ap, br), NEW x, Follows(c, d, c.puts, d.puts, x, ap)
    PROVE  Conn(d, dn, sv, ap, br)
<1>1. SameConn(c, d) /\ \A o \in Ops : c.result[o] # "none" => d.result[o] # "none"
  BY DEF Follows
<1>2. CASE d.puts = c.puts /\ d.up = c.up
  BY <1>1, <1>2, SameMessages
<1>3. CASE \E p \in Puts : Sends(c, d, c.puts, d.puts, p, x, ap)
  BY <1>1, <1>3, SendsConn
<1> QED BY <1>2, <1>3 DEF Follows

(***************************************************************************)
(* The outstanding puts after an answer has been passed on.                *)
(***************************************************************************)
LEMMA FollowsPuts ==
    ASSUME NEW c, NEW d, NEW Q, NEW x, NEW ap, Follows(c, d, c.puts, Q, x, ap)
    PROVE  Q = d.puts
<1>1. CASE d.puts = c.puts /\ d.up = c.up /\ Q = c.puts
  BY <1>1
<1>2. ASSUME NEW p \in Puts, Sends(c, d, c.puts, Q, p, x, ap) PROVE Q = d.puts
  BY <1>2 DEF Sends, GoesOut
<1> QED BY <1>1, <1>2 DEF Follows

(***************************************************************************)
(* Telling the truth twice is telling the truth.                           *)
(***************************************************************************)
LEMMA SpokenTwice ==
    ASSUME NEW c, NEW d, NEW e, NEW ap, Spoken(c, d, ap), Spoken(d, e, ap)
    PROVE  Spoken(c, e, ap)
<1> SUFFICES ASSUME NEW o \in Ops
             PROVE  \/ e.result[o] = c.result[o]
                    \/ c.result[o] = "pending" /\ Truth(o, e.result[o], ap)
  BY DEF Spoken
<1>1. /\ \/ d.result[o] = c.result[o]
         \/ c.result[o] = "pending" /\ Truth(o, d.result[o], ap)
      /\ \/ e.result[o] = d.result[o]
         \/ d.result[o] = "pending" /\ Truth(o, e.result[o], ap)
  BY DEF Spoken
<1>2. Truth(o, d.result[o], ap) => d.result[o] # "pending"
  BY DEF Truth
<1> QED BY <1>1, <1>2

\* What holds after k of the answers a have been passed on.
Passed(c, e, a, k, dn, sv, ap, br) ==
    /\ Sound(e, e.puts, a, k+1..Len(a), ap)
    /\ Conn(e, dn, sv, ap, br)
    /\ SameConn(c, e) /\ Spoken(c, e, ap)

(***************************************************************************)
(* Passing on the answers one after the other, as ackPuts does, keeps the  *)
(* calls accounted for and the connection as it should be: what one answer *)
(* sends does not disturb the next.                                        *)
(***************************************************************************)
LEMMA AllPassed ==
    ASSUME NEW c, NEW a \in Seq(AckOf), NEW dn, NEW sv, NEW ap, NEW br \in Nat,
           Sound(c, c.puts, a, 1..Len(a), ap), Conn(c, dn, sv, ap, br)
    PROVE  Passed(c, AllAnswered(c, a), a, Len(a), dn, sv, ap, br)
<1>0. Len(a) \in Nat
  OBVIOUS
<1>1. PICK f : Chain(f, c, a, Len(a)) /\ AllAnswered(c, a) = f[Len(a)]
  BY AllAnsweredChain
<1> DEFINE Y == {n \in Nat : n <= Len(a) => Passed(c, f[n], a, n, dn, sv, ap, br)}
<1>2. 0 \in Y
  <2>1. f[0] = c
    BY <1>0, <1>1, ChainStep
  <2>2. SameConn(c, c) /\ Spoken(c, c, ap)
    BY DEF SameConn, Spoken
  <2>3. 0 + 1 = 1
    OBVIOUS
  <2> QED BY <2>1, <2>2, <2>3 DEF Passed
<1>3. ASSUME NEW n \in Nat, n \in Y PROVE n + 1 \in Y
  <2> SUFFICES ASSUME n + 1 <= Len(a) PROVE Passed(c, f[n + 1], a, n + 1, dn, sv, ap, br)
    OBVIOUS
  <2> DEFINE e == f[n]
             d == f[n + 1]
             K == n+1..Len(a)
             j == n + 1
  <2>1. Passed(c, e, a, n, dn, sv, ap, br)
    BY <1>0, <1>3
  <2>2. d = putAnswered(e, a[j].put, a[j].status)
    <3>1. n + 1 \in 1..Len(a)
      BY <1>0
    <3>2. f[n + 1] = putAnswered(f[n + 1 - 1], a[n + 1].put, a[n + 1].status)
      BY <1>1, <3>1, ChainStep
    <3>3. n + 1 - 1 = n
      OBVIOUS
    <3> QED BY <3>2, <3>3
  <2>3. j \in K /\ K \in SUBSET (1..Len(a)) /\ K \ {j} = n+1+1..Len(a)
    BY <1>0
  <2> HIDE DEF e, d, K, j
  <2>4. Sound(e, e.puts, a, K, ap) /\ Conn(e, dn, sv, ap, br)
        /\ SameConn(c, e) /\ Spoken(c, e, ap)
    BY <2>1 DEF Passed, K
  <2>5. /\ \E Q : Sound(d, Q, a, K \ {j}, ap) /\ Follows(e, d, e.puts, Q, a[j], ap)
        /\ Spoken(e, d, ap)
    BY <2>2, <2>3, <2>4, Answered
  <2>6. PICK Q : Sound(d, Q, a, K \ {j}, ap) /\ Follows(e, d, e.puts, Q, a[j], ap)
    BY <2>5
  <2>7. Q = d.puts
    BY <2>6, FollowsPuts
  <2>8. e \in Clients /\ d \in Clients
    BY <2>4, <2>6 DEF Sound
  <2>9. Conn(d, dn, sv, ap, br)
    BY <2>4, <2>6, <2>7, <2>8, FollowsConn
  <2>10. SameConn(c, d)
    BY <2>4, <2>6 DEF Follows, SameConn
  <2>11. Spoken(c, d, ap)
    BY <2>4, <2>5, SpokenTwice
  <2> QED BY <2>3, <2>6, <2>7, <2>9, <2>10, <2>11 DEF Passed, d, j
<1> HIDE DEF Y
<1>4. \A n \in Nat : n \in Y
  BY <1>2, <1>3, NatInduct
<1> QED BY <1>0, <1>1, <1>4 DEF Y

-----------------------------------------------------------------------------
(***************************************************************************)
(* Only of a sequence with one more element.                               *)
(***************************************************************************)
LEMMA OnlyAppend ==
    ASSUME NEW S, NEW s \in Seq(S), NEW x \in S, NEW X
    PROVE  Only(Append(s, x), X) = IF x \in X THEN Append(Only(s, X), x) ELSE Only(s, X)
<1> DEFINE u == Append(s, x)
<1>1. /\ u \in Seq(S) /\ Len(u) = Len(s) + 1 /\ Len(s) \in Nat
      /\ \A i \in 1..Len(s) : u[i] = s[i]
      /\ u[Len(s) + 1] = x
  BY AppendLast
<1> HIDE DEF u
<1>2. PICK f : Keeps(f, s, X, Len(s)) /\ Only(s, X) = f[Len(s)]
  BY OnlyKeeps
<1>3. PICK g : Keeps(g, u, X, Len(u)) /\ Only(u, X) = g[Len(u)]
  BY <1>1, OnlyKeeps
<1> DEFINE Z == {n \in Nat : n <= Len(s) => f[n] = g[n]}
<1>4. 0 \in Z
  BY <1>1, <1>2, <1>3, KeepsStep
<1>5. ASSUME NEW n \in Nat, n \in Z PROVE n + 1 \in Z
  <2> SUFFICES ASSUME n + 1 <= Len(s) PROVE f[n + 1] = g[n + 1]
    OBVIOUS
  <2>1. f[n] = g[n]
    BY <1>1, <1>5
  <2>2. f[n + 1] = IF s[n + 1] \in X THEN Append(f[n], s[n + 1]) ELSE f[n]
    BY <1>1, <1>2, KeepsStep
  <2>3. g[n + 1] = IF u[n + 1] \in X THEN Append(g[n], u[n + 1]) ELSE g[n]
    BY <1>1, <1>3, KeepsStep
  <2>4. u[n + 1] = s[n + 1]
    BY <1>1
  <2> QED BY <2>1, <2>2, <2>3, <2>4
<1> HIDE DEF Z
<1>6. \A n \in Nat : n \in Z
  BY <1>4, <1>5, NatInduct
<1>7. f[Len(s)] = g[Len(s)]
  BY <1>1, <1>6 DEF Z
<1>8. g[Len(s) + 1] = IF u[Len(s) + 1] \in X THEN Append(g[Len(s)], u[Len(s) + 1]) ELSE g[Len(s)]
  BY <1>1, <1>3, KeepsStep
<1> QED BY <1>1, <1>2, <1>3, <1>7, <1>8 DEF u

\* The outstanding puts without put x.
Removed(P, x) == Only(P, {o \in ToSet(P) : o.put # x})

\* Q is what is left of P without the put x.
Thinned(Q, P, x) ==
    /\ \A i \in 1..Len(Q) : \E k \in 1..Len(P) : Q[i] = P[k] /\ P[k].put # x
    /\ \A k \in 1..Len(P) : P[k].put # x => \E i \in 1..Len(Q) : Q[i] = P[k]
    /\ \A i, j \in 1..Len(Q) :
         i # j => \E k, l \in 1..Len(P) : k # l /\ Q[i] = P[k] /\ Q[j] = P[l]

(***************************************************************************)
(* Forgetting a put leaves the others.                                     *)
(***************************************************************************)
LEMMA RemovedFacts ==
    ASSUME NEW P \in Seq(Outstanding), NEW x
    PROVE  Removed(P, x) \in Seq(Outstanding) /\ Thinned(Removed(P, x), P, x)
<1> DEFINE X == {o \in ToSet(P) : o.put # x}
           Q == Removed(P, x)
<1>1. Q \in Seq(Outstanding) /\ Embedded(Q, P, X, Len(P))
  BY OnlyEmbedded DEF Removed
<1>2. \A k \in 1..Len(P) : P[k] \in X <=> P[k].put # x
  BY DEF ToSet
<1> HIDE DEF X, Q
<1>3. \A i \in 1..Len(Q) : \E k \in 1..Len(P) : Q[i] = P[k] /\ P[k].put # x
  BY <1>1, <1>2 DEF Embedded
<1>4. \A k \in 1..Len(P) : P[k].put # x => \E i \in 1..Len(Q) : Q[i] = P[k]
  BY <1>1, <1>2 DEF Embedded
<1>5. ASSUME NEW i \in 1..Len(Q), NEW j \in 1..Len(Q), i # j
      PROVE  \E k, l \in 1..Len(P) : k # l /\ Q[i] = P[k] /\ Q[j] = P[l]
  <2>1. CASE i < j
    <3>1. PICK k \in 1..Len(P), l \in 1..Len(P) : k < l /\ P[k] = Q[i] /\ P[l] = Q[j]
      BY <1>1, <2>1 DEF Embedded
    <3> QED BY <3>1
  <2>2. CASE j < i
    <3>1. PICK l \in 1..Len(P), k \in 1..Len(P) : l < k /\ P[l] = Q[j] /\ P[k] = Q[i]
      BY <1>1, <2>2 DEF Embedded
    <3> QED BY <3>1
  <2> QED BY <1>1, <1>5, <2>1, <2>2
<1> QED BY <1>1, <1>3, <1>4, <1>5 DEF Thinned, Q

\* The step from c to d leaves the calls and the queue alone.
SameQueue(c, d) ==
    /\ d.queue = c.queue /\ d.status = c.status /\ d.tries = c.tries
    /\ d.output = c.output /\ d.result = c.result /\ d.reread = c.reread

(***************************************************************************)
(* Then the same puts stand for calls.                                     *)
(***************************************************************************)
LEMMA SameStands ==
    ASSUME NEW c, NEW d, SameQueue(c, d)
    PROVE  /\ \A p : Stands(c, p) => Stands(d, p)
           /\ Queued(c) => Queued(d)
           /\ \A P, a, K : Standing(c, P, a, K) => Standing(d, P, a, K)
<1>1. \A p : Stands(c, p) => Stands(d, p)
  BY DEF Stands, WriteFor, TxnFor, SameQueue
<1>2. Queued(c) => Queued(d)
  BY DEF Queued, SameQueue
<1>3. d.queue = c.queue
  BY DEF SameQueue
<1> QED BY <1>1, <1>2, <1>3 DEF Standing

(***************************************************************************)
(* And the calls stay accounted for.                                       *)
(***************************************************************************)
LEMMA SoundSame ==
    ASSUME NEW c, NEW d \in Clients, NEW P, NEW a, NEW K, NEW ap, Sound(c, P, a, K, ap),
           SameQueue(c, d), d.state # "connected" => c.state # "connected"
    PROVE  Sound(d, P, a, K, ap)
<1>1. Queued(d) /\ Standing(d, P, a, K)
  BY SameStands DEF Sound
<1>2. Applied(d, P, a, K, ap)
  BY DEF Sound, Applied, SameQueue
<1> QED BY <1>1, <1>2 DEF Sound

\* b is a with the answer s to put x added.
Added(b, a, x, s) ==
    /\ Len(b) = Len(a) + 1
    /\ \A i \in 1..Len(a) : b[i] = a[i]
    /\ b[Len(b)].put = x /\ b[Len(b)].status = s

(***************************************************************************)
(* A put that is outstanding becomes one whose answer is to be passed on.  *)
(***************************************************************************)
LEMMA Moved ==
    ASSUME NEW c, NEW P \in Seq(Outstanding), NEW a \in Seq(AckOf),
           Standing(c, P, a, 1..Len(a)), NEW i0 \in 1..Len(P), NEW x, x = P[i0].put,
           NEW s \in Statuses, NEW b, b = Append(a, [put |-> x, status |-> s])
    PROVE  b \in Seq(AckOf) /\ Added(b, a, x, s) /\ Standing(c, Removed(P, x), b, 1..Len(b))
<1> DEFINE y == [put |-> x, status |-> s]
           Q == Removed(P, x)
<1>1. y \in AckOf /\ y.put = x /\ y.status = s
  <2>1. P[i0] \in Outstanding
    OBVIOUS
  <2> QED BY <2>1 DEF AckOf, Outstanding
<1>2. /\ b \in Seq(AckOf) /\ Len(b) = Len(a) + 1 /\ Len(a) \in Nat
      /\ \A i \in 1..Len(a) : b[i] = a[i]
      /\ b[Len(a) + 1] = y
  <2>1. b = Append(a, y)
    OBVIOUS
  <2> HIDE DEF y
  <2> QED BY <1>1, <2>1, AppendLast
<1>3a. Q \in Seq(Outstanding) /\ Thinned(Q, P, x)
  BY RemovedFacts
<1> HIDE DEF Q, y
<1>3. /\ \A i \in 1..Len(Q) : \E k \in 1..Len(P) : Q[i] = P[k] /\ P[k].put # x
      /\ \A k \in 1..Len(P) : P[k].put # x => \E i \in 1..Len(Q) : Q[i] = P[k]
  BY <1>3a DEF Thinned
<1>4. \A i \in 1..Len(b) : i \in 1..Len(a) \/ i = Len(a) + 1
  BY <1>2
<1>5. \A i \in 1..Len(Q) : Stands(c, Q[i].put)
  BY <1>3 DEF Standing
<1>6. \A i \in 1..Len(b) : Stands(c, b[i].put)
  BY <1>1, <1>2, <1>4 DEF Standing
<1>7. ASSUME NEW i \in 1..Len(Q), NEW j \in 1..Len(Q), i # j PROVE Apart(Q[i].put, Q[j].put)
  <2>1. PICK k \in 1..Len(P), l \in 1..Len(P) : k # l /\ Q[i] = P[k] /\ Q[j] = P[l]
    BY <1>3a, <1>7 DEF Thinned
  <2> QED BY <2>1 DEF Standing
<1>8. ASSUME NEW i \in 1..Len(b), NEW j \in 1..Len(b), i # j PROVE Apart(b[i].put, b[j].put)
  <2>1. CASE i \in 1..Len(a) /\ j \in 1..Len(a)
    BY <1>2, <1>8, <2>1 DEF Standing
  <2>2. CASE i \in 1..Len(a) /\ j = Len(a) + 1
    BY <1>1, <1>2, <2>2 DEF Standing, Apart
  <2>3. CASE i = Len(a) + 1 /\ j \in 1..Len(a)
    BY <1>1, <1>2, <2>3 DEF Standing, Apart
  <2> QED BY <1>4, <1>8, <2>1, <2>2, <2>3
<1>9. ASSUME NEW i \in 1..Len(Q), NEW j \in 1..Len(b) PROVE Apart(Q[i].put, b[j].put)
  <2>1. PICK k \in 1..Len(P) : Q[i] = P[k] /\ P[k].put # x
    BY <1>3
  <2>2. CASE j \in 1..Len(a)
    BY <1>2, <2>1, <2>2 DEF Standing
  <2>3. CASE j = Len(a) + 1
    <3>1. k # i0
      BY <2>1
    <3> QED BY <1>1, <1>2, <2>1, <2>3, <3>1 DEF Standing
  <2> QED BY <1>4, <2>2, <2>3
<1>10. ASSUME c.queue # <<>>
       PROVE  \/ \E i \in 1..Len(Q) : Q[i].put.hashed
              \/ \E i \in 1..Len(b) : b[i].put.hashed
  <2>1. CASE \E i \in 1..Len(a) : a[i].put.hashed
    BY <1>2, <2>1
  <2>2. CASE \E k \in 1..Len(P) : P[k].put.hashed
    <3>1. PICK k \in 1..Len(P) : P[k].put.hashed
      BY <2>2
    <3>2. CASE P[k].put = x
      BY <1>1, <1>2, <3>1, <3>2
    <3>3. CASE P[k].put # x
      BY <1>3, <3>1, <3>3
    <3> QED BY <3>2, <3>3
  <2> QED BY <1>10, <2>1, <2>2 DEF Standing
<1>11. Standing(c, Q, b, 1..Len(b))
  BY <1>5, <1>6, <1>7, <1>8, <1>9, <1>10 DEF Standing
<1>12. Added(b, a, x, s)
  BY <1>1, <1>2 DEF Added
<1> QED BY <1>2, <1>11, <1>12 DEF Q

(***************************************************************************)
(* The calls are accounted for by the answers in K only.                   *)
(***************************************************************************)
LEMMA SoundWithin ==
    ASSUME NEW c, NEW P, NEW a, NEW b, NEW K, NEW ap, Sound(c, P, b, K, ap),
           \A i \in K : b[i] = a[i]
    PROVE  Sound(c, P, a, K, ap)
<1>1. Standing(c, P, a, K)
  BY DEF Sound, Standing
<1>2. Applied(c, P, a, K, ap)
  BY DEF Sound, Applied
<1> QED BY <1>1, <1>2 DEF Sound

(***************************************************************************)
(* An answer that tells what has happened takes the place of the           *)
(* outstanding put.                                                        *)
(***************************************************************************)
LEMMA MovedSound ==
    ASSUME NEW c, NEW P, NEW a \in Seq(AckOf), NEW ap,
           Sound(c, P, a, 1..Len(a), ap), NEW i0 \in 1..Len(P), NEW x, x = P[i0].put,
           NEW s \in Statuses, NEW b, b = Append(a, [put |-> x, status |-> s]),
           Honest(x, s, ap)
    PROVE  Sound(c, Removed(P, x), b, 1..Len(b), ap)
<1>1. /\ P \in Seq(Outstanding) /\ c \in Clients /\ Queued(c)
      /\ Standing(c, P, a, 1..Len(a)) /\ Applied(c, P, a, 1..Len(a), ap)
  BY DEF Sound
<1>2a. b \in Seq(AckOf) /\ Added(b, a, x, s) /\ Standing(c, Removed(P, x), b, 1..Len(b))
  BY <1>1, Moved
<1>2. /\ Len(b) = Len(a) + 1 /\ Len(a) \in Nat
      /\ \A i \in 1..Len(a) : b[i] = a[i]
      /\ b[Len(b)].put = x /\ b[Len(b)].status = s
  BY <1>2a DEF Added
<1> DEFINE Q == Removed(P, x)
<1>3. Q \in Seq(Outstanding) /\ Thinned(Q, P, x)
  BY <1>1, RemovedFacts
<1> HIDE DEF Q
<1>4. Applied(c, Q, b, 1..Len(b), ap)
  <2>1. \A i \in 1..Len(b) : Honest(b[i].put, b[i].status, ap)
    <3> TAKE i \in 1..Len(b)
    <3>1. CASE i \in 1..Len(a)
      BY <1>1, <1>2, <3>1 DEF Applied
    <3>2. CASE i = Len(b)
      BY <1>2, <3>2
    <3> QED BY <1>2, <3>1, <3>2
  <2>2. \A i \in 1..Len(Q) :
            /\ Q[i].put.hashed /\ c.state # "connected" => ~Q[i].sent
            /\ Q[i].put.hashed /\ ~Q[i].sent => Unapplied(Q[i].put, ap)
    <3> TAKE i \in 1..Len(Q)
    <3>1. PICK k \in 1..Len(P) : Q[i] = P[k]
      BY <1>3 DEF Thinned
    <3> QED BY <1>1, <3>1 DEF Applied
  <2> QED BY <1>1, <2>1, <2>2 DEF Applied
<1> QED BY <1>1, <1>2a, <1>3, <1>4 DEF Sound, Q

(***************************************************************************)
(* Passing on none, or one, of the answers.                                *)
(***************************************************************************)
LEMMA OneAnswered ==
    ASSUME NEW c, NEW a, a \in Seq(AckOf)
    PROVE  /\ Len(a) = 0 => AllAnswered(c, a) = c
           /\ Len(a) = 1 => AllAnswered(c, a) = putAnswered(c, a[1].put, a[1].status)
<1>1. PICK f : Chain(f, c, a, Len(a)) /\ AllAnswered(c, a) = f[Len(a)]
  BY AllAnsweredChain
<1>2. f[0] = c
  BY <1>1, ChainStep
<1>3. ASSUME Len(a) = 1 PROVE f[1] = putAnswered(f[0], a[1].put, a[1].status)
  <2>1. 1 \in 1..Len(a) /\ 1 - 1 = 0
    BY <1>3
  <2>2. f[1] = putAnswered(f[1 - 1], a[1].put, a[1].status)
    BY <1>1, <2>1, ChainStep
  <2> QED BY <2>1, <2>2
<1> QED BY <1>1, <1>2, <1>3

-----------------------------------------------------------------------------
\* What a break leaves of the connection: nothing but what is listened to,
\* the cache and the answers held back.
Cut(c, d) ==
    /\ d.state = "disconnected" /\ d.unackedListens = 0 /\ d.up = <<>>
    /\ d.listens = c.listens /\ d.over = c.over /\ d.cache = c.cache
    /\ d.putsToAck = c.putsToAck /\ d.reread = c.reread

\* An outstanding put after a break: one that is sent again, or a new one.
Carried(c, o) ==
    \/ \E k \in 1..Len(c.puts) : o = c.puts[k] /\ ~(o.put.hashed /\ o.sent)
    \/ /\ ~o.sent
       /\ o.put.hashed => /\ o.put.hash = c.cache
                          /\ o.put.val = Len(o.put.ops) + Val(c.cache)

\* The puts that cancelSentTransactions gives up, and the answers it makes up
\* for them.
Cancelled(c) == Only(c.puts, {o \in ToSet(c.puts) : o.put.hashed /\ o.sent})
Apologies(s) == [i \in DOMAIN s |-> [put |-> s[i].put, status |-> "disconnect"]]

(***************************************************************************)
(* These are answers.                                                      *)
(***************************************************************************)
LEMMA ApologiesType ==
    ASSUME NEW s \in Seq(Outstanding)
    PROVE  /\ Apologies(s) \in Seq(AckOf) /\ Len(Apologies(s)) = Len(s)
           /\ \A i \in 1..Len(s) : Apologies(s)[i] = [put |-> s[i].put, status |-> "disconnect"]
<1> DEFINE g(i) == [put |-> s[i].put, status |-> "disconnect"]
<1>1. Len(s) \in Nat /\ DOMAIN s = 1..Len(s)
  OBVIOUS
<1>2. \A i \in 1..Len(s) : g(i) \in AckOf
  <2> TAKE i \in 1..Len(s)
  <2>1. s[i] \in Outstanding
    OBVIOUS
  <2> QED BY <2>1 DEF Outstanding, AckOf, Statuses
<1> HIDE DEF g
<1>3. Apologies(s) = [i \in 1..Len(s) |-> g(i)]
  BY <1>1 DEF Apologies, g
<1>4. [i \in 1..Len(s) |-> g(i)] \in Seq(AckOf)
  BY <1>1, <1>2
<1>5. Len([i \in 1..Len(s) |-> g(i)]) = Len(s)
  BY <1>1
<1> QED BY <1>3, <1>4, <1>5 DEF g

(***************************************************************************)
(* cancelSentTransactions, cut into these pieces.                          *)
(***************************************************************************)
LEMMA CancelIs ==
    ASSUME NEW c
    PROVE  cancelSentTransactions(c) =
            [AllAnswered(c, Apologies(Cancelled(c))) EXCEPT
                !.puts = Only(@, ToSet(@) \ ToSet(Cancelled(c)))]
BY DEF cancelSentTransactions, Apologies, Cancelled

(***************************************************************************)
(* A sequence without repetitions that has exactly the element x.          *)
(***************************************************************************)
LEMMA Single ==
    ASSUME NEW S, NEW s \in Seq(S), NEW x, Injective(s), ToSet(s) = {x}
    PROVE  Len(s) = 1 /\ s[1] = x
<1>1. Len(s) \in Nat /\ \A i \in 1..Len(s) : s[i] = x
  BY DEF ToSet
<1>2. PICK i \in 1..Len(s) : s[i] = x
  BY DEF ToSet
<1>3. 1 \in 1..Len(s) /\ Len(s) \in 1..Len(s)
  BY <1>1, <1>2
<1>4. Len(s) = 1
  BY <1>1, <1>3 DEF Injective
<1> QED BY <1>1, <1>3, <1>4

(***************************************************************************)
(* No put is outstanding twice.                                            *)
(***************************************************************************)
LEMMA PutsInjective ==
    ASSUME NEW c, NEW P, NEW a, NEW K, Standing(c, P, a, K)
    PROVE  Injective(P)
BY DEF Standing, Apart, Injective

\* The client once the connection's state has been dropped.
CutOff(e, Q) == [[e EXCEPT !.puts = Q] EXCEPT !.unackedListens = 0, !.up = <<>>]

(***************************************************************************)
(* What that changes.                                                      *)
(***************************************************************************)
LEMMA CutFields ==
    ASSUME NEW e \in Clients, NEW Q \in Seq(Outstanding), e.state = "disconnected",
           NEW d, d = CutOff(e, Q)
    PROVE  /\ d \in Clients /\ SameQueue(e, d) /\ Cut(e, d) /\ d.puts = Q
           /\ d.abort = e.abort
<1>1. <<>> \in Seq(UpMessages)
  OBVIOUS
<1> DEFINE e1 == [e EXCEPT !.puts = Q]
<1>2. /\ e1 \in Clients /\ SameQueue(e, e1) /\ e1.puts = Q /\ e1.state = "disconnected"
      /\ e1.listens = e.listens /\ e1.over = e.over /\ e1.cache = e.cache
      /\ e1.putsToAck = e.putsToAck /\ e1.abort = e.abort
  BY DEF Clients, SameQueue
<1>3. d = [e1 EXCEPT !.unackedListens = 0, !.up = <<>>]
  BY DEF CutOff
<1> HIDE DEF e1
<1>4. /\ d \in Clients /\ SameQueue(e1, d) /\ Cut(e1, d) /\ d.puts = e1.puts /\ d.abort = e1.abort
  <2>1. e1 \in Clients /\ e1.state = "disconnected"
    BY <1>2
  <2> DEFINE nil == <<>>
             none == 0
  <2>2. /\ nil \in Seq(UpMessages) /\ none \in Int
        /\ d = [e1 EXCEPT !.unackedListens = none, !.up = nil]
    BY <1>1, <1>3
  <2> HIDE DEF nil, none
  <2>3. d \in Clients
    BY <2>1, <2>2 DEF Clients
  <2>4. /\ SameQueue(e1, d) /\ d.puts = e1.puts /\ d.abort = e1.abort
        /\ d.unackedListens = none /\ d.up = nil /\ d.state = e1.state
        /\ d.listens = e1.listens /\ d.over = e1.over /\ d.cache = e1.cache
        /\ d.putsToAck = e1.putsToAck
    BY <2>1, <2>2 DEF Clients, SameQueue
  <2> QED BY <2>1, <2>3, <2>4 DEF SameQueue, Cut, nil, none
<1> QED BY <1>2, <1>4 DEF SameQueue, Cut

(***************************************************************************)
(* cancelSentTransactions if no transactions have been sent.               *)
(***************************************************************************)
LEMMA NoneCancelled ==
    ASSUME NEW c \in Clients, \A i \in 1..Len(c.puts) : ~(c.puts[i].put.hashed /\ c.puts[i].sent)
    PROVE  cancelSentTransactions(c) = [c EXCEPT !.puts = c.puts]
<1>1. c.puts \in Seq(Outstanding)
  BY DEF Clients
<1>2. Cancelled(c) \in Seq(Outstanding) /\ ToSet(Cancelled(c)) = {}
  <2> DEFINE X == {o \in ToSet(c.puts) : o.put.hashed /\ o.sent}
  <2>1. X = {}
    BY <1>1 DEF ToSet
  <2> HIDE DEF X
  <2>2. Only(c.puts, X) \in Seq(Outstanding) /\ ToSet(Only(c.puts, X)) = ToSet(c.puts) \cap X
    BY <1>1, OnlySet
  <2> QED BY <2>1, <2>2 DEF Cancelled, X
<1>3. Len(Cancelled(c)) = 0
  <2>1. Len(Cancelled(c)) \in Nat /\ \A i \in 1..Len(Cancelled(c)) : Cancelled(c)[i] \in ToSet(Cancelled(c))
    BY <1>2 DEF ToSet
  <2> QED BY <1>2, <2>1
<1>4. AllAnswered(c, Apologies(Cancelled(c))) = c
  BY <1>2, <1>3, ApologiesType, OneAnswered
<1>5. Only(c.puts, ToSet(c.puts) \ {}) = c.puts
  <2>1. \A i \in 1..Len(c.puts) : c.puts[i] \in ToSet(c.puts) \ {}
    BY <1>1 DEF ToSet
  <2> QED BY <1>1, <2>1, OnlyAll
<1> QED BY <1>2, <1>4, <1>5, CancelIs

(***************************************************************************)
(* cancelSentTransactions if there are some: they are in one put, and      *)
(* nothing else of transactions is outstanding.                            *)
(***************************************************************************)
LEMMA OneCancelled ==
    ASSUME NEW c \in Clients, NEW a, NEW K, Standing(c, c.puts, a, K),
           NEW i0 \in 1..Len(c.puts), c.puts[i0].put.hashed, c.puts[i0].sent
    PROVE  cancelSentTransactions(c) =
            [putAnswered(c, c.puts[i0].put, "disconnect") EXCEPT
                !.puts = Only(@, ToSet(@) \ {c.puts[i0]})]
<1>1. c.puts \in Seq(Outstanding)
  BY DEF Clients
<1> DEFINE X == {o \in ToSet(c.puts) : o.put.hashed /\ o.sent}
<1>2. X = {c.puts[i0]}
  <2>1. c.puts[i0] \in X
    BY <1>1 DEF ToSet
  <2>2. ASSUME NEW o \in X PROVE o = c.puts[i0]
    <3>1. PICK k \in 1..Len(c.puts) : o = c.puts[k]
      BY <1>1 DEF ToSet
    <3> QED BY <2>2, <3>1 DEF Standing, Apart
  <2> QED BY <2>1, <2>2
<1>3. X \subseteq ToSet(c.puts)
  OBVIOUS
<1>4. Cancelled(c) = Only(c.puts, X)
  BY DEF Cancelled
<1> HIDE DEF X
<1>5. Cancelled(c) \in Seq(Outstanding) /\ ToSet(Cancelled(c)) = {c.puts[i0]} /\ Injective(Cancelled(c))
  <2>1. Injective(c.puts)
    BY PutsInjective
  <2>2. /\ Only(c.puts, X) \in Seq(Outstanding)
        /\ ToSet(Only(c.puts, X)) = ToSet(c.puts) \cap X
        /\ Injective(Only(c.puts, X))
    BY <1>1, <2>1, OnlySet
  <2> QED BY <1>2, <1>3, <1>4, <2>2
<1>6. Len(Cancelled(c)) = 1 /\ Cancelled(c)[1] = c.puts[i0]
  BY <1>5, Single
<1> DEFINE b == Apologies(Cancelled(c))
<1>7. b \in Seq(AckOf) /\ Len(b) = 1 /\ b[1] = [put |-> c.puts[i0].put, status |-> "disconnect"]
  BY <1>5, <1>6, ApologiesType
<1> HIDE DEF b
<1>8. AllAnswered(c, b) = putAnswered(c, c.puts[i0].put, "disconnect")
  BY <1>7, OneAnswered
<1> QED BY <1>5, <1>8, CancelIs DEF b

(***************************************************************************)
(* A break while no transactions are on their way: what is outstanding     *)
(* stays, to be sent again.                                                *)
(***************************************************************************)
LEMMA DisconnectedNone ==
    ASSUME NEW c, NEW a \in Seq(AckOf), NEW ap, Sound(c, c.puts, a, 1..Len(a), ap),
           NEW d, d = Disconnected(c),
           \A i \in 1..Len(c.puts) : ~(c.puts[i].put.hashed /\ c.puts[i].sent)
    PROVE  /\ Sound(d, d.puts, a, 1..Len(a), ap) /\ Cut(c, d) /\ Spoken(c, d, ap)
           /\ \A i \in 1..Len(d.puts) : Carried(c, d.puts[i])
<1> DEFINE c0 == [c EXCEPT !.state = "disconnected"]
<1>1. c \in Clients /\ c.puts \in Seq(Outstanding)
  BY DEF Sound, Clients
<1>2. /\ c0 \in Clients /\ SameQueue(c, c0) /\ c0.puts = c.puts /\ c0.state = "disconnected"
      /\ c0.listens = c.listens /\ c0.over = c.over /\ c0.cache = c.cache
      /\ c0.putsToAck = c.putsToAck
  BY <1>1 DEF Clients, SameQueue, States
<1>3. d = [cancelSentTransactions(c0) EXCEPT !.unackedListens = 0, !.up = <<>>]
  BY DEF Disconnected
<1> HIDE DEF c0
<1>4. cancelSentTransactions(c0) = [c0 EXCEPT !.puts = c0.puts]
  BY <1>2, NoneCancelled
<1>5. d \in Clients /\ SameQueue(c0, d) /\ Cut(c0, d) /\ d.puts = c.puts
  <2>1. d = CutOff(c0, c.puts)
    BY <1>2, <1>3, <1>4 DEF CutOff
  <2> QED BY <1>1, <1>2, <2>1, CutFields
<1>6. SameQueue(c, d) /\ Cut(c, d)
  BY <1>2, <1>5 DEF SameQueue, Cut
<1>7. Sound(d, d.puts, a, 1..Len(a), ap)
  <2>1. Queued(d) /\ Standing(d, c.puts, a, 1..Len(a))
    BY <1>6, SameStands DEF Sound
  <2>2. Applied(d, c.puts, a, 1..Len(a), ap)
    BY <1>6 DEF Sound, Applied, SameQueue
  <2> QED BY <1>1, <1>5, <2>1, <2>2 DEF Sound
<1>8. Spoken(c, d, ap)
  BY <1>6 DEF Spoken, SameQueue
<1> QED BY <1>5, <1>6, <1>7, <1>8 DEF Carried

(***************************************************************************)
(* A break while transactions are on their way: they are answered that     *)
(* they may or may not have taken effect, and what waited behind them      *)
(* becomes a new put.                                                      *)
(***************************************************************************)
LEMMA DisconnectedOne ==
    ASSUME NEW c, NEW a \in Seq(AckOf), NEW ap, Sound(c, c.puts, a, 1..Len(a), ap),
           NEW d, d = Disconnected(c),
           NEW i0 \in 1..Len(c.puts), c.puts[i0].put.hashed, c.puts[i0].sent
    PROVE  /\ Sound(d, d.puts, a, 1..Len(a), ap) /\ Cut(c, d) /\ Spoken(c, d, ap)
           /\ \A i \in 1..Len(d.puts) : Carried(c, d.puts[i])
<1> DEFINE c0 == [c EXCEPT !.state = "disconnected"]
           x == c.puts[i0].put
           P == Removed(c.puts, x)
           b == Append(a, [put |-> x, status |-> "disconnect"])
           K == 1..Len(b)
           j == Len(b)
           e == putAnswered(c0, x, "disconnect")
           z == c.puts[i0]
<1>1. c \in Clients /\ c.puts \in Seq(Outstanding) /\ Standing(c, c.puts, a, 1..Len(a)) /\ Queued(c)
      /\ Applied(c, c.puts, a, 1..Len(a), ap)
  BY DEF Sound, Clients
<1>2. /\ c0 \in Clients /\ SameQueue(c, c0) /\ c0.puts = c.puts /\ c0.state = "disconnected"
      /\ c0.listens = c.listens /\ c0.over = c.over /\ c0.cache = c.cache
      /\ c0.putsToAck = c.putsToAck
  BY <1>1 DEF Clients, SameQueue, States
<1>3. d = [cancelSentTransactions(c0) EXCEPT !.unackedListens = 0, !.up = <<>>]
  BY DEF Disconnected
<1> HIDE DEF c0
<1>4. Queued(c0) /\ Standing(c0, c.puts, a, 1..Len(a))
  BY <1>1, <1>2, SameStands
<1>5. cancelSentTransactions(c0) = [e EXCEPT !.puts = Only(@, ToSet(@) \ {z})]
  <2>1. /\ Standing(c0, c0.puts, a, 1..Len(a)) /\ i0 \in 1..Len(c0.puts)
        /\ c0.puts[i0].put.hashed /\ c0.puts[i0].sent
    BY <1>2, <1>4
  <2>2. cancelSentTransactions(c0) =
            [putAnswered(c0, c0.puts[i0].put, "disconnect") EXCEPT
                !.puts = Only(@, ToSet(@) \ {c0.puts[i0]})]
    BY <1>2, <2>1, OneCancelled
  <2> QED BY <1>2, <2>2
<1> HIDE DEF x, e
<1>6. b \in Seq(AckOf) /\ Added(b, a, x, "disconnect") /\ Standing(c0, P, b, 1..Len(b))
  <2>1. "disconnect" \in Statuses
    BY DEF Statuses
  <2> QED BY <1>1, <1>4, <2>1, Moved DEF x
<1>7. P \in Seq(Outstanding) /\ Thinned(P, c.puts, x)
  BY <1>1, RemovedFacts
<1> HIDE DEF P, b
<1>8. /\ Len(b) = Len(a) + 1 /\ Len(a) \in Nat
      /\ \A i \in 1..Len(a) : b[i] = a[i]
      /\ b[j].put = x /\ b[j].status = "disconnect"
  BY <1>6 DEF Added
<1>9. \A i \in 1..Len(P) : ~P[i].put.hashed
  <2> TAKE i \in 1..Len(P)
  <2>1. PICK k \in 1..Len(c.puts) : P[i] = c.puts[k] /\ c.puts[k].put # x
    BY <1>7 DEF Thinned
  <2>2. k # i0
    BY <2>1 DEF x
  <2> QED BY <1>1, <2>1, <2>2 DEF Standing, Apart
<1>10. Sound(c0, P, b, K, ap)
  <2>1. Honest(x, "disconnect", ap)
    BY DEF Honest, x
  <2>2. \A i \in K : Honest(b[i].put, b[i].status, ap)
    BY <1>1, <1>8, <2>1 DEF Applied
  <2>3. \A t \in Txns : c0.status[t] \in {"initializing", "run"} => ap[t] = 0
    BY <1>1, <1>2 DEF Applied, SameQueue
  <2>4. Applied(c0, P, b, K, ap)
    BY <1>9, <2>2, <2>3 DEF Applied
  <2> QED BY <1>2, <1>4, <1>6, <1>7, <2>4 DEF Sound
<1>11. j \in K /\ K \in SUBSET (1..Len(b)) /\ K \ {j} = 1..Len(a)
  BY <1>8
<1> HIDE DEF K, j
<1>12. e = putAnswered(c0, b[j].put, b[j].status)
  BY <1>8 DEF e
<1>13. /\ \E Q : Sound(e, Q, b, K \ {j}, ap) /\ Follows(c0, e, P, Q, b[j], ap)
       /\ Spoken(c0, e, ap)
  BY <1>6, <1>10, <1>11, <1>12, Answered
<1>14. PICK Q : Sound(e, Q, b, K \ {j}, ap) /\ Follows(c0, e, P, Q, b[j], ap)
  BY <1>13
<1>15. Sound(e, Q, a, 1..Len(a), ap)
  BY <1>8, <1>11, <1>14, SoundWithin
<1>16. e \in Clients /\ Q \in Seq(Outstanding) /\ SameConn(c0, e)
  BY <1>14 DEF Sound, Follows
<1>17. Only(c.puts, ToSet(c.puts) \ {z}) = P
  <2>1. ASSUME NEW k \in 1..Len(c.puts)
        PROVE  c.puts[k] \in ToSet(c.puts) \ {z} <=> c.puts[k] \in {o \in ToSet(c.puts) : o.put # x}
    <3>1. c.puts[k] \in ToSet(c.puts)
      BY <1>1 DEF ToSet
    <3>2. c.puts[k] = z => c.puts[k].put = x
      BY DEF x
    <3>3. c.puts[k] # z => k # i0
      OBVIOUS
    <3>4. k # i0 => c.puts[k].put # x
      BY <1>1 DEF Standing, Apart, x
    <3> QED BY <3>1, <3>2, <3>3, <3>4
  <2> QED BY <1>1, <2>1, OnlySame DEF P, Removed
<1>18. Only(e.puts, ToSet(e.puts) \ {z}) = Q
  <2>1. CASE e.puts = c0.puts /\ e.up = c0.up /\ Q = P
    BY <1>2, <1>17, <2>1
  <2>2. ASSUME NEW p \in Puts, Sends(c0, e, P, Q, p, b[j], ap)
        PROVE  Only(e.puts, ToSet(e.puts) \ {z}) = Q
    <3> DEFINE y == [put |-> p, sent |-> c0.state = "connected"]
    <3>1. y \in Outstanding /\ ~y.sent
      BY <1>2 DEF Outstanding
    <3>2. e.puts = Append(c.puts, y) /\ Q = Append(P, y)
      BY <1>2, <2>2 DEF Sends, GoesOut
    <3>3. y # z
      BY <3>1
    <3> HIDE DEF y
    <3> DEFINE X == ToSet(e.puts) \ {z}
    <3>4. /\ Len(e.puts) = Len(c.puts) + 1 /\ Len(c.puts) \in Nat
          /\ \A i \in 1..Len(c.puts) : e.puts[i] = c.puts[i]
          /\ e.puts[Len(c.puts) + 1] = y
      BY <1>1, <3>1, <3>2, AppendLast
    <3>5. e.puts \in Seq(Outstanding)
      BY <1>1, <3>1, <3>2, AppendLast
    <3>6. y \in X
      <4>1. Len(c.puts) + 1 \in 1..Len(e.puts)
        BY <3>4
      <4> QED BY <3>3, <3>4, <3>5, <4>1 DEF ToSet
    <3>7. \A i \in 1..Len(c.puts) : c.puts[i] \in X <=> c.puts[i] \in ToSet(c.puts) \ {z}
      <4> TAKE i \in 1..Len(c.puts)
      <4>1. i \in 1..Len(e.puts)
        BY <3>4
      <4>2. c.puts[i] \in ToSet(e.puts) /\ c.puts[i] \in ToSet(c.puts)
        <5>1. c.puts[i] = e.puts[i]
          BY <3>4
        <5>2. DOMAIN e.puts = 1..Len(e.puts) /\ DOMAIN c.puts = 1..Len(c.puts)
          BY <1>1, <3>5
        <5> QED BY <4>1, <5>1, <5>2 DEF ToSet
      <4> QED BY <4>2
    <3> HIDE DEF X
    <3>8. Only(c.puts, X) = P
      BY <1>1, <1>17, <3>7, OnlySame
    <3>9. Only(Append(c.puts, y), X) = Append(Only(c.puts, X), y)
      BY <1>1, <3>1, <3>6, OnlyAppend
    <3> QED BY <3>2, <3>8, <3>9 DEF X
  <2> QED BY <1>14, <2>1, <2>2 DEF Follows
<1>19. d = CutOff(e, Q)
  BY <1>3, <1>5, <1>18 DEF CutOff
<1>20. d \in Clients /\ SameQueue(e, d) /\ Cut(e, d) /\ d.puts = Q
  <2>1. e.state = "disconnected"
    BY <1>2, <1>16 DEF SameConn
  <2> QED BY <1>16, <1>19, <2>1, CutFields
<1>21. Cut(c, d)
  BY <1>2, <1>16, <1>20 DEF Cut, SameConn, SameQueue
<1>22. Sound(d, d.puts, a, 1..Len(a), ap)
  <2>1. d.state # "connected" /\ e.state # "connected"
    BY <1>2, <1>16, <1>20 DEF Cut, SameConn
  <2> QED BY <1>15, <1>20, <2>1, SoundSame
<1>23. Spoken(c, d, ap)
  BY <1>2, <1>13, <1>20 DEF Spoken, SameQueue
<1>24. ASSUME NEW i \in 1..Len(Q) PROVE Carried(c, Q[i])
  <2>1. ASSUME NEW k \in 1..Len(P) PROVE Carried(c, P[k])
    <3>1. PICK l \in 1..Len(c.puts) : P[k] = c.puts[l]
      BY <1>7 DEF Thinned
    <3> QED BY <1>9, <3>1 DEF Carried
  <2>2. CASE Q = P
    BY <2>1, <2>2
  <2>3. ASSUME NEW p \in Puts, Sends(c0, e, P, Q, p, b[j], ap) PROVE Carried(c, Q[i])
    <3> DEFINE y == [put |-> p, sent |-> c0.state = "connected"]
    <3>1. y \in Outstanding /\ y.sent = FALSE /\ y.put = p
      BY <1>2 DEF Outstanding
    <3>2. Q = Append(P, y) /\ Made(c0, p, b[j])
      BY <1>2, <2>3 DEF Sends
    <3> HIDE DEF y
    <3>3. /\ Len(Q) = Len(P) + 1 /\ Len(P) \in Nat
          /\ \A k \in 1..Len(P) : Q[k] = P[k]
          /\ Q[Len(P) + 1] = y
      BY <1>7, <3>1, <3>2, AppendLast
    <3>4. CASE i \in 1..Len(P)
      BY <2>1, <3>3, <3>4
    <3>5. CASE i = Len(P) + 1
      BY <1>2, <1>8, <3>1, <3>2, <3>3, <3>5 DEF Made, Carried
    <3> QED BY <3>3, <3>4, <3>5
  <2> QED BY <1>14, <2>2, <2>3 DEF Follows
<1> QED BY <1>20, <1>21, <1>22, <1>23, <1>24

-----------------------------------------------------------------------------
(***************************************************************************)
(* What Tail does to each place of a sequence.                             *)
(***************************************************************************)
LEMMA TailFacts ==
    ASSUME NEW S, NEW s \in Seq(S), s # <<>>
    PROVE  /\ Tail(s) \in Seq(S) /\ Len(s) \in Nat /\ Len(s) # 0
           /\ Len(Tail(s)) = Len(s) - 1
           /\ \A i \in 1..Len(Tail(s)) : Tail(s)[i] = s[i + 1] /\ i + 1 \in 1..Len(s)
           /\ Head(s) = s[1] /\ 1 \in 1..Len(s) /\ s[1] \in S
OBVIOUS

\* The step from c to d leaves the messages alone.
SameWire(c, d) ==
    /\ d.state = c.state /\ d.unackedListens = c.unackedListens
    /\ d.puts = c.puts /\ d.up = c.up
    /\ \A o \in Ops : c.result[o] # "none" => d.result[o] # "none"

(***************************************************************************)
(* Then the connection is as it should be.                                 *)
(***************************************************************************)
LEMMA SameWireConn ==
    ASSUME NEW c, NEW d, NEW dn, NEW sv, NEW ap, NEW br \in Nat,
           Conn(c, dn, sv, ap, br), SameWire(c, d)
    PROVE  Conn(d, dn, sv, ap, br)
<1>1. Wire(d, dn, ap)
  BY DEF Conn, Wire, Out, SameWire
<1>2. Link(d, dn, sv)
  BY DEF Conn, Link, SameWire
<1>3. Unacked(d, dn)
  BY DEF Conn, Unacked, SameWire
<1>4. Repeats(d, ap, br)
  <2>1. \A w \in Writes : Due(d, w) => Due(c, w)
    BY DEF Due, SameWire
  <2>2. \A w \in Writes : d.result[w] = "none" => c.result[w] = "none"
    BY DEF SameWire, Ops
  <2> QED BY <2>1, <2>2 DEF Conn, Repeats
<1> QED BY <1>1, <1>2, <1>3, <1>4 DEF Conn

(***************************************************************************)
(* So it is when a listen or an unlisten has been sent.                    *)
(***************************************************************************)
LEMMA SentConn ==
    ASSUME NEW c \in Clients, NEW d, NEW dn \in Seq(DownMessages), NEW sv, NEW ap,
           NEW br \in Nat, Conn(c, dn, sv, ap, br), NEW m \in UpMessages, ~IsPut(m), ~IsAuth(m),
           c.state \in {"authenticating", "connected"},
           d.state = c.state, d.puts = c.puts, d.result = c.result,
           d.up = Append(c.up, m),
           d.unackedListens = c.unackedListens + IF IsListen(m) THEN 1 ELSE 0
    PROVE  Conn(d, dn, sv, ap, br)
<1>1. /\ c.up \in Seq(UpMessages) /\ Len(c.up) \in Nat /\ c.unackedListens \in Int
  BY DEF Clients
<1>2. /\ Len(d.up) = Len(c.up) + 1
      /\ \A i \in 1..Len(c.up) : d.up[i] = c.up[i]
      /\ d.up[Len(c.up) + 1] = m
  BY <1>1, AppendLast
<1>3. \A i \in 1..Len(d.up) : i \in 1..Len(c.up) \/ i = Len(c.up) + 1
  BY <1>1, <1>2
<1>4. \A i \in 1..Len(d.up) : IsPut(d.up[i]) => i \in 1..Len(c.up) /\ d.up[i] = c.up[i]
  BY <1>2, <1>3
<1>5. \A q : Out(c, q) => Out(d, q)
  BY DEF Out
<1>6. Wire(d, dn, ap)
  <2>1. \A i \in 1..Len(d.up) : IsPut(d.up[i]) =>
            /\ Out(d, d.up[i].put)
            /\ d.up[i].put.hashed => Unapplied(d.up[i].put, ap)
    BY <1>4, <1>5 DEF Conn, Wire
  <2>2. \A i, j \in 1..Len(d.up) :
            IsPut(d.up[i]) /\ IsPut(d.up[j]) /\ d.up[i].put = d.up[j].put => i = j
    BY <1>4 DEF Conn, Wire
  <2>3. \A i \in 1..Len(d.up), j \in 1..Len(dn) :
            IsPut(d.up[i]) /\ IsPutReply(dn[j]) => d.up[i].put # dn[j].to.put
    BY <1>4 DEF Conn, Wire
  <2> QED BY <1>5, <2>1, <2>2, <2>3 DEF Conn, Wire
<1>7. Link(d, dn, sv)
  <2>1. CASE c.state = "connected"
    <3>1. \A i \in 1..Len(d.up) : ~IsAuth(d.up[i])
      BY <1>2, <1>3, <2>1 DEF Conn, Link
    <3> QED BY <2>1, <3>1 DEF Conn, Link
  <2>2. CASE c.state = "authenticating"
    <3>1. \A i \in 1..Len(d.up) : ~IsPut(d.up[i])
      BY <1>4, <2>2 DEF Conn, Link
    <3>2. CASE /\ dn = <<>> /\ sv = {}
               /\ c.up # <<>> /\ IsAuth(c.up[1])
               /\ \A i \in 2..Len(c.up) : ~IsAuth(c.up[i])
      <4>1. Len(c.up) # 0
        BY <1>1, <3>2
      <4>2. d.up # <<>> /\ d.up[1] = c.up[1]
        BY <1>1, <1>2, <4>1
      <4>3. \A i \in 2..Len(d.up) : ~IsAuth(d.up[i])
        <5> TAKE i \in 2..Len(d.up)
        <5>1. CASE i \in 2..Len(c.up)
          BY <1>2, <3>2, <5>1
        <5>2. CASE i = Len(c.up) + 1
          BY <1>2, <5>2
        <5> QED BY <1>1, <1>2, <5>1, <5>2
      <4> QED BY <2>2, <3>1, <3>2, <4>2, <4>3 DEF Conn, Link
    <3>3. CASE /\ dn # <<>> /\ IsAuthReply(dn[1])
               /\ \A i \in 2..Len(dn) : ~IsAuthReply(dn[i])
               /\ \A i \in 1..Len(c.up) : ~IsAuth(c.up[i])
      <4>1. \A i \in 1..Len(d.up) : ~IsAuth(d.up[i])
        BY <1>2, <1>3, <3>3
      <4> QED BY <2>2, <3>1, <3>3, <4>1 DEF Conn, Link
    <3> QED BY <2>2, <3>2, <3>3 DEF Conn, Link
  <2> QED BY <2>1, <2>2
<1>8. Unacked(d, dn)
  <2>1. Number(d.up, ListensUp) = Number(c.up, ListensUp) + IF m \in ListensUp THEN 1 ELSE 0
    BY <1>1, NumberAppend
  <2>2. m \in ListensUp <=> IsListen(m)
    BY DEF ListensUp
  <2>3. Number(c.up, ListensUp) \in Nat
    BY <1>1, NumberNat
  <2>4. c.unackedListens = Number(c.up, ListensUp) + Number(dn, ListensDown)
    BY DEF Conn, Unacked
  <2>5. Number(dn, ListensDown) \in Nat
    BY NumberNat
  <2> QED BY <1>1, <2>1, <2>2, <2>3, <2>4, <2>5 DEF Unacked
<1>9. Repeats(d, ap, br)
  <2>1. ASSUME NEW w \in Writes, Due(d, w) PROVE Due(c, w)
    <3>1. \E i \in 1..Len(c.puts) : c.puts[i].put = WritePut(w)
      BY <2>1 DEF Due
    <3>2. CASE c.state # "connected"
      BY <3>1, <3>2 DEF Due
    <3>3. CASE c.state = "connected"
      <4>1. PICK i \in 1..Len(d.up) : d.up[i] = PutMessage(WritePut(w))
        BY <2>1, <3>3 DEF Due
      <4>2. IsPut(d.up[i])
        BY <4>1 DEF PutMessage, IsPut
      <4> QED BY <1>4, <3>1, <4>1, <4>2 DEF Due
    <3> QED BY <3>2, <3>3
  <2> QED BY <2>1 DEF Conn, Repeats
<1> QED BY <1>6, <1>7, <1>8, <1>9 DEF Conn

(***************************************************************************)
(* So it is when a message of the server, other than the answer to the     *)
(* authentication, has been taken, which only happens to a client that is  *)
(* connected.                                                              *)
(***************************************************************************)
LEMMA ReceivedConn ==
    ASSUME NEW c \in Clients, NEW dn \in Seq(DownMessages), dn # <<>>, NEW sv, NEW ap,
           NEW br \in Nat, Conn(c, dn, sv, ap, br), ~IsAuthReply(Head(dn)),
           NEW d, d.state = c.state, d.puts = c.puts, d.up = c.up, d.result = c.result,
           d.unackedListens = c.unackedListens - IF IsListenReply(Head(dn)) THEN 1 ELSE 0
    PROVE  Conn(d, Tail(dn), sv, ap, br) /\ c.state = "connected"
<1> DEFINE t == Tail(dn)
<1>1. /\ t \in Seq(DownMessages) /\ Len(dn) \in Nat /\ Len(dn) # 0
      /\ Len(t) = Len(dn) - 1
      /\ \A i \in 1..Len(t) : t[i] = dn[i + 1] /\ i + 1 \in 1..Len(dn)
      /\ Head(dn) = dn[1]
  BY TailFacts
<1> HIDE DEF t
<1>2. c.state = "connected"
  <2>1. c.state \in States
    BY DEF Clients
  <2> QED BY <1>1, <2>1 DEF Conn, Link, States
<1>3. \A q : Out(c, q) => Out(d, q)
  BY DEF Out
<1>4. Wire(d, t, ap)
  <2>1. \A i \in 1..Len(d.up) : IsPut(d.up[i]) =>
            /\ Out(d, d.up[i].put)
            /\ d.up[i].put.hashed => Unapplied(d.up[i].put, ap)
    BY <1>3 DEF Conn, Wire
  <2>2. \A i, j \in 1..Len(d.up) :
            IsPut(d.up[i]) /\ IsPut(d.up[j]) /\ d.up[i].put = d.up[j].put => i = j
    BY DEF Conn, Wire
  <2>3. ASSUME NEW i \in 1..Len(d.up), NEW j \in 1..Len(t), IsPut(d.up[i]), IsPutReply(t[j])
        PROVE  d.up[i].put # t[j].to.put
    <3>1. t[j] = dn[j + 1] /\ j + 1 \in 1..Len(dn)
      BY <1>1
    <3> QED BY <2>3, <3>1 DEF Conn, Wire
  <2>4. \A i \in 1..Len(t) : IsPutReply(t[i]) =>
            Out(d, t[i].to.put) /\ Honest(t[i].to.put, t[i].status, ap)
    BY <1>1, <1>3 DEF Conn, Wire
  <2>5. ASSUME NEW i \in 1..Len(t), NEW j \in 1..Len(t),
               IsPutReply(t[i]), IsPutReply(t[j]), t[i].to.put = t[j].to.put
        PROVE  i = j
    <3>1. /\ i + 1 \in 1..Len(dn) /\ j + 1 \in 1..Len(dn) /\ i \in Int /\ j \in Int
          /\ t[i] = dn[i + 1] /\ t[j] = dn[j + 1]
      <4>1. i + 1 \in 1..Len(dn) /\ t[i] = dn[i + 1] /\ i \in Int
        BY <1>1
      <4>2. j + 1 \in 1..Len(dn) /\ t[j] = dn[j + 1] /\ j \in Int
        BY <1>1
      <4> QED BY <4>1, <4>2
    <3>2. Wire(c, dn, ap)
      BY DEF Conn
    <3>3. i + 1 = j + 1
      BY <2>5, <3>1, <3>2 DEF Wire
    <3> QED BY <3>1, <3>3
  <2> QED BY <2>1, <2>2, <2>3, <2>4, <2>5 DEF Wire
<1>5. Link(d, t, sv)
  <2>1. \A i \in 1..Len(t) : ~IsAuthReply(t[i])
    BY <1>1, <1>2 DEF Conn, Link
  <2>2. \A i \in 1..Len(d.up) : ~IsAuth(d.up[i])
    BY <1>2 DEF Conn, Link
  <2> QED BY <1>2, <2>1, <2>2 DEF Link
<1>6. Unacked(d, t)
  <2>1. Number(t, ListensDown) = Number(dn, ListensDown) - IF Head(dn) \in ListensDown THEN 1 ELSE 0
    BY NumberTail DEF t
  <2>2. Head(dn) \in ListensDown <=> IsListenReply(Head(dn))
    <3>1. Head(dn) \in DownMessages
      OBVIOUS
    <3> QED BY <3>1 DEF ListensDown
  <2>3. Number(c.up, ListensUp) \in Nat /\ Number(dn, ListensDown) \in Nat
    <3>1. c.up \in Seq(UpMessages)
      BY DEF Clients
    <3> QED BY <3>1, NumberNat
  <2>4. c.unackedListens = Number(c.up, ListensUp) + Number(dn, ListensDown)
    BY DEF Conn, Unacked
  <2> QED BY <2>1, <2>2, <2>3, <2>4 DEF Unacked
<1>7. Repeats(d, ap, br)
  <2>1. \A w \in Writes : Due(d, w) => Due(c, w)
    BY DEF Due
  <2> QED BY <2>1 DEF Conn, Repeats
<1> QED BY <1>2, <1>4, <1>5, <1>6, <1>7 DEF Conn, t

(***************************************************************************)
(* So it is when the put that is being answered has been forgotten: no     *)
(* other message is about it.                                              *)
(***************************************************************************)
LEMMA ForgottenConn ==
    ASSUME NEW c \in Clients, NEW dn \in Seq(DownMessages), dn # <<>>, NEW sv, NEW ap,
           NEW br \in Nat, Conn(c, dn, sv, ap, br), IsPutReply(Head(dn)),
           NEW x, x = Head(dn).to.put,
           NEW d, d.state = c.state, d.up = c.up, d.result = c.result,
           d.unackedListens = c.unackedListens, d.puts = Removed(c.puts, x)
    PROVE  Conn(d, Tail(dn), sv, ap, br)
<1> DEFINE t == Tail(dn)
<1>1. /\ t \in Seq(DownMessages) /\ Len(dn) \in Nat /\ Len(dn) # 0
      /\ Len(t) = Len(dn) - 1
      /\ \A i \in 1..Len(t) : t[i] = dn[i + 1] /\ i + 1 \in 1..Len(dn)
      /\ Head(dn) = dn[1] /\ 1 \in 1..Len(dn)
  BY TailFacts
<1>2. c.puts \in Seq(Outstanding)
  BY DEF Clients
<1>3. Thinned(d.puts, c.puts, x)
  BY <1>2, RemovedFacts
<1>4. ~IsAuthReply(Head(dn)) /\ ~IsListenReply(Head(dn))
  BY DEF IsPutReply, IsAuthReply, IsListenReply
<1>5. Conn(c, t, sv, ap, br)
  <2>1. c.unackedListens = c.unackedListens - IF IsListenReply(Head(dn)) THEN 1 ELSE 0
    BY <1>4 DEF Clients
  <2> QED BY <1>4, <2>1, ReceivedConn
<1> HIDE DEF t
<1>6. ASSUME NEW q, Out(c, q), q # x PROVE Out(d, q)
  <2>1. PICK k \in 1..Len(c.puts) : c.puts[k].put = q /\ c.puts[k].sent
    BY <1>6 DEF Out
  <2>2. PICK i \in 1..Len(d.puts) : d.puts[i] = c.puts[k]
    BY <1>3, <1>6, <2>1 DEF Thinned
  <2> QED BY <2>1, <2>2 DEF Out
<1>7. \A i \in 1..Len(c.up) : IsPut(c.up[i]) => c.up[i].put # x
  BY <1>1 DEF Conn, Wire
<1>8. ASSUME NEW i \in 1..Len(t), IsPutReply(t[i]) PROVE t[i].to.put # x
  <2>1. i + 1 # 1 /\ i + 1 \in 1..Len(dn) /\ t[i] = dn[i + 1]
    BY <1>1
  <2> QED BY <1>1, <1>8, <2>1 DEF Conn, Wire
<1>9. Wire(d, t, ap)
  <2>1. \A i \in 1..Len(d.up) : IsPut(d.up[i]) =>
            /\ Out(d, d.up[i].put)
            /\ d.up[i].put.hashed => Unapplied(d.up[i].put, ap)
    BY <1>5, <1>6, <1>7 DEF Conn, Wire
  <2>2. \A i \in 1..Len(t) : IsPutReply(t[i]) =>
            Out(d, t[i].to.put) /\ Honest(t[i].to.put, t[i].status, ap)
    BY <1>5, <1>6, <1>8 DEF Conn, Wire
  <2> QED BY <1>5, <2>1, <2>2 DEF Conn, Wire
<1>10. Link(d, t, sv)
  BY <1>5 DEF Conn, Link
<1>11. Unacked(d, t)
  BY <1>5 DEF Conn, Unacked
<1>12. Repeats(d, ap, br)
  <2>1. ASSUME NEW w \in Writes, Due(d, w) PROVE Due(c, w)
    <3>1. PICK i \in 1..Len(d.puts) : d.puts[i].put = WritePut(w)
      BY <2>1 DEF Due
    <3>2. PICK k \in 1..Len(c.puts) : d.puts[i] = c.puts[k]
      BY <1>3, <3>1 DEF Thinned
    <3> QED BY <2>1, <3>1, <3>2 DEF Due
  <2> QED BY <1>5, <2>1 DEF Conn, Repeats
<1> QED BY <1>9, <1>10, <1>11, <1>12 DEF Conn, t

(***************************************************************************)
(* So it is when news of a query are on their way to the client.           *)
(***************************************************************************)
LEMMA DataConn ==
    ASSUME NEW c \in Clients, NEW dn \in Seq(DownMessages), NEW sv, NEW ap, NEW br \in Nat,
           Conn(c, dn, sv, ap, br), dn # <<>> \/ sv # {} \/ c.state = "connected",
           NEW m \in DownMessages, m.kind = "data"
    PROVE  Conn(c, Append(dn, m), sv, ap, br)
<1> DEFINE e == Append(dn, m)
<1>1. /\ Len(dn) \in Nat /\ Len(e) = Len(dn) + 1
      /\ \A i \in 1..Len(dn) : e[i] = dn[i]
      /\ e[Len(dn) + 1] = m
  BY AppendLast
<1> HIDE DEF e
<1>2. ~IsPutReply(m) /\ ~IsAuthReply(m) /\ ~IsListenReply(m)
  BY DEF IsPutReply, IsAuthReply, IsListenReply
<1>3. \A i \in 1..Len(e) : i \in 1..Len(dn) \/ i = Len(dn) + 1
  BY <1>1
<1>4. \A i \in 1..Len(e) :
        /\ IsPutReply(e[i]) => i \in 1..Len(dn) /\ e[i] = dn[i]
        /\ IsAuthReply(e[i]) => i \in 1..Len(dn) /\ e[i] = dn[i]
  BY <1>1, <1>2, <1>3
<1>5. Wire(c, e, ap)
  <2>1. \A i \in 1..Len(c.up), j \in 1..Len(e) :
            IsPut(c.up[i]) /\ IsPutReply(e[j]) => c.up[i].put # e[j].to.put
    BY <1>4 DEF Conn, Wire
  <2>2. \A i \in 1..Len(e) : IsPutReply(e[i]) =>
            Out(c, e[i].to.put) /\ Honest(e[i].to.put, e[i].status, ap)
    BY <1>4 DEF Conn, Wire
  <2>3. \A i, j \in 1..Len(e) :
            IsPutReply(e[i]) /\ IsPutReply(e[j]) /\ e[i].to.put = e[j].to.put => i = j
    BY <1>4 DEF Conn, Wire
  <2> QED BY <2>1, <2>2, <2>3 DEF Conn, Wire
<1>6. Link(c, e, sv)
  <2>1. c.state \in States
    BY DEF Clients
  <2>2. c.state \notin {"disconnected", "connecting"}
    BY DEF Conn, Link
  <2>3. CASE c.state = "connected"
    BY <1>4, <2>3 DEF Conn, Link
  <2>4. CASE c.state = "authenticating"
    <3>1. /\ dn # <<>> /\ IsAuthReply(dn[1])
          /\ \A i \in 2..Len(dn) : ~IsAuthReply(dn[i])
          /\ \A i \in 1..Len(c.up) : ~IsAuth(c.up[i])
      BY <2>4 DEF Conn, Link
    <3>2. Len(dn) # 0
      BY <3>1
    <3>3. e # <<>> /\ e[1] = dn[1]
      BY <1>1, <3>2
    <3>4. ASSUME NEW i \in 2..Len(e) PROVE ~IsAuthReply(e[i])
      <4>1. i \in 1..Len(e) /\ i # 1
        BY <1>1
      <4> QED BY <1>1, <1>4, <3>1, <4>1
    <3>5. \A i \in 1..Len(e) : ~IsPutReply(e[i])
      BY <1>4, <2>4 DEF Conn, Link
    <3> QED BY <2>4, <3>1, <3>3, <3>4, <3>5 DEF Conn, Link
  <2> QED BY <2>1, <2>2, <2>3, <2>4 DEF States
<1>7. Unacked(c, e)
  <2>1. m \notin ListensDown
    BY <1>2 DEF ListensDown
  <2>2. Number(dn, ListensDown) \in Nat
    BY NumberNat
  <2>3. Number(e, ListensDown) = Number(dn, ListensDown)
    BY <2>1, <2>2, NumberAppend DEF e
  <2> QED BY <2>3 DEF Conn, Unacked
<1> QED BY <1>5, <1>6, <1>7 DEF Conn, e

(***************************************************************************)
(* Which listens the server knows of matters only before it has been       *)
(* authenticated to.                                                       *)
(***************************************************************************)
LEMMA ServedConn ==
    ASSUME NEW c \in Clients, NEW dn, NEW sv, NEW ap, NEW br,
           Conn(c, dn, sv, ap, br), c.up # <<>>, ~IsAuth(Head(c.up))
    PROVE  /\ \A new : Conn(c, dn, new, ap, br)
           /\ dn # <<>> \/ c.state = "connected"
<1>1. c.up[1] = Head(c.up)
  BY DEF Clients
<1>2. c.state \in States
  BY DEF Clients
<1>3. c.state \notin {"disconnected", "connecting"}
  BY DEF Conn, Link
<1>4. ~(c.state = "authenticating" /\ dn = <<>>)
  BY <1>1 DEF Conn, Link
<1>5. \A new : Link(c, dn, new)
  BY <1>3, <1>4 DEF Conn, Link
<1> QED BY <1>2, <1>3, <1>4, <1>5 DEF Conn, States

(***************************************************************************)
(* The connection is as it should be when the server has taken a message   *)
(* that it does not answer.                                                *)
(***************************************************************************)
LEMMA TakenConn ==
    ASSUME NEW c \in Clients, NEW dn, NEW sv, NEW ap, NEW br \in Nat, Conn(c, dn, sv, ap, br),
           c.up # <<>>, Head(c.up).kind = "unlisten",
           NEW d, d.up = Tail(c.up), d.state = c.state, d.puts = c.puts, d.result = c.result,
           d.unackedListens = c.unackedListens
    PROVE  Conn(d, dn, sv, ap, br)
<1> DEFINE u == Tail(c.up)
<1>1. /\ u \in Seq(UpMessages) /\ Len(c.up) \in Nat /\ Len(c.up) # 0
      /\ Len(u) = Len(c.up) - 1
      /\ \A i \in 1..Len(u) : u[i] = c.up[i + 1] /\ i + 1 \in 1..Len(c.up)
      /\ Head(c.up) = c.up[1] /\ 1 \in 1..Len(c.up) /\ c.up \in Seq(UpMessages)
  <2>1. c.up \in Seq(UpMessages)
    BY DEF Clients
  <2> QED BY <2>1, TailFacts
<1>0. u = d.up
  OBVIOUS
<1> HIDE DEF u
<1>2. ~IsAuth(c.up[1]) /\ ~IsPut(c.up[1]) /\ ~IsListen(c.up[1])
  BY <1>1 DEF IsAuth, IsPut, IsListen
<1>3. \A q : Out(c, q) => Out(d, q)
  BY DEF Out
<1>4. Wire(d, dn, ap)
  <2>1. \A i \in 1..Len(u) : IsPut(u[i]) =>
            /\ Out(d, u[i].put)
            /\ u[i].put.hashed => Unapplied(u[i].put, ap)
    BY <1>1, <1>3 DEF Conn, Wire
  <2>2. ASSUME NEW i \in 1..Len(u), NEW j \in 1..Len(u),
               IsPut(u[i]), IsPut(u[j]), u[i].put = u[j].put
        PROVE  i = j
    <3>1. i + 1 \in 1..Len(c.up) /\ u[i] = c.up[i + 1] /\ i \in Int
      BY <1>1
    <3>2. j + 1 \in 1..Len(c.up) /\ u[j] = c.up[j + 1] /\ j \in Int
      BY <1>1
    <3>3. Wire(c, dn, ap)
      BY DEF Conn
    <3>4. i + 1 = j + 1
      BY <2>2, <3>1, <3>2, <3>3 DEF Wire
    <3> QED BY <3>1, <3>2, <3>4
  <2>3. ASSUME NEW i \in 1..Len(u), NEW j \in 1..Len(dn), IsPut(u[i]), IsPutReply(dn[j])
        PROVE  u[i].put # dn[j].to.put
    <3>1. u[i] = c.up[i + 1] /\ i + 1 \in 1..Len(c.up)
      BY <1>1
    <3> QED BY <2>3, <3>1 DEF Conn, Wire
  <2> QED BY <1>0, <1>3, <2>1, <2>2, <2>3 DEF Conn, Wire
<1>5. Link(d, dn, sv)
  <2>1. ASSUME NEW i \in 1..Len(u)
        PROVE  /\ (\A k \in 1..Len(c.up) : ~IsAuth(c.up[k])) => ~IsAuth(u[i])
               /\ (\A k \in 1..Len(c.up) : ~IsPut(c.up[k])) => ~IsPut(u[i])
    BY <1>1
  <2>2. c.state \notin {"disconnected", "connecting"}
    BY <1>1 DEF Conn, Link
  <2> QED BY <1>0, <1>1, <1>2, <2>1, <2>2 DEF Conn, Link
<1>6. Unacked(d, dn)
  <2>1. Number(u, ListensUp) = Number(c.up, ListensUp) - IF Head(c.up) \in ListensUp THEN 1 ELSE 0
    BY <1>1, NumberTail DEF u
  <2>2. Head(c.up) \notin ListensUp
    BY <1>1, <1>2 DEF ListensUp
  <2>3. Number(c.up, ListensUp) \in Nat
    BY <1>1, NumberNat
  <2>4. Number(u, ListensUp) = Number(c.up, ListensUp)
    BY <2>1, <2>2, <2>3
  <2> QED BY <1>0, <2>4 DEF Conn, Unacked
<1>7. Repeats(d, ap, br)
  <2>1. ASSUME NEW w \in Writes, Due(d, w) PROVE Due(c, w)
    BY <1>0, <1>1, <2>1 DEF Due
  <2> QED BY <2>1 DEF Conn, Repeats
<1> QED BY <1>4, <1>5, <1>6, <1>7 DEF Conn

-----------------------------------------------------------------------------
\* applied once put p has taken effect.
Bumped(ap, p) == [o \in Ops |-> ap[o] + IF o \in ToSet(p.ops) THEN 1 ELSE 0]

\* What answer s to message m may come with: only an accepted put takes
\* effect.
Effect(m, s, ap, new) ==
    \/ new = ap /\ (IsPut(m) => s # "ok" /\ (s = "datastale" => m.put.hashed))
    \/ IsPut(m) /\ s = "ok" /\ new = Bumped(ap, m.put)

(***************************************************************************)
(* What the answer to a message is an answer to.                           *)
(***************************************************************************)
LEMMA ReplyFacts ==
    ASSUME NEW m \in UpMessages, NEW s \in Replies
    PROVE  /\ Reply(m, s) \in DownMessages
           /\ Reply(m, s).to = m /\ Reply(m, s).status = s
           /\ IsPutReply(Reply(m, s)) <=> IsPut(m)
           /\ IsAuthReply(Reply(m, s)) <=> IsAuth(m)
           /\ IsListenReply(Reply(m, s)) <=> IsListen(m)
BY DEF Reply, DownMessages, IsPutReply, IsPut, IsAuthReply, IsAuth, IsListenReply, IsListen

(***************************************************************************)
(* A put on the wire, of all that are outstanding: it stands for calls     *)
(* that wait, and its transactions have not taken effect.                  *)
(***************************************************************************)
LEMMA PutTaken ==
    ASSUME NEW c, NEW a, NEW ap, NEW dn, Sound(c, c.puts, a, 1..Len(a), ap), Wire(c, dn, ap),
           NEW k \in 1..Len(c.up), IsPut(c.up[k]), NEW p, p = c.up[k].put
    PROVE  /\ p \in Puts /\ Stands(c, p)
           /\ \E i \in 1..Len(c.puts) : c.puts[i].put = p /\ c.puts[i].sent
           /\ ToSet(p.ops) \subseteq Ops
           /\ p.hashed => /\ ToSet(p.ops) \subseteq Txns /\ Unapplied(p, ap)
                          /\ \A t \in ToSet(p.ops) : c.status[t] = "sent" /\ c.result[t] = "pending"
           /\ ~p.hashed => \E w \in Writes : p = WritePut(w) /\ c.result[w] = "pending"
<1>1. c \in Clients /\ c.puts \in Seq(Outstanding) /\ c.up \in Seq(UpMessages)
      /\ Standing(c, c.puts, a, 1..Len(a)) /\ Queued(c)
  BY DEF Sound, Clients
<1>2. PICK i \in 1..Len(c.puts) : c.puts[i].put = p /\ c.puts[i].sent
  BY DEF Wire, Out
<1>3. p \in Puts /\ Stands(c, p)
  <2>1. c.puts[i] \in Outstanding
    BY <1>1
  <2> QED BY <1>1, <1>2, <2>1 DEF Standing, Outstanding
<1>4. ToSet(p.ops) \subseteq Ops
  BY <1>3 DEF Puts, ToSet
<1>5. ASSUME p.hashed
      PROVE  /\ ToSet(p.ops) \subseteq Txns /\ Unapplied(p, ap)
             /\ \A t \in ToSet(p.ops) : c.status[t] = "sent" /\ c.result[t] = "pending"
  <2>1. TxnFor(c, p)
    BY <1>3, <1>5, WritePutType DEF Stands, WriteFor
  <2>2. /\ ToSet(p.ops) \in SUBSET Txns
        /\ \A t \in ToSet(p.ops) : c.status[t] = "sent" /\ c.result[t] = "pending"
    BY <1>1, <1>3, <2>1, MineIsPrefix
  <2>3. Unapplied(p, ap)
    BY <1>5 DEF Wire
  <2> QED BY <2>2, <2>3
<1>6. ~p.hashed => \E w \in Writes : p = WritePut(w) /\ c.result[w] = "pending"
  BY <1>3 DEF Stands, WriteFor, TxnFor
<1> QED BY <1>2, <1>3, <1>4, <1>5, <1>6

(***************************************************************************)
(* Accepting put p leaves what has happened to the transactions of put q   *)
(* alone.                                                                  *)
(***************************************************************************)
LEMMA Spared ==
    ASSUME NEW c, NEW a, NEW ap \in [Ops -> Nat], Sound(c, c.puts, a, 1..Len(a), ap),
           NEW p \in Puts, NEW q \in Puts, Apart(p, q), Stands(c, p), Stands(c, q), q.hashed
    PROVE  /\ Unapplied(q, ap) => Unapplied(q, Bumped(ap, p))
           /\ \A t \in ToSet(q.ops) : t \notin ToSet(p.ops)
<1>1. ~p.hashed
  BY DEF Apart
<1>2. PICK w \in Writes : p = WritePut(w)
  BY <1>1 DEF Stands, WriteFor, TxnFor
<1>3. ToSet(p.ops) = {w} /\ w \notin Txns
  BY <1>2, WritePutType
<1>4. c \in Clients /\ Queued(c)
  BY DEF Sound
<1>5. TxnFor(c, q)
  BY WritePutType DEF Stands, WriteFor
<1>6. ToSet(q.ops) \in SUBSET Txns
  BY <1>4, <1>5, MineIsPrefix
<1>7. \A t \in ToSet(q.ops) : t \notin ToSet(p.ops) /\ t \in Ops
  BY <1>3, <1>6 DEF Ops
<1>8. \A t \in ToSet(q.ops) : Bumped(ap, p)[t] = ap[t]
  BY <1>7 DEF Bumped
<1> QED BY <1>7, <1>8 DEF Unapplied

(***************************************************************************)
(* An answer that tells what has happened still does when another put has  *)
(* been accepted.                                                          *)
(***************************************************************************)
LEMMA HonestStays ==
    ASSUME NEW p \in Puts, NEW q \in Puts, NEW s, NEW ap \in [Ops -> Nat], Honest(q, s, ap),
           q.hashed /\ Unapplied(q, ap) => Unapplied(q, Bumped(ap, p))
    PROVE  Honest(q, s, Bumped(ap, p))
<1>1. \A o \in ToSet(q.ops) : o \in Ops
  BY DEF Puts, ToSet
<1>2. \A o \in Ops : ap[o] > 0 => Bumped(ap, p)[o] > 0
  BY DEF Bumped
<1> QED BY <1>1, <1>2 DEF Honest

(***************************************************************************)
(* The calls stay accounted for when a put on the wire takes effect.       *)
(***************************************************************************)
LEMMA AcceptedSound ==
    ASSUME NEW c, NEW a \in Seq(AckOf), NEW ap \in [Ops -> Nat], NEW dn,
           Sound(c, c.puts, a, 1..Len(a), ap), Wire(c, dn, ap),
           NEW k \in 1..Len(c.up), IsPut(c.up[k]), NEW p, p = c.up[k].put
    PROVE  /\ Sound(c, c.puts, a, 1..Len(a), Bumped(ap, p))
           /\ Bumped(ap, p) \in [Ops -> Nat]
<1>1. /\ p \in Puts /\ Stands(c, p)
      /\ \E i \in 1..Len(c.puts) : c.puts[i].put = p /\ c.puts[i].sent
      /\ ToSet(p.ops) \subseteq Ops
      /\ p.hashed => /\ ToSet(p.ops) \subseteq Txns /\ Unapplied(p, ap)
                     /\ \A t \in ToSet(p.ops) : c.status[t] = "sent" /\ c.result[t] = "pending"
      /\ ~p.hashed => \E w \in Writes : p = WritePut(w) /\ c.result[w] = "pending"
  BY PutTaken
<1>2. PICK i0 \in 1..Len(c.puts) : c.puts[i0].put = p /\ c.puts[i0].sent
  BY <1>1
<1>3. /\ c \in Clients /\ c.puts \in Seq(Outstanding) /\ Queued(c)
      /\ Standing(c, c.puts, a, 1..Len(a)) /\ Applied(c, c.puts, a, 1..Len(a), ap)
  BY DEF Sound
<1> DEFINE new == Bumped(ap, p)
<1>4. new \in [Ops -> Nat]
  BY DEF Bumped
<1>5. ASSUME NEW t \in Txns, c.status[t] \in {"initializing", "run"} PROVE new[t] = 0
  <2>1. ap[t] = 0 /\ t \in Ops
    BY <1>3, <1>5 DEF Applied, Ops
  <2>2. t \notin ToSet(p.ops)
    <3>1. CASE p.hashed
      BY <1>1, <1>5, <3>1
    <3>2. CASE ~p.hashed
      <4>1. PICK w \in Writes : p = WritePut(w)
        BY <1>1, <3>2
      <4>2. ToSet(p.ops) = {w} /\ w \notin Txns
        BY <4>1, WritePutType
      <4> QED BY <4>2
    <3> QED BY <3>1, <3>2
  <2> QED BY <2>1, <2>2 DEF Bumped
<1>6. ASSUME NEW i \in 1..Len(a) PROVE Honest(a[i].put, a[i].status, new)
  <2>1. a[i].put \in Puts
    <3>1. a[i] \in AckOf
      OBVIOUS
    <3> QED BY <3>1 DEF AckOf
  <2>2. Apart(p, a[i].put) /\ Stands(c, a[i].put) /\ Honest(a[i].put, a[i].status, ap)
    BY <1>2, <1>3 DEF Standing, Applied
  <2>3. a[i].put.hashed /\ Unapplied(a[i].put, ap) => Unapplied(a[i].put, new)
    BY <1>1, <2>1, <2>2, Spared
  <2> QED BY <1>1, <2>1, <2>2, <2>3, HonestStays
<1>7. ASSUME NEW i \in 1..Len(c.puts), c.puts[i].put.hashed, ~c.puts[i].sent
      PROVE  Unapplied(c.puts[i].put, new)
  <2>1. i # i0
    BY <1>2, <1>7
  <2>2. Apart(p, c.puts[i].put) /\ Stands(c, c.puts[i].put) /\ c.puts[i].put \in Puts
    <3>1. c.puts[i] \in Outstanding
      BY <1>3
    <3> QED BY <1>2, <1>3, <2>1, <3>1 DEF Standing, Outstanding
  <2>3. Unapplied(c.puts[i].put, ap)
    BY <1>3, <1>7 DEF Applied
  <2> QED BY <1>1, <1>7, <2>2, <2>3, Spared
<1>8. Applied(c, c.puts, a, 1..Len(a), new)
  BY <1>3, <1>5, <1>6, <1>7 DEF Applied
<1> QED BY <1>3, <1>4, <1>8 DEF Sound

\* All that the server changes of the client is that a message is taken.
Taking(c, d) ==
    /\ d.up = Tail(c.up) /\ d.state = c.state /\ d.puts = c.puts /\ d.result = c.result
    /\ d.unackedListens = c.unackedListens

(***************************************************************************)
(* The answer takes the place of the message on the wire.                  *)
(***************************************************************************)
LEMMA RepliedWire ==
    ASSUME NEW c, NEW a \in Seq(AckOf), NEW ap \in [Ops -> Nat], NEW dn \in Seq(DownMessages),
           Sound(c, c.puts, a, 1..Len(a), ap), Wire(c, dn, ap), c.up # <<>>,
           NEW m, m = Head(c.up), NEW s \in Replies, NEW new, Effect(m, s, ap, new),
           NEW d, Taking(c, d)
    PROVE  Wire(d, Append(dn, Reply(m, s)), new)
<1> DEFINE u == Tail(c.up)
           e == Append(dn, Reply(m, s))
<1>1. c \in Clients /\ c.up \in Seq(UpMessages) /\ Standing(c, c.puts, a, 1..Len(a))
      /\ c.puts \in Seq(Outstanding)
  BY DEF Sound, Clients
<1>2. /\ u \in Seq(UpMessages) /\ Len(c.up) \in Nat /\ Len(c.up) # 0
      /\ Len(u) = Len(c.up) - 1
      /\ \A i \in 1..Len(u) : u[i] = c.up[i + 1] /\ i + 1 \in 1..Len(c.up)
      /\ m = c.up[1] /\ 1 \in 1..Len(c.up) /\ m \in UpMessages
  BY <1>1, TailFacts
<1>3. d.up = u
  BY DEF Taking
<1>4. /\ Reply(m, s) \in DownMessages
      /\ Reply(m, s).to = m /\ Reply(m, s).status = s
      /\ IsPutReply(Reply(m, s)) <=> IsPut(m)
  BY <1>2, ReplyFacts
<1>5. /\ Len(dn) \in Nat /\ Len(e) = Len(dn) + 1
      /\ \A i \in 1..Len(dn) : e[i] = dn[i]
      /\ e[Len(dn) + 1] = Reply(m, s)
  BY <1>4, AppendLast
<1> HIDE DEF u, e
<1>6. \A i \in 1..Len(e) : i \in 1..Len(dn) \/ i = Len(dn) + 1
  BY <1>5
<1>7. \A q : Out(c, q) => Out(d, q)
  BY DEF Out, Taking
<1>8. \A i \in 1..Len(u) : IsPut(u[i]) /\ IsPut(m) => u[i].put # m.put
  <2> TAKE i \in 1..Len(u)
  <2>1. u[i] = c.up[i + 1] /\ i + 1 \in 1..Len(c.up) /\ i + 1 # 1
    BY <1>2
  <2> QED BY <1>2, <2>1 DEF Wire
<1>9. ASSUME NEW q, Out(c, q), IsPut(m), q # m.put
      PROVE  q \in Puts /\ Stands(c, q) /\ Apart(m.put, q)
  <2>1. PICK i \in 1..Len(c.puts) : c.puts[i].put = q
    BY <1>9 DEF Out
  <2>2. PICK j \in 1..Len(c.puts) : c.puts[j].put = m.put
    BY <1>2, <1>9 DEF Wire, Out
  <2>3. c.puts[i] \in Outstanding
    BY <1>1
  <2>4. i # j
    BY <1>9, <2>1, <2>2
  <2> QED BY <1>1, <2>1, <2>2, <2>3, <2>4 DEF Standing, Outstanding
<1>10. ASSUME NEW q, Out(c, q), IsPut(m) => q # m.put
       PROVE  /\ q.hashed /\ Unapplied(q, ap) => Unapplied(q, new)
              /\ \A r : Honest(q, r, ap) => Honest(q, r, new)
  <2>1. CASE new = ap
    BY <2>1
  <2>2. CASE IsPut(m) /\ new = Bumped(ap, m.put)
    <3>1. q \in Puts /\ Stands(c, q) /\ Apart(m.put, q)
      BY <1>9, <1>10, <2>2
    <3>2. m.put \in Puts /\ Stands(c, m.put)
      BY <1>2, <2>2, PutTaken
    <3>3. q.hashed /\ Unapplied(q, ap) => Unapplied(q, new)
      BY <2>2, <3>1, <3>2, Spared
    <3> QED BY <2>2, <3>1, <3>2, <3>3, HonestStays
  <2> QED BY <2>1, <2>2 DEF Effect
<1>11. \A i \in 1..Len(u) : IsPut(u[i]) =>
            /\ Out(d, u[i].put)
            /\ u[i].put.hashed => Unapplied(u[i].put, new)
  <2> TAKE i \in 1..Len(u)
  <2> HAVE IsPut(u[i])
  <2>1. u[i] = c.up[i + 1] /\ i + 1 \in 1..Len(c.up)
    BY <1>2
  <2>2. Out(c, u[i].put) /\ (u[i].put.hashed => Unapplied(u[i].put, ap))
    BY <2>1 DEF Wire
  <2> QED BY <1>7, <1>8, <1>10, <2>2
<1>12. ASSUME NEW i \in 1..Len(u), NEW j \in 1..Len(u),
              IsPut(u[i]), IsPut(u[j]), u[i].put = u[j].put
       PROVE  i = j
  <2>1. /\ u[i] = c.up[i + 1] /\ i + 1 \in 1..Len(c.up)
        /\ u[j] = c.up[j + 1] /\ j + 1 \in 1..Len(c.up)
    BY <1>2
  <2>2. i + 1 = j + 1
    BY <1>12, <2>1 DEF Wire
  <2> QED BY <2>2
<1>13. ASSUME NEW i \in 1..Len(u), NEW j \in 1..Len(e), IsPut(u[i]), IsPutReply(e[j])
       PROVE  u[i].put # e[j].to.put
  <2>1. u[i] = c.up[i + 1] /\ i + 1 \in 1..Len(c.up)
    BY <1>2
  <2>2. CASE j \in 1..Len(dn)
    BY <1>5, <1>13, <2>1, <2>2 DEF Wire
  <2>3. CASE j = Len(dn) + 1
    BY <1>4, <1>5, <1>8, <1>13, <2>3
  <2> QED BY <1>6, <2>2, <2>3
<1>14. ASSUME NEW j \in 1..Len(dn), IsPutReply(dn[j])
       PROVE  /\ Out(d, dn[j].to.put) /\ Honest(dn[j].to.put, dn[j].status, new)
              /\ IsPut(m) => dn[j].to.put # m.put
  <2>1. /\ Out(c, dn[j].to.put) /\ Honest(dn[j].to.put, dn[j].status, ap)
        /\ IsPut(m) => dn[j].to.put # m.put
    BY <1>2, <1>14 DEF Wire
  <2> QED BY <1>7, <1>10, <2>1
<1>15. ASSUME IsPut(m) PROVE Out(d, m.put) /\ Honest(m.put, s, new)
  <2>1. Out(d, m.put) /\ (m.put.hashed => Unapplied(m.put, ap))
    BY <1>2, <1>7, <1>15 DEF Wire
  <2>2. CASE new = ap /\ s # "ok" /\ (s = "datastale" => m.put.hashed)
    BY <2>1, <2>2 DEF Honest, Replies
  <2>3. CASE s = "ok" /\ new = Bumped(ap, m.put)
    <3>1. ToSet(m.put.ops) \subseteq Ops
      BY <1>2, <1>15, PutTaken
    <3>2. \A o \in ToSet(m.put.ops) : new[o] > 0
      BY <2>3, <3>1 DEF Bumped
    <3> QED BY <2>1, <2>3, <3>2 DEF Honest
  <2> QED BY <1>15, <2>1, <2>2, <2>3 DEF Effect
<1>16. \A j \in 1..Len(e) : IsPutReply(e[j]) =>
            Out(d, e[j].to.put) /\ Honest(e[j].to.put, e[j].status, new)
  BY <1>4, <1>5, <1>6, <1>14, <1>15
<1>17. ASSUME NEW i \in 1..Len(e), NEW j \in 1..Len(e),
              IsPutReply(e[i]), IsPutReply(e[j]), e[i].to.put = e[j].to.put
       PROVE  i = j
  <2>1. CASE i \in 1..Len(dn) /\ j \in 1..Len(dn)
    BY <1>5, <1>17, <2>1 DEF Wire
  <2>2. CASE i \in 1..Len(dn) /\ j = Len(dn) + 1
    BY <1>4, <1>5, <1>14, <1>17, <2>2
  <2>3. CASE i = Len(dn) + 1 /\ j \in 1..Len(dn)
    BY <1>4, <1>5, <1>14, <1>17, <2>3
  <2> QED BY <1>6, <2>1, <2>2, <2>3
<1> QED BY <1>3, <1>11, <1>12, <1>13, <1>16, <1>17 DEF Wire, e

(***************************************************************************)
(* The connection is as it should be when the server has taken a message   *)
(* and answered it, whatever the answer.                                   *)
(***************************************************************************)
LEMMA RepliedConn ==
    ASSUME NEW c, NEW a \in Seq(AckOf), NEW ap \in [Ops -> Nat], NEW dn \in Seq(DownMessages),
           NEW sv, NEW br \in Nat,
           Sound(c, c.puts, a, 1..Len(a), ap), Conn(c, dn, sv, ap, br), c.up # <<>>,
           NEW m, m = Head(c.up), NEW s \in Replies, NEW new, Effect(m, s, ap, new),
           NEW d, Taking(c, d)
    PROVE  Conn(d, Append(dn, Reply(m, s)), sv, new, br)
<1> DEFINE u == Tail(c.up)
           e == Append(dn, Reply(m, s))
<1>1. c \in Clients /\ c.up \in Seq(UpMessages) /\ c.state \in States
  BY DEF Sound, Clients
<1>2. /\ u \in Seq(UpMessages) /\ Len(c.up) \in Nat /\ Len(c.up) # 0
      /\ Len(u) = Len(c.up) - 1
      /\ \A i \in 1..Len(u) : u[i] = c.up[i + 1] /\ i + 1 \in 1..Len(c.up)
      /\ m = c.up[1] /\ 1 \in 1..Len(c.up) /\ m \in UpMessages
  BY <1>1, TailFacts
<1>3. d.up = u
  BY DEF Taking
<1>4. /\ Reply(m, s) \in DownMessages
      /\ IsPutReply(Reply(m, s)) <=> IsPut(m)
      /\ IsAuthReply(Reply(m, s)) <=> IsAuth(m)
      /\ IsListenReply(Reply(m, s)) <=> IsListen(m)
  BY <1>2, ReplyFacts
<1>5. /\ Len(dn) \in Nat /\ Len(e) = Len(dn) + 1
      /\ \A i \in 1..Len(dn) : e[i] = dn[i]
      /\ e[Len(dn) + 1] = Reply(m, s)
  BY <1>4, AppendLast
<1>6. Wire(d, e, new)
  BY RepliedWire DEF Conn
<1>7. Unacked(d, e)
  <2>1. Number(u, ListensUp) = Number(c.up, ListensUp) - IF m \in ListensUp THEN 1 ELSE 0
    BY <1>1, NumberTail
  <2>2. Number(e, ListensDown) = Number(dn, ListensDown) + IF Reply(m, s) \in ListensDown THEN 1 ELSE 0
    BY <1>4, NumberAppend
  <2>3. Reply(m, s) \in ListensDown <=> m \in ListensUp
    BY <1>2, <1>4 DEF ListensUp, ListensDown
  <2>4. Number(c.up, ListensUp) \in Nat /\ Number(dn, ListensDown) \in Nat
    BY <1>1, NumberNat
  <2>5. Number(u, ListensUp) + Number(e, ListensDown) = Number(c.up, ListensUp) + Number(dn, ListensDown)
    <3> HIDE DEF u, e
    <3>1. CASE m \in ListensUp
      BY <2>1, <2>2, <2>3, <2>4, <3>1
    <3>2. CASE m \notin ListensUp
      BY <2>1, <2>2, <2>3, <2>4, <3>2
    <3> QED BY <3>1, <3>2
  <2> QED BY <1>3, <2>5 DEF Conn, Unacked, Taking
<1> HIDE DEF u, e
<1>8. Link(d, e, sv)
  <2>1. d.state = c.state /\ c.state \notin {"disconnected", "connecting"}
    BY DEF Conn, Link, Taking
  <2>2. \A i \in 1..Len(e) : i \in 1..Len(dn) \/ i = Len(dn) + 1
    BY <1>5
  <2>3. CASE c.state = "connected"
    <3>1. ~IsAuth(m) /\ \A i \in 1..Len(u) : ~IsAuth(u[i])
      BY <1>2, <2>3 DEF Conn, Link
    <3>2. \A i \in 1..Len(e) : ~IsAuthReply(e[i])
      BY <1>4, <1>5, <2>2, <2>3, <3>1 DEF Conn, Link
    <3> QED BY <1>3, <2>1, <2>3, <3>1, <3>2 DEF Link
  <2>4. CASE c.state = "authenticating"
    <3>1. /\ ~IsPut(m) /\ \A i \in 1..Len(u) : ~IsPut(u[i])
          /\ \A i \in 1..Len(dn) : ~IsPutReply(dn[i])
      BY <1>2, <2>4 DEF Conn, Link
    <3>2. \A i \in 1..Len(e) : ~IsPutReply(e[i])
      BY <1>4, <1>5, <2>2, <3>1
    <3>3. /\ e # <<>> /\ IsAuthReply(e[1])
          /\ \A i \in 2..Len(e) : ~IsAuthReply(e[i])
          /\ \A i \in 1..Len(u) : ~IsAuth(u[i])
      <4>1. CASE /\ dn = <<>>
                 /\ IsAuth(c.up[1])
                 /\ \A i \in 2..Len(c.up) : ~IsAuth(c.up[i])
        <5>1. Len(dn) = 0
          BY <4>1
        <5>2. e # <<>> /\ IsAuthReply(e[1]) /\ \A i \in 2..Len(e) : FALSE
          <6>1. Len(e) = 1 /\ e[1] = Reply(m, s)
            BY <1>5, <5>1
          <6>2. IsAuthReply(Reply(m, s))
            BY <1>2, <1>4, <4>1
          <6>3. e # <<>>
            <7> SUFFICES ASSUME e = <<>> PROVE FALSE
              OBVIOUS
            <7>1. Len(e) = 0
              OBVIOUS
            <7> QED BY <6>1, <7>1
          <6> QED BY <6>1, <6>2, <6>3
        <5>3. \A i \in 1..Len(u) : u[i] = c.up[i + 1] /\ i + 1 \in 2..Len(c.up)
          BY <1>2
        <5> QED BY <4>1, <5>2, <5>3
      <4>2. CASE /\ dn # <<>> /\ IsAuthReply(dn[1])
                 /\ \A i \in 2..Len(dn) : ~IsAuthReply(dn[i])
                 /\ \A i \in 1..Len(c.up) : ~IsAuth(c.up[i])
        <5>1. Len(dn) # 0
          BY <4>2
        <5>2. e # <<>> /\ IsAuthReply(e[1])
          BY <1>5, <4>2, <5>1
        <5>3. \A i \in 1..Len(u) : ~IsAuth(u[i])
          BY <1>2, <4>2
        <5>4. ASSUME NEW i \in 2..Len(e) PROVE ~IsAuthReply(e[i])
          <6>1. CASE i \in 2..Len(dn)
            BY <1>5, <4>2, <6>1
          <6>2. CASE i = Len(dn) + 1
            BY <1>2, <1>4, <1>5, <4>2, <6>2
          <6> QED BY <1>5, <6>1, <6>2
        <5> QED BY <5>2, <5>3, <5>4
      <4> QED BY <2>4, <4>1, <4>2 DEF Conn, Link
    <3> QED BY <1>3, <2>1, <2>4, <3>1, <3>2, <3>3 DEF Link
  <2> QED BY <1>1, <2>1, <2>3, <2>4 DEF States
<1>9. \A w \in Writes : Due(d, w) => Due(c, w)
  <2> TAKE w \in Writes
  <2> HAVE Due(d, w)
  <2>1. \E i \in 1..Len(c.puts) : c.puts[i].put = WritePut(w)
    BY DEF Due, Taking
  <2>2. c.state # "connected" \/ \E i \in 1..Len(u) : u[i] = PutMessage(WritePut(w))
    BY <1>3 DEF Due, Taking
  <2> QED BY <1>2, <2>1, <2>2 DEF Due
<1>10. Repeats(d, new, br)
  <2>1. CASE new = ap
    BY <1>9, <2>1 DEF Conn, Repeats, Taking
  <2>2. CASE IsPut(m) /\ new = Bumped(ap, m.put)
    <3> DEFINE p == m.put
    <3>1. /\ p \in Puts /\ Stands(c, p)
          /\ \E i \in 1..Len(c.puts) : c.puts[i].put = p /\ c.puts[i].sent
          /\ ToSet(p.ops) \subseteq Ops
          /\ p.hashed => /\ ToSet(p.ops) \subseteq Txns /\ Unapplied(p, ap)
                         /\ \A t \in ToSet(p.ops) : c.status[t] = "sent" /\ c.result[t] = "pending"
          /\ ~p.hashed => \E w \in Writes : p = WritePut(w) /\ c.result[w] = "pending"
      <4>1. 1 \in 1..Len(c.up) /\ IsPut(c.up[1]) /\ p = c.up[1].put /\ Wire(c, dn, ap)
        BY <1>2, <2>2 DEF Conn
      <4> HIDE DEF p
      <4> QED BY <4>1, PutTaken
    <3>2. \A o \in Ops : new[o] = ap[o] + IF o \in ToSet(p.ops) THEN 1 ELSE 0
      BY <2>2 DEF Bumped
    <3>3. c.state = "connected"
      BY <1>1, <1>2, <2>2 DEF Conn, Link, States
    <3> HIDE DEF p
    <3>4. CASE p.hashed
      <4>1. \A t \in Txns : new[t] \in 0..1
        <5> TAKE t \in Txns
        <5>1. t \in Ops /\ ap[t] \in 0..1 /\ (t \in ToSet(p.ops) => ap[t] = 0)
          BY <3>1, <3>4 DEF Ops, Unapplied, Conn, Repeats
        <5> QED BY <3>2, <5>1
      <4>2. \A w \in Writes : new[w] = ap[w]
        <5> TAKE w \in Writes
        <5>1. w \in Ops /\ w \notin ToSet(p.ops)
          BY <3>1, <3>4, OpsAssumption DEF Ops
        <5> QED BY <3>2, <5>1
      <4> QED BY <1>9, <4>1, <4>2 DEF Conn, Repeats, Taking
    <3>5. CASE ~p.hashed
      <4>1. PICK w \in Writes : p = WritePut(w) /\ c.result[w] = "pending"
        BY <3>1, <3>5
      <4>2. ToSet(p.ops) = {w} /\ w \notin Txns /\ w \in Ops
        BY <4>1, WritePutType
      <4>3. \A t \in Txns : new[t] = ap[t]
        BY <3>2, <4>2 DEF Ops
      <4>4. \A v \in Writes : v # w => new[v] = ap[v]
        BY <3>2, <4>2 DEF Ops
      <4>5. new[w] = ap[w] + 1
        BY <3>2, <4>2
      <4>6. m = PutMessage(p)
        <5>1. m \in [kind: {"put"}, put: Puts]
          BY <1>2, <2>2 DEF UpMessages, IsPut
        <5> QED BY <5>1 DEF PutMessage, p
      <4>7. Due(c, w)
        BY <1>2, <3>1, <4>1, <4>6 DEF Due
      <4>8. ap[w] <= br /\ ap[w] \in 0..br+1
        BY <4>7 DEF Conn, Repeats
      <4>9. ~Due(d, w)
        <5> SUFFICES ASSUME Due(d, w) PROVE FALSE
          OBVIOUS
        <5>1. PICK i \in 1..Len(u) : u[i] = PutMessage(WritePut(w))
          BY <1>3, <3>3 DEF Due, Taking
        <5>2. c.up[i + 1] = m /\ i + 1 \in 1..Len(c.up)
          BY <1>2, <4>1, <4>6, <5>1
        <5>3. i + 1 = 1
          BY <1>2, <2>2, <5>2 DEF Conn, Wire
        <5> QED BY <5>3
      <4>10. \A v \in Writes : /\ new[v] \in 0..br+1
                               /\ d.result[v] = "none" => new[v] = 0
                               /\ Due(d, v) => new[v] <= br
        <5> TAKE v \in Writes
        <5>1. CASE v = w
          BY <4>1, <4>5, <4>8, <4>9, <5>1 DEF Taking
        <5>2. CASE v # w
          BY <1>9, <4>4, <5>2 DEF Taking, Conn, Repeats
        <5> QED BY <5>1, <5>2
      <4> QED BY <4>3, <4>10 DEF Conn, Repeats
    <3> QED BY <3>4, <3>5
  <2> QED BY <2>1, <2>2 DEF Effect
<1> QED BY <1>6, <1>7, <1>8, <1>10 DEF Conn, e

-----------------------------------------------------------------------------
\* The listens, and then the puts, that restoreState sends; and the puts that
\* are marked as sent with it.
ListensOf(order) == [i \in DOMAIN order |-> Listen(order[i])]
PutsOf(P) == [i \in DOMAIN P |-> PutMessage(P[i].put)]
AllSent(P) == [i \in DOMAIN P |-> [put |-> P[i].put, sent |-> TRUE]]

(***************************************************************************)
(* One listen is sent for every query listened to.                         *)
(***************************************************************************)
LEMMA ListensFacts ==
    ASSUME NEW L \in SUBSET Queries, IsFiniteSet(L), NEW order \in SetToSeqs(L)
    PROVE  /\ ListensOf(order) \in Seq(UpMessages)
           /\ Len(ListensOf(order)) = Len(order) /\ Len(order) \in Nat
           /\ \A i \in 1..Len(order) :
                /\ ListensOf(order)[i] = Listen(order[i]) /\ order[i] \in L
                /\ IsListen(ListensOf(order)[i])
           /\ \A q \in L : \E i \in 1..Len(order) : order[i] = q
<1> DEFINE n == Cardinality(L)
<1>1. n \in Nat
  BY FS_CardinalityType
<1>2. order \in [1..n -> L] /\ \A i, j \in 1..n : i # j => order[i] # order[j]
  BY DEF SetToSeqs
<1>3. order \in Injection(1..n, L)
  BY <1>2 DEF Injection, IsInjective
<1>4. Cardinality(1..n) = n
  <2>1. 1 \in Int /\ n \in Int
    BY <1>1
  <2>2. Cardinality(1..n) = IF 1 > n THEN 0 ELSE n - 1 + 1
    <3> HIDE DEF n
    <3> QED BY <2>1, FS_Interval
  <2> QED BY <1>1, <2>2
<1>5. order \in Surjection(1..n, L)
  BY <1>3, <1>4, FS_Injection
<1> HIDE DEF n
<1>6. \A q \in L : \E i \in 1..n : order[i] = q
  BY <1>5 DEF Surjection
<1>7. order \in Seq(L) /\ Len(order) = n /\ DOMAIN order = 1..n
  BY <1>1, <1>2
<1> DEFINE g(i) == Listen(order[i])
<1>8. \A i \in 1..n : g(i) \in UpMessages /\ order[i] \in L /\ IsListen(g(i))
  <2> TAKE i \in 1..n
  <2>1. order[i] \in Queries /\ order[i] \in L
    BY <1>2
  <2> QED BY <2>1 DEF Listen, UpMessages, IsListen
<1> HIDE DEF g
<1>9. ListensOf(order) = [i \in 1..n |-> g(i)]
  BY <1>7 DEF ListensOf, g
<1>10. [i \in 1..n |-> g(i)] \in Seq(UpMessages) /\ Len([i \in 1..n |-> g(i)]) = n
  BY <1>1, <1>8
<1> QED BY <1>1, <1>6, <1>7, <1>8, <1>9, <1>10 DEF g

(***************************************************************************)
(* One put is sent for every outstanding one.                              *)
(***************************************************************************)
LEMMA PutsFacts ==
    ASSUME NEW P \in Seq(Outstanding)
    PROVE  /\ PutsOf(P) \in Seq(UpMessages) /\ Len(PutsOf(P)) = Len(P) /\ Len(P) \in Nat
           /\ AllSent(P) \in Seq(Outstanding) /\ Len(AllSent(P)) = Len(P)
           /\ \A i \in 1..Len(P) :
                /\ PutsOf(P)[i] = PutMessage(P[i].put) /\ P[i].put \in Puts
                /\ IsPut(PutsOf(P)[i]) /\ PutsOf(P)[i].put = P[i].put
                /\ ~IsAuth(PutsOf(P)[i]) /\ ~IsListen(PutsOf(P)[i])
                /\ AllSent(P)[i].put = P[i].put /\ AllSent(P)[i].sent = TRUE
<1>1. Len(P) \in Nat /\ DOMAIN P = 1..Len(P)
  OBVIOUS
<1> DEFINE g(i) == PutMessage(P[i].put)
           h(i) == [put |-> P[i].put, sent |-> TRUE]
<1>2. \A i \in 1..Len(P) : /\ P[i].put \in Puts /\ g(i) \in UpMessages /\ h(i) \in Outstanding
                           /\ IsPut(g(i)) /\ g(i).put = P[i].put /\ ~IsAuth(g(i)) /\ ~IsListen(g(i))
                           /\ h(i).put = P[i].put /\ h(i).sent = TRUE
  <2> TAKE i \in 1..Len(P)
  <2>1. P[i].put \in Puts
    <3>1. P[i] \in Outstanding
      OBVIOUS
    <3> QED BY <3>1 DEF Outstanding
  <2>2. h(i) \in Outstanding /\ h(i).put = P[i].put /\ h(i).sent = TRUE
    BY <2>1 DEF Outstanding
  <2> QED BY <2>1, <2>2, UpMessageIs
<1> HIDE DEF g, h
<1>3. PutsOf(P) = [i \in 1..Len(P) |-> g(i)] /\ AllSent(P) = [i \in 1..Len(P) |-> h(i)]
  BY <1>1 DEF PutsOf, AllSent, g, h
<1>4. [i \in 1..Len(P) |-> g(i)] \in Seq(UpMessages) /\ Len([i \in 1..Len(P) |-> g(i)]) = Len(P)
  BY <1>1, <1>2
<1>5. [i \in 1..Len(P) |-> h(i)] \in Seq(Outstanding) /\ Len([i \in 1..Len(P) |-> h(i)]) = Len(P)
  BY <1>1, <1>2
<1>6. \A i \in 1..Len(P) : PutsOf(P)[i] = g(i) /\ AllSent(P)[i] = h(i)
  BY <1>3
<1> QED BY <1>1, <1>2, <1>3, <1>4, <1>5, <1>6 DEF g

\* u is s followed by t.
Joined(u, s, t) ==
    /\ Len(s) \in Nat /\ Len(t) \in Nat /\ Len(u) = Len(s) + Len(t)
    /\ \A i \in 1..Len(s) : u[i] = s[i]
    /\ \A i \in 1..Len(t) : u[Len(s) + i] = t[i]

(***************************************************************************)
(* Concatenation does that.                                                *)
(***************************************************************************)
LEMMA ConcatFacts ==
    ASSUME NEW S, NEW s \in Seq(S), NEW t \in Seq(S)
    PROVE  s \o t \in Seq(S) /\ Joined(s \o t, s, t)
BY DEF Joined

\* What restoreState leaves alone, and what it sends.
Restored(c, d, order) ==
    /\ d.state = "connected" /\ d.unackedListens = c.unackedListens + Len(order)
    /\ d.up = (c.up \o ListensOf(order)) \o PutsOf(c.puts)
    /\ d.puts = AllSent(c.puts)
    /\ d.listens = c.listens /\ d.over = c.over /\ d.cache = c.cache
    /\ d.putsToAck = c.putsToAck

(***************************************************************************)
(* It does that.                                                           *)
(***************************************************************************)
LEMMA RestoreFields ==
    ASSUME NEW c \in Clients, IsFiniteSet(c.listens), NEW order \in SetToSeqs(c.listens),
           NEW d, d = restoreState(c, order)
    PROVE  d \in Clients /\ Restored(c, d, order) /\ SameQueue(c, d)
<1> DEFINE up == (c.up \o ListensOf(order)) \o PutsOf(c.puts)
           puts == AllSent(c.puts)
           n == c.unackedListens + Len(order)
<1>1. c.listens \in SUBSET Queries /\ c.puts \in Seq(Outstanding) /\ c.up \in Seq(UpMessages)
      /\ c.unackedListens \in Int
  BY DEF Clients
<1>2. ListensOf(order) \in Seq(UpMessages) /\ Len(order) \in Nat
  BY <1>1, ListensFacts
<1>3. PutsOf(c.puts) \in Seq(UpMessages) /\ puts \in Seq(Outstanding)
  BY <1>1, PutsFacts
<1>4. up \in Seq(UpMessages) /\ n \in Int
  BY <1>1, <1>2, <1>3
<1>5. d = [c EXCEPT !.state = "connected", !.unackedListens = n, !.up = up, !.puts = puts]
  BY DEF restoreState, ListensOf, PutsOf, AllSent, Clients
<1> HIDE DEF up, puts, n
<1>6. d \in Clients
  BY <1>3, <1>4, <1>5 DEF Clients, States
<1>7. /\ d.state = "connected" /\ d.unackedListens = n /\ d.up = up /\ d.puts = puts
      /\ d.listens = c.listens /\ d.over = c.over /\ d.cache = c.cache
      /\ d.putsToAck = c.putsToAck /\ SameQueue(c, d)
  BY <1>5 DEF Clients, SameQueue
<1> QED BY <1>6, <1>7 DEF Restored, up, puts, n

\* Before the connection is ready there are no puts and no answers to puts on
\* their way.
Fresh(c, dn) ==
    /\ \A i \in 1..Len(c.up) : ~IsPut(c.up[i]) /\ ~IsAuth(c.up[i])
    /\ \A i \in 1..Len(dn) : ~IsPutReply(dn[i]) /\ ~IsAuthReply(dn[i])

(***************************************************************************)
(* restoreState keeps the calls accounted for.                             *)
(***************************************************************************)
LEMMA RestoredSound ==
    ASSUME NEW c, NEW d \in Clients, NEW order, NEW a, NEW K, NEW ap,
           Sound(c, c.puts, a, K, ap), Restored(c, d, order), SameQueue(c, d)
    PROVE  Sound(d, d.puts, a, K, ap)
<1>1. c.puts \in Seq(Outstanding) /\ Queued(c) /\ Standing(c, c.puts, a, K)
      /\ Applied(c, c.puts, a, K, ap)
  BY DEF Sound
<1>2. /\ d.puts \in Seq(Outstanding) /\ Len(d.puts) = Len(c.puts)
      /\ \A i \in 1..Len(c.puts) : d.puts[i].put = c.puts[i].put /\ d.puts[i].sent = TRUE
  BY <1>1, PutsFacts DEF Restored
<1>3. Queued(d) /\ Standing(d, c.puts, a, K)
  BY <1>1, SameStands
<1>4. Standing(d, d.puts, a, K)
  BY <1>2, <1>3 DEF Standing
<1>5. Applied(d, d.puts, a, K, ap)
  BY <1>1, <1>2 DEF Applied, SameQueue, Restored
<1> QED BY <1>2, <1>3, <1>4, <1>5 DEF Sound

(***************************************************************************)
(* restoreState establishes the connection: every outstanding put is on    *)
(* the wire once, and nothing that has been answered.                      *)
(***************************************************************************)
LEMMA RestoredConn ==
    ASSUME NEW c \in Clients, NEW d \in Clients, NEW order \in SetToSeqs(c.listens),
           IsFiniteSet(c.listens), NEW a, NEW ap,
           NEW dn \in Seq(DownMessages), NEW sv, NEW br \in Nat,
           Sound(c, c.puts, a, 1..Len(a), ap), Fresh(c, dn), c.state # "connected",
           Unacked(c, dn), Repeats(c, ap, br), Restored(c, d, order), SameQueue(c, d)
    PROVE  Conn(d, dn, sv, ap, br)
<1> DEFINE ls == ListensOf(order)
           ps == PutsOf(c.puts)
           k == Len(c.up) + Len(ls)
<1>1. c.listens \in SUBSET Queries /\ c.puts \in Seq(Outstanding) /\ c.up \in Seq(UpMessages)
      /\ c.unackedListens \in Int /\ Len(c.up) \in Nat
      /\ Standing(c, c.puts, a, 1..Len(a)) /\ Applied(c, c.puts, a, 1..Len(a), ap)
  BY DEF Clients, Sound
<1>2. /\ ls \in Seq(UpMessages) /\ Len(ls) = Len(order) /\ Len(ls) \in Nat
      /\ \A i \in 1..Len(ls) : IsListen(ls[i])
  BY <1>1, ListensFacts
<1>3. /\ ps \in Seq(UpMessages) /\ Len(ps) = Len(c.puts) /\ Len(ps) \in Nat
      /\ \A i \in 1..Len(c.puts) : /\ ps[i] = PutMessage(c.puts[i].put)
                                   /\ IsPut(ps[i]) /\ ps[i].put = c.puts[i].put
                                   /\ ~IsAuth(ps[i]) /\ ~IsListen(ps[i])
  BY <1>1, PutsFacts
<1>4. /\ Len(d.puts) = Len(c.puts)
      /\ \A i \in 1..Len(c.puts) : d.puts[i].put = c.puts[i].put /\ d.puts[i].sent = TRUE
  BY <1>1, PutsFacts DEF Restored
<1>5. d.up = (c.up \o ls) \o ps
  BY DEF Restored
<1> HIDE DEF ls, ps
<1>6. /\ Len(d.up) = k + Len(ps)
      /\ \A i \in 1..Len(c.up) : d.up[i] = c.up[i]
      /\ \A i \in 1..Len(ls) : d.up[Len(c.up) + i] = ls[i]
      /\ \A i \in 1..Len(ps) : d.up[k + i] = ps[i]
  <2> DEFINE v == c.up \o ls
  <2>1. /\ v \in Seq(UpMessages) /\ Len(v) = k /\ k \in Nat
        /\ \A i \in 1..Len(c.up) : v[i] = c.up[i]
        /\ \A i \in 1..Len(ls) : v[Len(c.up) + i] = ls[i]
    <3>1. v \in Seq(UpMessages) /\ Joined(v, c.up, ls)
      BY <1>1, <1>2, ConcatFacts
    <3> HIDE DEF v
    <3> QED BY <3>1 DEF Joined
  <2> HIDE DEF v, k
  <2>2. /\ Len(v \o ps) = k + Len(ps)
        /\ \A i \in 1..k : (v \o ps)[i] = v[i]
        /\ \A i \in 1..Len(ps) : (v \o ps)[k + i] = ps[i]
    <3>1. Joined(v \o ps, v, ps) /\ Len(v) = k
      BY <1>3, <2>1, ConcatFacts
    <3> QED BY <3>1 DEF Joined
  <2>3. /\ \A i \in 1..Len(c.up) : i \in 1..k
        /\ \A i \in 1..Len(ls) : Len(c.up) + i \in 1..k
    BY <1>1, <1>2 DEF k
  <2> QED BY <1>5, <2>1, <2>2, <2>3 DEF v
<1>7. k \in Nat
  BY <1>1, <1>2
<1> HIDE DEF k
<1>8. ASSUME NEW i \in 1..Len(d.up)
      PROVE  /\ ~IsAuth(d.up[i])
             /\ IsPut(d.up[i]) => /\ i - k \in 1..Len(c.puts) /\ d.up[i].put = c.puts[i - k].put
  <2>1. CASE i \in 1..Len(c.up)
    BY <1>6, <2>1 DEF Fresh
  <2>2. CASE i \in Len(c.up)+1..k
    <3>1. i - Len(c.up) \in 1..Len(ls) /\ i = Len(c.up) + (i - Len(c.up))
      BY <1>1, <1>2, <2>2 DEF k
    <3>2. IsListen(d.up[i])
      BY <1>2, <1>6, <3>1
    <3> QED BY <3>2 DEF IsListen, IsAuth, IsPut
  <2>3. CASE i \in k+1..k+Len(ps)
    <3>1. i - k \in 1..Len(ps) /\ i = k + (i - k)
      BY <1>3, <1>7, <2>3
    <3>2. d.up[i] = ps[i - k]
      BY <1>6, <3>1
    <3> QED BY <1>3, <3>1, <3>2
  <2>4. i \in 1..Len(c.up) \/ i \in Len(c.up)+1..k \/ i \in k+1..k+Len(ps)
    BY <1>1, <1>3, <1>6, <1>7
  <2> QED BY <2>1, <2>2, <2>3, <2>4
<1>9. Wire(d, dn, ap)
  <2>1. ASSUME NEW i \in 1..Len(d.up), IsPut(d.up[i])
        PROVE  /\ Out(d, d.up[i].put)
               /\ d.up[i].put.hashed => Unapplied(d.up[i].put, ap)
    <3>1. i - k \in 1..Len(c.puts) /\ d.up[i].put = c.puts[i - k].put
      BY <1>8, <2>1
    <3>2. Out(d, d.up[i].put)
      BY <1>4, <3>1 DEF Out
    <3> QED BY <1>1, <3>1, <3>2 DEF Applied
  <2>2. ASSUME NEW i \in 1..Len(d.up), NEW j \in 1..Len(d.up),
               IsPut(d.up[i]), IsPut(d.up[j]), d.up[i].put = d.up[j].put
        PROVE  i = j
    <3>1. /\ i - k \in 1..Len(c.puts) /\ d.up[i].put = c.puts[i - k].put
          /\ j - k \in 1..Len(c.puts) /\ d.up[j].put = c.puts[j - k].put
      BY <1>8, <2>2
    <3>2. i - k = j - k
      BY <1>1, <2>2, <3>1 DEF Standing, Apart
    <3> QED BY <1>7, <3>2
  <2> QED BY <2>1, <2>2 DEF Wire, Fresh
<1>10. Link(d, dn, sv)
  BY <1>8 DEF Link, Fresh, Restored
<1>11. Unacked(d, dn)
  <2>1. Number(c.up \o ls, ListensUp) = Number(c.up, ListensUp) + Number(ls, ListensUp)
    BY <1>1, <1>2, NumberConcat
  <2>2. c.up \o ls \in Seq(UpMessages)
    BY <1>1, <1>2
  <2>3. Number(d.up, ListensUp) = Number(c.up \o ls, ListensUp) + Number(ps, ListensUp)
    <3> DEFINE v == c.up \o ls
    <3>1. v \in Seq(UpMessages)
      BY <2>2
    <3> HIDE DEF v
    <3>2. Number(v \o ps, ListensUp) = Number(v, ListensUp) + Number(ps, ListensUp)
      BY <1>3, <3>1, NumberConcat
    <3> QED BY <1>5, <3>2 DEF v
  <2>4. Number(ps, ListensUp) = 0
    <3>1. \A i \in 1..Len(ps) : ps[i] \notin ListensUp
      BY <1>3 DEF ListensUp
    <3> QED BY <3>1, NumberNone
  <2>5. Number(ls, ListensUp) = Len(ls)
    <3>1. \A i \in 1..Len(ls) : ls[i] \in ListensUp
      BY <1>2 DEF ListensUp
    <3> QED BY <1>2, <3>1, NumberAll
  <2>6. Number(c.up, ListensUp) \in Nat /\ Number(dn, ListensDown) \in Nat
    BY <1>1, NumberNat
  <2>7. d.unackedListens = c.unackedListens + Len(ls)
    BY <1>2 DEF Restored
  <2>8. c.unackedListens = Number(c.up, ListensUp) + Number(dn, ListensDown)
    BY DEF Unacked
  <2>9. Number(d.up, ListensUp) = Number(c.up, ListensUp) + Len(ls)
    BY <1>2, <2>1, <2>3, <2>4, <2>5, <2>6
  <2> QED BY <1>2, <2>6, <2>7, <2>8, <2>9 DEF Unacked
<1>12. Repeats(d, ap, br)
  <2>1. ASSUME NEW w \in Writes, Due(d, w) PROVE Due(c, w)
    <3>1. PICK i \in 1..Len(d.puts) : d.puts[i].put = WritePut(w)
      BY <2>1 DEF Due
    <3> QED BY <1>4, <3>1 DEF Due
  <2>2. d.result = c.result
    BY DEF SameQueue
  <2> QED BY <2>1, <2>2 DEF Repeats
<1> QED BY <1>9, <1>10, <1>11, <1>12 DEF Conn

-----------------------------------------------------------------------------
\* Put p is apart from all that are outstanding or whose answers are to be
\* passed on.
Clear(P, a, K, p) ==
    /\ \A i \in 1..Len(P) : Apart(P[i].put, p)
    /\ \A i \in K : Apart(a[i].put, p)

(***************************************************************************)
(* A put that stands for calls, and is apart from the others, may join the *)
(* outstanding ones.                                                       *)
(***************************************************************************)
LEMMA AppendedSound ==
    ASSUME NEW c, NEW d \in Clients, NEW P \in Seq(Outstanding), NEW a, NEW K, NEW ap,
           Queued(d), Standing(c, P, a, K), \A q : Stands(c, q) => Stands(d, q),
           Applied(d, P, a, K, ap),
           NEW p \in Puts, NEW sent \in BOOLEAN, Stands(d, p), Clear(P, a, K, p),
           d.queue # <<>> => c.queue # <<>> \/ p.hashed,
           p.hashed => Unapplied(p, ap), d.state # "connected" => ~sent
    PROVE  Sound(d, Append(P, [put |-> p, sent |-> sent]), a, K, ap)
<1> DEFINE y == [put |-> p, sent |-> sent]
           Q == Append(P, y)
<1>1. y \in Outstanding /\ y.put = p /\ y.sent = sent
  BY DEF Outstanding
<1> HIDE DEF y
<1>2. /\ Q \in Seq(Outstanding) /\ Len(Q) = Len(P) + 1 /\ Len(P) \in Nat
      /\ \A i \in 1..Len(P) : Q[i] = P[i]
      /\ Q[Len(P) + 1] = y
  BY <1>1, AppendLast
<1> HIDE DEF Q
<1>3. \A i \in 1..Len(Q) : i \in 1..Len(P) \/ i = Len(P) + 1
  BY <1>2
<1>4. \A q : Apart(p, q) <=> Apart(q, p)
  BY DEF Apart
<1>5. Standing(d, Q, a, K)
  <2>1. \A i \in 1..Len(Q) : Stands(d, Q[i].put)
    BY <1>1, <1>2, <1>3 DEF Standing
  <2>2. ASSUME NEW i \in 1..Len(Q), NEW j \in 1..Len(Q), i # j PROVE Apart(Q[i].put, Q[j].put)
    <3>1. CASE i \in 1..Len(P) /\ j \in 1..Len(P)
      BY <1>2, <2>2, <3>1 DEF Standing
    <3>2. CASE i \in 1..Len(P) /\ j = Len(P) + 1
      BY <1>1, <1>2, <3>2 DEF Clear
    <3>3. CASE i = Len(P) + 1 /\ j \in 1..Len(P)
      BY <1>1, <1>2, <1>4, <3>3 DEF Clear
    <3> QED BY <1>3, <2>2, <3>1, <3>2, <3>3
  <2>3. ASSUME NEW i \in 1..Len(Q), NEW j \in K PROVE Apart(Q[i].put, a[j].put)
    <3>1. CASE i \in 1..Len(P)
      BY <1>2, <3>1 DEF Standing
    <3>2. CASE i = Len(P) + 1
      BY <1>1, <1>2, <1>4, <3>2 DEF Clear
    <3> QED BY <1>3, <3>1, <3>2
  <2>4. ASSUME d.queue # <<>>
        PROVE  \/ \E i \in 1..Len(Q) : Q[i].put.hashed
               \/ \E i \in K : a[i].put.hashed
    <3>1. CASE p.hashed
      <4>1. Len(P) + 1 \in 1..Len(Q)
        BY <1>2
      <4> QED BY <1>1, <1>2, <3>1, <4>1
    <3>2. CASE c.queue # <<>>
      <4>1. CASE \E i \in K : a[i].put.hashed
        BY <4>1
      <4>2. CASE \E i \in 1..Len(P) : P[i].put.hashed
        <5>1. PICK i \in 1..Len(P) : P[i].put.hashed
          BY <4>2
        <5>2. i \in 1..Len(Q) /\ Q[i] = P[i]
          BY <1>2
        <5> QED BY <5>1, <5>2
      <4> QED BY <3>2, <4>1, <4>2 DEF Standing
    <3> QED BY <2>4, <3>1, <3>2
  <2> QED BY <2>1, <2>2, <2>3, <2>4 DEF Standing
<1>6. Applied(d, Q, a, K, ap)
  <2>1. ASSUME NEW i \in 1..Len(Q)
        PROVE  /\ Q[i].put.hashed /\ d.state # "connected" => ~Q[i].sent
               /\ Q[i].put.hashed /\ ~Q[i].sent => Unapplied(Q[i].put, ap)
    <3>1. CASE i \in 1..Len(P)
      BY <1>2, <3>1 DEF Applied
    <3>2. CASE i = Len(P) + 1
      BY <1>1, <1>2, <3>2
    <3> QED BY <1>3, <3>1, <3>2
  <2> QED BY <2>1 DEF Applied
<1> QED BY <1>2, <1>5, <1>6 DEF Sound, Q, y

\* What a listen leaves alone.
SameBut(c, d) ==
    /\ SameQueue(c, d) /\ d.state = c.state /\ d.puts = c.puts
    /\ d.putsToAck = c.putsToAck /\ d.over = c.over /\ d.cache = c.cache

(***************************************************************************)
(* What listen changes.                                                    *)
(***************************************************************************)
LEMMA ListenFields ==
    ASSUME NEW c \in Clients, NEW q \in Queries, NEW d, d = listen(c, q)
    PROVE  /\ d \in Clients /\ SameBut(c, d) /\ d.listens = c.listens \cup {q}
           /\ connected(c) => /\ d.up = Append(c.up, Listen(q))
                              /\ d.unackedListens = c.unackedListens + 1
           /\ ~connected(c) => d.up = c.up /\ d.unackedListens = c.unackedListens
           /\ Listen(q) \in UpMessages /\ IsListen(Listen(q))
<1>1. Listen(q) \in UpMessages /\ IsListen(Listen(q))
  BY DEF Listen, UpMessages, IsListen
<1>2. c.up \in Seq(UpMessages) /\ c.unackedListens \in Int /\ c.listens \in SUBSET Queries
  BY DEF Clients
<1> DEFINE L == c.listens \cup {q}
           up == Append(c.up, Listen(q))
           n == c.unackedListens + 1
<1>3. L \in SUBSET Queries /\ up \in Seq(UpMessages) /\ n \in Int
  BY <1>1, <1>2
<1>4. CASE connected(c)
  <2>1. d = [[[c EXCEPT !.listens = L] EXCEPT !.up = up] EXCEPT !.unackedListens = n]
    BY <1>4 DEF listen, sendListen, Send, Clients
  <2> HIDE DEF L, up, n
  <2>2. d \in Clients
    BY <1>3, <2>1 DEF Clients
  <2>3. SameBut(c, d) /\ d.listens = L /\ d.up = up /\ d.unackedListens = n
    BY <1>3, <2>1 DEF Clients, SameBut, SameQueue
  <2> QED BY <1>1, <1>4, <2>2, <2>3 DEF L, up, n
<1>5. CASE ~connected(c)
  <2>1. d = [c EXCEPT !.listens = L]
    BY <1>5 DEF listen
  <2> HIDE DEF L
  <2>2. d \in Clients
    BY <1>3, <2>1 DEF Clients
  <2>3. SameBut(c, d) /\ d.listens = L /\ d.up = c.up /\ d.unackedListens = c.unackedListens
    BY <1>3, <2>1 DEF Clients, SameBut, SameQueue
  <2> QED BY <1>1, <1>5, <2>2, <2>3 DEF L
<1> QED BY <1>4, <1>5

(***************************************************************************)
(* A listen keeps the calls accounted for and the connection as it should  *)
(* be.                                                                     *)
(***************************************************************************)
LEMMA ListenStep ==
    ASSUME NEW c \in Clients, NEW q \in Queries, NEW d, d = listen(c, q), NEW a, NEW K, NEW ap,
           NEW dn \in Seq(DownMessages), NEW sv, NEW br \in Nat,
           Sound(c, c.puts, a, K, ap), Conn(c, dn, sv, ap, br)
    PROVE  Sound(d, d.puts, a, K, ap) /\ Conn(d, dn, sv, ap, br)
<1>1. /\ d \in Clients /\ SameBut(c, d) /\ d.listens = c.listens \cup {q}
      /\ connected(c) => /\ d.up = Append(c.up, Listen(q))
                         /\ d.unackedListens = c.unackedListens + 1
      /\ ~connected(c) => d.up = c.up /\ d.unackedListens = c.unackedListens
      /\ Listen(q) \in UpMessages /\ IsListen(Listen(q))
  BY ListenFields
<1>2. Sound(d, d.puts, a, K, ap)
  BY <1>1, SoundSame DEF SameBut
<1>3. CASE connected(c)
  <2>1. ~IsPut(Listen(q)) /\ ~IsAuth(Listen(q))
    BY DEF Listen, IsPut, IsAuth
  <2>2. c.state \in {"authenticating", "connected"}
    BY <1>3 DEF connected
  <2>3. d.state = c.state /\ d.puts = c.puts /\ d.result = c.result
    BY <1>1 DEF SameBut, SameQueue
  <2>4. d.unackedListens = c.unackedListens + IF IsListen(Listen(q)) THEN 1 ELSE 0
    BY <1>1, <1>3
  <2> QED BY <1>1, <1>2, <1>3, <2>1, <2>2, <2>3, <2>4, SentConn
<1>4. CASE ~connected(c)
  <2>1. SameWire(c, d)
    BY <1>1, <1>4 DEF SameWire, SameBut, SameQueue
  <2> QED BY <1>2, <2>1, SameWireConn
<1> QED BY <1>3, <1>4

\* The client when query q is no longer listened to.
Unobserved(c, q, n) == [unlisten(c, q) EXCEPT !.cache = n, !.over = @ \ {q}]

(***************************************************************************)
(* What that changes.                                                      *)
(***************************************************************************)
LEMMA UnlistenFields ==
    ASSUME NEW c \in Clients, NEW q \in c.listens, NEW d, NEW n \in Nodes,
           d = Unobserved(c, q, n)
    PROVE  /\ d \in Clients /\ SameQueue(c, d) /\ d.state = c.state /\ d.puts = c.puts
           /\ d.putsToAck = c.putsToAck /\ d.unackedListens = c.unackedListens
           /\ d.over = c.over \ {q} /\ d.cache = n /\ d.listens = c.listens \ {q}
           /\ d.up = IF connected(c) THEN Append(c.up, Unlisten(q)) ELSE c.up
           /\ Unlisten(q) \in UpMessages
<1>1. q \in Queries
  BY DEF Clients
<1>2. Unlisten(q) \in UpMessages
  BY <1>1 DEF Unlisten, UpMessages
<1> DEFINE L == c.listens \ {q}
           R == c.over \ {q}
           up == IF connected(c) THEN Append(c.up, Unlisten(q)) ELSE c.up
<1>3. L \in SUBSET Queries /\ R \in SUBSET Reads /\ up \in Seq(UpMessages)
  <2>1. c.listens \in SUBSET Queries /\ c.over \in SUBSET Reads /\ c.up \in Seq(UpMessages)
    BY DEF Clients
  <2> QED BY <1>2, <2>1
<1>4. CASE connected(c)
  <2>1. unlisten(c, q) = [[c EXCEPT !.listens = L] EXCEPT !.up = up]
    BY <1>4 DEF unlisten, Send, Clients
  <2> HIDE DEF L, up
  <2>2. d = [[[c EXCEPT !.listens = L] EXCEPT !.up = up] EXCEPT !.cache = n, !.over = R]
    BY <2>1 DEF Clients, Unobserved
  <2> HIDE DEF R
  <2>3. d \in Clients
    BY <1>3, <2>2 DEF Clients
  <2>4. /\ SameQueue(c, d) /\ d.state = c.state /\ d.puts = c.puts
        /\ d.putsToAck = c.putsToAck /\ d.unackedListens = c.unackedListens
        /\ d.over = R /\ d.cache = n /\ d.listens = L /\ d.up = up
    BY <1>3, <2>2 DEF Clients, SameQueue
  <2> QED BY <1>2, <2>3, <2>4 DEF L, R, up
<1>5. CASE ~connected(c)
  <2>1. unlisten(c, q) = [c EXCEPT !.listens = L]
    BY <1>5 DEF unlisten
  <2> HIDE DEF L
  <2>2. d = [[c EXCEPT !.listens = L] EXCEPT !.cache = n, !.over = R]
    BY <2>1 DEF Clients, Unobserved
  <2> HIDE DEF R
  <2>3. d \in Clients
    BY <1>3, <2>2 DEF Clients
  <2>4. /\ SameQueue(c, d) /\ d.state = c.state /\ d.puts = c.puts
        /\ d.putsToAck = c.putsToAck /\ d.unackedListens = c.unackedListens
        /\ d.over = R /\ d.cache = n /\ d.listens = L /\ d.up = c.up
    BY <1>3, <2>2 DEF Clients, SameQueue
  <2> QED BY <1>2, <1>5, <2>3, <2>4 DEF L, R
<1> QED BY <1>4, <1>5

(***************************************************************************)
(* Ending a listen keeps the calls accounted for and the connection as it  *)
(* should be.                                                              *)
(***************************************************************************)
LEMMA UnlistenStep ==
    ASSUME NEW c \in Clients, NEW q \in c.listens, NEW d, NEW n \in Nodes,
           d = Unobserved(c, q, n), NEW a, NEW K, NEW ap,
           NEW dn \in Seq(DownMessages), NEW sv, NEW br \in Nat,
           Sound(c, c.puts, a, K, ap), Conn(c, dn, sv, ap, br)
    PROVE  Sound(d, d.puts, a, K, ap) /\ Conn(d, dn, sv, ap, br)
<1>1. /\ d \in Clients /\ SameQueue(c, d) /\ d.state = c.state /\ d.puts = c.puts
      /\ d.putsToAck = c.putsToAck /\ d.unackedListens = c.unackedListens
      /\ d.over = c.over \ {q} /\ d.cache = n /\ d.listens = c.listens \ {q}
      /\ d.up = IF connected(c) THEN Append(c.up, Unlisten(q)) ELSE c.up
      /\ Unlisten(q) \in UpMessages
  BY UnlistenFields
<1>2. Sound(d, d.puts, a, K, ap)
  BY <1>1, SoundSame
<1>3. CASE connected(c)
  <2>1. ~IsPut(Unlisten(q)) /\ ~IsAuth(Unlisten(q)) /\ ~IsListen(Unlisten(q))
    BY DEF Unlisten, IsPut, IsAuth, IsListen
  <2>2. c.state \in {"authenticating", "connected"}
    BY <1>3 DEF connected
  <2>3. d.result = c.result
    BY <1>1 DEF SameQueue
  <2>4. d.unackedListens = c.unackedListens + IF IsListen(Unlisten(q)) THEN 1 ELSE 0
    BY <1>1, <2>1 DEF Clients
  <2> QED BY <1>1, <1>2, <1>3, <2>1, <2>2, <2>3, <2>4, SentConn
<1>4. CASE ~connected(c)
  <2>1. SameWire(c, d)
    BY <1>1, <1>4 DEF SameWire, SameQueue
  <2> QED BY <1>2, <2>1, SameWireConn
<1> QED BY <1>3, <1>4

\* Call o has been made.
Pends(c, d, o) == d.result = [c.result EXCEPT ![o] = "pending"]

\* The client that notes that write w has been called for.
Asking(c, w) == [c EXCEPT !.result[w] = "pending"]

(***************************************************************************)
(* setValue: the write goes out, or waits for the connection, and its call *)
(* waits for the answer.                                                   *)
(***************************************************************************)
LEMMA IssuedWrite ==
    ASSUME NEW c, NEW w \in Writes, c.result[w] = "none", NEW a \in Seq(AckOf), NEW ap,
           NEW dn \in Seq(DownMessages), NEW sv, NEW br \in Nat,
           Sound(c, c.puts, a, 1..Len(a), ap), Conn(c, dn, sv, ap, br),
           NEW d, d = putInternal(Asking(c, w), WritePut(w))
    PROVE  /\ Sound(d, d.puts, a, 1..Len(a), ap) /\ Conn(d, dn, sv, ap, br)
           /\ SameConn(c, d) /\ GoesOut(c, d, WritePut(w))
           /\ Pends(c, d, w)
<1> DEFINE res == [c.result EXCEPT ![w] = "pending"]
           e == Asking(c, w)
           p == WritePut(w)
<1>1. /\ c \in Clients /\ c.puts \in Seq(Outstanding) /\ Queued(c)
      /\ Standing(c, c.puts, a, 1..Len(a)) /\ Applied(c, c.puts, a, 1..Len(a), ap)
  BY DEF Sound
<1>2. /\ p \in Puts /\ ~p.hashed /\ ToSet(p.ops) = {w}
      /\ w \in Ops /\ w \notin Txns
      /\ \A v \in Writes : WritePut(v) = WritePut(w) => v = w
  BY WritePutType
<1>3. /\ res \in [Ops -> {"none", "pending"} \cup Answers]
      /\ res[w] = "pending" /\ \A o \in Ops : o # w => res[o] = c.result[o]
  BY <1>1, <1>2 DEF Clients
<1>4. e = [c EXCEPT !.result = res]
  BY <1>1 DEF Clients, Asking
<1> HIDE DEF res, e, p
<1>5. /\ e \in Clients /\ SameConn(c, e) /\ e.puts = c.puts /\ e.up = c.up /\ e.queue = c.queue
      /\ e.status = c.status /\ e.tries = c.tries /\ e.output = c.output /\ e.result = res
  BY <1>1, <1>3, <1>4 DEF Clients, SameConn
<1>6. /\ d \in Clients /\ SameConn(e, d) /\ GoesOut(e, d, p)
      /\ d.queue = e.queue /\ d.status = e.status /\ d.tries = e.tries
      /\ d.output = e.output /\ d.result = e.result
  BY <1>2, <1>5, PutInternal DEF e, p
<1>7. \A q : Stands(c, q) => Stands(d, q)
  <2> TAKE q
  <2>1. ASSUME WriteFor(c, q) PROVE WriteFor(d, q)
    <3>1. PICK v \in Writes : q = WritePut(v) /\ c.result[v] = "pending"
      BY <2>1 DEF WriteFor
    <3>2. d.result[v] = "pending"
      BY <1>3, <1>5, <1>6, <3>1 DEF Ops
    <3> QED BY <3>1, <3>2 DEF WriteFor
  <2>2. ASSUME TxnFor(c, q) PROVE TxnFor(d, q)
    BY <1>5, <1>6, <2>2 DEF TxnFor, SameConn
  <2> QED BY <2>1, <2>2 DEF Stands
<1>8. Queued(d)
  <2>1. \A t \in Txns : d.result[t] = c.result[t]
    BY <1>2, <1>3, <1>5, <1>6 DEF Ops
  <2> QED BY <1>1, <1>5, <1>6, <2>1 DEF Queued
<1>9. Applied(d, c.puts, a, 1..Len(a), ap)
  <2>1. d.state = c.state /\ d.status = c.status
    BY <1>5, <1>6 DEF SameConn
  <2> QED BY <1>1, <2>1 DEF Applied
<1>10. \A q : Stands(c, q) => q # p
  <2> TAKE q
  <2>1. TxnFor(c, q) => q # p
    BY <1>2 DEF TxnFor
  <2>2. WriteFor(c, q) => q # p
    BY <1>2 DEF WriteFor, p
  <2> QED BY <2>1, <2>2 DEF Stands
<1>11. Clear(c.puts, a, 1..Len(a), p)
  BY <1>1, <1>2, <1>10 DEF Clear, Apart, Standing
<1>12. Stands(d, p)
  BY <1>3, <1>5, <1>6 DEF Stands, WriteFor, p
<1>13. d.puts = Append(c.puts, [put |-> p, sent |-> c.state = "connected"])
  BY <1>5, <1>6 DEF GoesOut, SameConn
<1>14. Sound(d, d.puts, a, 1..Len(a), ap)
  <2> DEFINE sent == c.state = "connected"
  <2>1. sent \in BOOLEAN /\ (d.state # "connected" => ~sent)
    BY <1>5, <1>6 DEF SameConn
  <2>2. d.queue # <<>> => c.queue # <<>> \/ p.hashed
    BY <1>5, <1>6
  <2> HIDE DEF sent
  <2>3. Sound(d, Append(c.puts, [put |-> p, sent |-> sent]), a, 1..Len(a), ap)
    BY <1>1, <1>2, <1>6, <1>7, <1>8, <1>9, <1>11, <1>12, <2>1, <2>2, AppendedSound
  <2> QED BY <1>13, <2>3 DEF sent
<1>15. Unapplied(p, ap)
  <2>1. ap[w] = 0
    BY DEF Conn, Repeats
  <2> QED BY <1>2, <2>1 DEF Unapplied
<1>16. Conn(e, dn, sv, ap, br)
  <2>1. SameWire(c, e)
    BY <1>3, <1>5 DEF SameWire, SameConn
  <2> QED BY <2>1, SameWireConn
<1>17. Conn(d, dn, sv, ap, br)
  <2>1. \A i \in 1..Len(e.puts) : e.puts[i].put # p
    BY <1>1, <1>5, <1>10 DEF Standing
  <2>2. d.puts = Append(e.puts, [put |-> p, sent |-> e.state = "connected"])
    BY <1>6 DEF GoesOut
  <2>3. Sends(e, d, e.puts, d.puts, p, p, ap)
    BY <1>2, <1>6, <1>15, <2>1, <2>2 DEF Sends, Made
  <2>4. \A o \in Ops : e.result[o] # "none" => d.result[o] # "none"
    BY <1>6
  <2> QED BY <1>2, <1>5, <1>6, <1>16, <2>3, <2>4, SendsConn
<1>18. SameConn(c, d) /\ GoesOut(c, d, p)
  BY <1>5, <1>6 DEF SameConn, GoesOut
<1> QED BY <1>5, <1>6, <1>14, <1>17, <1>18 DEF Pends, res, p

\* The client when transaction t has taken its place in the queue, with
\* output x.
Enqueued(c, t, x) ==
    [c EXCEPT !.result[t] = "pending", !.status[t] = "run",
              !.queue = Append(@, t), !.output[t] = x]

\* What that changes.
Queueing(c, e, t, x) ==
    /\ SameConn(c, e) /\ e.puts = c.puts /\ e.up = c.up
    /\ e.tries = c.tries /\ e.abort = c.abort
    /\ e.queue = Append(c.queue, t)
    /\ e.result = [c.result EXCEPT ![t] = "pending"]
    /\ e.status = [c.status EXCEPT ![t] = "run"]
    /\ e.output = [c.output EXCEPT ![t] = x]

(***************************************************************************)
(* It changes just that.                                                   *)
(***************************************************************************)
LEMMA EnqueuedFields ==
    ASSUME NEW c \in Clients, NEW t \in Txns, NEW x \in Int, NEW e, e = Enqueued(c, t, x)
    PROVE  e \in Clients /\ Queueing(c, e, t, x)
<1> DEFINE res == [c.result EXCEPT ![t] = "pending"]
           sta == [c.status EXCEPT ![t] = "run"]
           out == [c.output EXCEPT ![t] = x]
           que == Append(c.queue, t)
<1>1. /\ res \in [Ops -> {"none", "pending"} \cup Answers] /\ sta \in [Txns -> TxnStates]
      /\ out \in [Txns -> Int] /\ que \in Seq(Txns)
  BY DEF Clients, Ops, TxnStates
<1>2. e = [c EXCEPT !.result = res, !.status = sta, !.queue = que, !.output = out]
  BY DEF Clients, Enqueued
<1> HIDE DEF res, sta, out, que
<1>3. e \in Clients
  BY <1>1, <1>2 DEF Clients
<1>4. /\ SameConn(c, e) /\ e.puts = c.puts /\ e.up = c.up
      /\ e.tries = c.tries /\ e.abort = c.abort
      /\ e.queue = que /\ e.result = res /\ e.status = sta /\ e.output = out
  BY <1>2 DEF Clients, SameConn
<1> QED BY <1>3, <1>4 DEF Queueing, res, sta, out, que

(***************************************************************************)
(* The queue keeps its form.                                               *)
(***************************************************************************)
LEMMA EnqueuedQueue ==
    ASSUME NEW c \in Clients, Queued(c), NEW t \in Txns, c.result[t] = "none",
           NEW x \in Int, NEW e, e = Enqueued(c, t, x)
    PROVE  /\ Queued(e) /\ \A q : WriteFor(c, q) => WriteFor(e, q)
           /\ t \notin ToSet(c.queue) /\ c.status[t] = "initializing"
<1>1. /\ e \in Clients /\ SameConn(c, e) /\ e.puts = c.puts /\ e.up = c.up
      /\ e.tries = c.tries /\ e.abort = c.abort
      /\ e.queue = Append(c.queue, t)
      /\ e.result = [c.result EXCEPT ![t] = "pending"]
      /\ e.status = [c.status EXCEPT ![t] = "run"]
      /\ e.output = [c.output EXCEPT ![t] = x]
  BY EnqueuedFields DEF Queueing
<1>2. c.queue \in Seq(Txns) /\ c.result \in [Ops -> {"none", "pending"} \cup Answers]
      /\ c.status \in [Txns -> TxnStates] /\ t \in Ops /\ c.tries \in [Txns -> Nat]
  BY DEF Clients, Ops
<1>3. t \notin ToSet(c.queue) /\ c.status[t] = "initializing" /\ c.tries[t] = 0
  BY DEF Queued
<1>4. /\ Len(e.queue) = Len(c.queue) + 1 /\ Len(c.queue) \in Nat
      /\ \A i \in 1..Len(c.queue) : e.queue[i] = c.queue[i]
      /\ e.queue[Len(c.queue) + 1] = t /\ e.queue \in Seq(Txns)
  BY <1>1, <1>2, AppendLast
<1>5. \A i \in 1..Len(c.queue) : c.queue[i] \in ToSet(c.queue) /\ c.queue[i] # t
  BY <1>2, <1>3 DEF ToSet
<1>6. \A i \in 1..Len(e.queue) : i \in 1..Len(c.queue) \/ i = Len(c.queue) + 1
  BY <1>4
<1>7. Injective(e.queue)
  <2> SUFFICES ASSUME NEW i \in 1..Len(e.queue), NEW j \in 1..Len(e.queue),
                      e.queue[i] = e.queue[j]
               PROVE  i = j
    BY DEF Injective
  <2>1. CASE i \in 1..Len(c.queue) /\ j \in 1..Len(c.queue)
    BY <1>4, <2>1 DEF Queued, Injective
  <2> QED BY <1>4, <1>5, <1>6, <2>1
<1>8. ToSet(e.queue) = ToSet(c.queue) \cup {t}
  <2>1. ASSUME NEW y \in ToSet(e.queue) PROVE y \in ToSet(c.queue) \cup {t}
    <3>1. PICK i \in 1..Len(e.queue) : y = e.queue[i]
      BY <1>4 DEF ToSet
    <3> QED BY <1>4, <1>5, <1>6, <3>1
  <2>2. ASSUME NEW y \in ToSet(c.queue) PROVE y \in ToSet(e.queue)
    <3>1. PICK i \in 1..Len(c.queue) : y = c.queue[i]
      BY <1>2 DEF ToSet
    <3>2. i \in 1..Len(e.queue) /\ y = e.queue[i]
      BY <1>4, <3>1
    <3> QED BY <1>4, <3>2 DEF ToSet
  <2>3. t \in ToSet(e.queue)
    <3>1. Len(c.queue) + 1 \in 1..Len(e.queue)
      BY <1>4
    <3> QED BY <1>4, <3>1 DEF ToSet
  <2> QED BY <2>1, <2>2, <2>3
<1>9. Queued(e)
  <2> SUFFICES ASSUME NEW u \in Txns
               PROVE  /\ e.status[u] # "needsabort"
                      /\ u \in ToSet(e.queue) <=> e.status[u] \in {"run", "sent"}
                      /\ u \in ToSet(e.queue) <=> e.result[u] = "pending"
                      /\ e.status[u] = "initializing" <=> e.result[u] = "none"
                      /\ e.status[u] = "run" => e.tries[u] < MaxTries
                      /\ e.tries[u] <= MaxTries
                      /\ e.status[u] = "initializing" => e.tries[u] = 0
    BY <1>7 DEF Queued
  <2>1. MaxTries \in Nat /\ MaxTries > 0
    BY BoundsAssumption
  <2>2. CASE u = t
    <3>1. e.status[u] = "run" /\ e.result[u] = "pending" /\ e.tries[u] = 0 /\ u \in ToSet(e.queue)
      BY <1>1, <1>2, <1>3, <1>8, <2>2
    <3> QED BY <2>1, <3>1
  <2>3. CASE u # t
    <3>1. /\ e.status[u] = c.status[u] /\ e.result[u] = c.result[u] /\ e.tries[u] = c.tries[u]
          /\ u \in ToSet(e.queue) <=> u \in ToSet(c.queue)
      BY <1>1, <1>2, <1>8, <2>3 DEF Ops
    <3> QED BY <3>1 DEF Queued
  <2> QED BY <2>2, <2>3
<1>10. \A q : WriteFor(c, q) => WriteFor(e, q)
  <2> TAKE q
  <2> HAVE WriteFor(c, q)
  <2>1. PICK w \in Writes : q = WritePut(w) /\ c.result[w] = "pending"
    BY DEF WriteFor
  <2>2. e.result[w] = "pending"
    BY <1>1, <1>2, <2>1 DEF Ops
  <2> QED BY <2>1, <2>2 DEF WriteFor
<1> QED BY <1>3, <1>9, <1>10

\* What the block of a new transaction is given: the output of the last one
\* that is queued, or the cache.
Input(c) == IF c.queue = <<>> THEN c.cache ELSE <<c.output[Last(c.queue)]>>

\* startTransaction once the counter is listened to.
Started(c, t) == sendAllReadyTransactions(Enqueued(c, t, Block(Input(c))))

\* What goes out when a transaction has been started: nothing, or a put made
\* from the cache.
Begun(c, d) ==
    \/ d.puts = c.puts /\ d.up = c.up
    \/ \E p \in Puts : /\ GoesOut(c, d, p) /\ p.hashed /\ p.hash = c.cache
                       /\ p.val = Len(p.ops) + Val(c.cache)

(***************************************************************************)
(* startTransaction while others are queued: the transaction waits behind  *)
(* them.                                                                   *)
(***************************************************************************)
LEMMA StartedWaits ==
    ASSUME NEW c, NEW t \in Txns, c.result[t] = "none", c.queue # <<>>,
           NEW a \in Seq(AckOf), NEW ap,
           NEW dn \in Seq(DownMessages), NEW sv, NEW br \in Nat,
           Sound(c, c.puts, a, 1..Len(a), ap), Conn(c, dn, sv, ap, br),
           NEW d, d = Started(c, t)
    PROVE  /\ Sound(d, d.puts, a, 1..Len(a), ap) /\ Conn(d, dn, sv, ap, br)
           /\ SameConn(c, d) /\ Begun(c, d)
           /\ Pends(c, d, t)
<1> DEFINE last == c.output[Last(c.queue)]
           x == Block(Input(c))
           e == Enqueued(c, t, x)
           n == Len(c.queue)
<1>1. /\ c \in Clients /\ c.puts \in Seq(Outstanding) /\ Queued(c)
      /\ Standing(c, c.puts, a, 1..Len(a)) /\ Applied(c, c.puts, a, 1..Len(a), ap)
  BY DEF Sound
<1>2. c.queue \in Seq(Txns) /\ c.output \in [Txns -> Int] /\ n \in Nat /\ n # 0
      /\ c.status \in [Txns -> TxnStates] /\ Len(c.queue) \in 1..Len(c.queue)
      /\ c.result \in [Ops -> {"none", "pending"} \cup Answers]
  BY <1>1 DEF Clients
<1>3. Last(c.queue) = c.queue[n] /\ c.queue[n] \in Txns /\ last \in Int
  BY <1>2 DEF Last
<1>4. x = last + 1 /\ x \in Int
  <2>1. <<last>> # <<>> /\ <<last>>[1] = last
    OBVIOUS
  <2> HIDE DEF last
  <2>2. Block(<<last>>) = last + 1
    BY <2>1 DEF Block
  <2> QED BY <1>3, <2>2 DEF Input, last
<1> HIDE DEF x, n, last
<1>4a. e = Enqueued(c, t, x)
  OBVIOUS
<1> HIDE DEF e
<1>5. /\ e \in Clients /\ SameConn(c, e) /\ e.puts = c.puts /\ e.up = c.up
      /\ e.tries = c.tries /\ e.abort = c.abort
      /\ e.queue = Append(c.queue, t)
      /\ e.result = [c.result EXCEPT ![t] = "pending"]
      /\ e.status = [c.status EXCEPT ![t] = "run"]
      /\ e.output = [c.output EXCEPT ![t] = x]
  <2>1. e \in Clients /\ Queueing(c, e, t, x)
    BY <1>1, <1>4, <1>4a, EnqueuedFields
  <2> QED BY <2>1 DEF Queueing
<1>6. /\ Queued(e) /\ \A q : WriteFor(c, q) => WriteFor(e, q)
      /\ t \notin ToSet(c.queue) /\ c.status[t] = "initializing"
  BY <1>1, <1>4, <1>4a, EnqueuedQueue
<1>7. d = sendAllReadyTransactions(e)
  BY <1>4a DEF Started, x
<1>8. /\ Len(e.queue) = n + 1
      /\ \A i \in 1..n : e.queue[i] = c.queue[i]
      /\ e.queue[n + 1] = t /\ e.queue \in Seq(Txns)
  BY <1>2, <1>5, AppendLast DEF n
<1>9. \A i \in 1..n : /\ c.queue[i] \in ToSet(c.queue) /\ c.queue[i] # t /\ c.queue[i] \in Txns
                      /\ e.status[c.queue[i]] = c.status[c.queue[i]]
                      /\ e.output[c.queue[i]] = c.output[c.queue[i]]
  <2> TAKE i \in 1..n
  <2>1. c.queue[i] \in ToSet(c.queue) /\ c.queue[i] \in Txns
    BY <1>2 DEF ToSet, n
  <2>2. c.queue[i] # t
    BY <1>6, <2>1
  <2> QED BY <1>2, <1>5, <2>1, <2>2
<1>10. e.status[t] = "run" /\ e.output[t] = x
  BY <1>2, <1>5
<1>11. ASSUME NEW p, TxnFor(c, p) PROVE TxnFor(e, p)
  <2> DEFINE l == Len(p.ops)
  <2>1. /\ p.hashed /\ l \in 1..n
        /\ \A i \in 1..l : p.ops[i] = c.queue[i]
        /\ \A i \in 1..l : c.status[c.queue[i]] = "sent"
        /\ \A i \in l+1..n :
            /\ c.status[c.queue[i]] = "run"
            /\ ~c.reread => c.output[c.queue[i]] = p.val + i - l
        /\ p.val = c.output[c.queue[l]]
    BY <1>11 DEF TxnFor, n
  <2> HIDE DEF l
  <2>2. l \in 1..n+1 /\ l \in 1..n /\ \A i \in 1..l : i \in 1..n
    BY <1>2, <2>1
  <2>3. \A i \in 1..l : p.ops[i] = e.queue[i] /\ e.status[e.queue[i]] = "sent"
    BY <1>8, <1>9, <2>1, <2>2
  <2>4. p.val = e.output[e.queue[l]]
    BY <1>8, <1>9, <2>1, <2>2
  <2>5. ASSUME NEW i \in l+1..n+1
        PROVE  /\ e.status[e.queue[i]] = "run"
               /\ ~e.reread => e.output[e.queue[i]] = p.val + i - l
    <3>1. CASE i \in l+1..n
      <4>1. i \in 1..n
        BY <2>2, <3>1
      <4>2. e.queue[i] = c.queue[i]
        BY <1>8, <4>1
      <4>3. /\ e.status[c.queue[i]] = c.status[c.queue[i]]
            /\ e.output[c.queue[i]] = c.output[c.queue[i]]
        BY <1>9, <4>1
      <4>4. /\ c.status[c.queue[i]] = "run"
            /\ ~c.reread => c.output[c.queue[i]] = p.val + i - l
        BY <2>1, <3>1
      <4> QED BY <1>5, <4>2, <4>3, <4>4 DEF SameConn
    <3>2. CASE i = n + 1 /\ e.reread
      BY <1>8, <1>10, <3>2
    <3>3. CASE i = n + 1 /\ ~e.reread
      <4>0. ~c.reread
        BY <1>5, <3>3 DEF SameConn
      <4>1. p.val \in Int /\ c.output[c.queue[n]] = p.val + n - l
        <5>1. c.queue[l] \in Txns
          BY <1>2, <2>2 DEF n
        <5>2. p.val \in Int
          BY <1>2, <2>1, <5>1
        <5>3. CASE l = n
          BY <1>2, <2>1, <5>2, <5>3
        <5>4. CASE n \in l+1..n
          BY <2>1, <4>0, <5>2, <5>4
        <5> QED BY <1>2, <2>2, <5>2, <5>3, <5>4
      <4>2. x = (p.val + n - l) + 1
        BY <1>3, <1>4, <4>1 DEF last
      <4>3. x = p.val + (n + 1) - l
        <5>1. n \in Int /\ l \in Int /\ p.val \in Int
          BY <1>2, <2>2, <4>1
        <5> QED BY <4>2, <5>1
      <4> QED BY <1>8, <1>10, <3>3, <4>3
    <3> QED BY <1>2, <2>2, <3>1, <3>2, <3>3
  <2> QED BY <1>8, <2>1, <2>2, <2>3, <2>4, <2>5 DEF TxnFor, l
<1>12. \A q : Stands(c, q) => Stands(e, q)
  BY <1>6, <1>11 DEF Stands
<1>13. d = e
  <2>1. PICK p : TxnFor(c, p)
    <3>1. CASE \E i \in 1..Len(c.puts) : c.puts[i].put.hashed
      <4>1. PICK i \in 1..Len(c.puts) : c.puts[i].put.hashed
        BY <3>1
      <4>2. Stands(c, c.puts[i].put)
        BY <1>1 DEF Standing
      <4> QED BY <4>1, <4>2, WritePutType DEF Stands, WriteFor
    <3>2. CASE \E i \in 1..Len(a) : a[i].put.hashed
      <4>1. PICK i \in 1..Len(a) : a[i].put.hashed
        BY <3>2
      <4>2. Stands(c, a[i].put)
        BY <1>1 DEF Standing
      <4> QED BY <4>1, <4>2, WritePutType DEF Stands, WriteFor
    <3> QED BY <1>1, <3>1, <3>2 DEF Standing
  <2>2. 1 \in 1..Len(p.ops) /\ 1 \in 1..n /\ c.status[c.queue[1]] = "sent"
    BY <1>2, <2>1 DEF TxnFor, n
  <2>3. e.queue[1] \in ToSet(e.queue) /\ e.status[e.queue[1]] = "sent"
    <3>1. 1 \in 1..Len(e.queue)
      BY <1>2, <1>8
    <3>2. e.queue[1] \in ToSet(e.queue)
      BY <1>8, <3>1 DEF ToSet
    <3> QED BY <1>8, <1>9, <2>2, <3>2
  <2> QED BY <1>7, <2>3 DEF sendAllReadyTransactions
<1>14. Standing(e, c.puts, a, 1..Len(a))
  BY <1>1, <1>12 DEF Standing
<1>15. Applied(e, c.puts, a, 1..Len(a), ap)
  <2>1. ASSUME NEW u \in Txns, e.status[u] \in {"initializing", "run"} PROVE ap[u] = 0
    <3>1. CASE u = t
      BY <1>1, <1>6, <3>1 DEF Applied
    <3>2. CASE u # t
      <4>1. e.status[u] = c.status[u]
        BY <1>2, <1>5, <3>2
      <4> QED BY <1>1, <2>1, <4>1 DEF Applied
    <3> QED BY <3>1, <3>2
  <2>2. e.state = c.state
    BY <1>5 DEF SameConn
  <2> QED BY <1>1, <2>1, <2>2 DEF Applied
<1>16. Sound(d, d.puts, a, 1..Len(a), ap)
  BY <1>1, <1>5, <1>6, <1>13, <1>14, <1>15 DEF Sound
<1>17. Conn(d, dn, sv, ap, br)
  <2>1. SameWire(c, e)
    BY <1>2, <1>5 DEF SameWire, SameConn, Ops
  <2> QED BY <1>13, <2>1, SameWireConn
<1> QED BY <1>5, <1>13, <1>16, <1>17 DEF Begun, Pends

(***************************************************************************)
(* startTransaction on an empty queue: the transaction goes out.           *)
(***************************************************************************)
LEMMA StartedSends ==
    ASSUME NEW c, NEW t \in Txns, c.result[t] = "none", c.queue = <<>>,
           NEW a \in Seq(AckOf), NEW ap,
           NEW dn \in Seq(DownMessages), NEW sv, NEW br \in Nat,
           Sound(c, c.puts, a, 1..Len(a), ap), Conn(c, dn, sv, ap, br),
           NEW d, d = Started(c, t)
    PROVE  /\ Sound(d, d.puts, a, 1..Len(a), ap) /\ Conn(d, dn, sv, ap, br)
           /\ SameConn(c, d) /\ Begun(c, d)
           /\ Pends(c, d, t)
<1> DEFINE x == Block(Input(c))
           e == Enqueued(c, t, x)
           p == QueuePut(d)
<1>1. /\ c \in Clients /\ c.puts \in Seq(Outstanding) /\ Queued(c)
      /\ Standing(c, c.puts, a, 1..Len(a)) /\ Applied(c, c.puts, a, 1..Len(a), ap)
  BY DEF Sound
<1>2. /\ c.queue \in Seq(Txns) /\ c.output \in [Txns -> Int] /\ c.cache \in Nodes
      /\ c.status \in [Txns -> TxnStates] /\ c.tries \in [Txns -> Nat]
      /\ c.result \in [Ops -> {"none", "pending"} \cup Answers] /\ Len(c.queue) = 0
  BY <1>1 DEF Clients
<1>3. x = Val(c.cache) + 1 /\ x \in Int
  BY <1>2, BlockInt DEF Input, Block, Val
<1> HIDE DEF x
<1>4a. e = Enqueued(c, t, x)
  OBVIOUS
<1> HIDE DEF e
<1>5. /\ e \in Clients /\ SameConn(c, e) /\ e.puts = c.puts /\ e.up = c.up
      /\ e.tries = c.tries /\ e.abort = c.abort
      /\ e.queue = Append(c.queue, t)
      /\ e.result = [c.result EXCEPT ![t] = "pending"]
      /\ e.status = [c.status EXCEPT ![t] = "run"]
      /\ e.output = [c.output EXCEPT ![t] = x]
  <2>1. e \in Clients /\ Queueing(c, e, t, x)
    BY <1>1, <1>3, <1>4a, EnqueuedFields
  <2> QED BY <2>1 DEF Queueing
<1>6. /\ Queued(e) /\ \A q : WriteFor(c, q) => WriteFor(e, q)
      /\ t \notin ToSet(c.queue) /\ c.status[t] = "initializing"
  BY <1>1, <1>3, <1>4a, EnqueuedQueue
<1>7. d = sendAllReadyTransactions(e)
  BY <1>4a DEF Started, x
<1>8. e.queue = <<t>> /\ Len(e.queue) = 1 /\ e.queue[1] = t /\ e.queue # <<>>
  BY <1>5
<1>9. ToSet(e.queue) = {t}
  BY <1>8 DEF ToSet
<1>10. \A u \in ToSet(e.queue) : e.status[u] = "run"
  BY <1>2, <1>5, <1>9
<1>11. /\ d \in Clients /\ SameConn(e, d) /\ QueuePut(d) = QueuePut(e)
       /\ d.queue = e.queue /\ d.abort = e.abort
       /\ d.output = e.output /\ d.result = e.result
       /\ \A u \in Txns : d.status[u] = IF u \in ToSet(e.queue) THEN "sent" ELSE e.status[u]
       /\ \A u \in Txns : d.tries[u] = IF u \in ToSet(e.queue) THEN e.tries[u] + 1 ELSE e.tries[u]
       /\ d.queue = <<>> => d.puts = e.puts /\ d.up = e.up
       /\ d.queue # <<>> => GoesOut(e, d, QueuePut(d))
  BY <1>5, <1>7, <1>10, SendReady
<1>12. GoesOut(e, d, p) /\ SameConn(c, d) /\ GoesOut(c, d, p)
  BY <1>5, <1>8, <1>11 DEF SameConn, GoesOut
<1>13. TxnFor(d, p)
  <2>1. \A u \in ToSet(d.queue) : d.status[u] = "sent"
    BY <1>9, <1>11
  <2> QED BY <1>8, <1>11, <2>1, QueueOut
<1>14. p \in Puts
  BY <1>8, <1>11, QueuePutType
<1>15. p.hashed /\ p.hash = c.cache /\ p.ops = <<t>> /\ p.val = 1 + Val(c.cache)
  <2>1. Last(d.queue) = t
    BY <1>8, <1>11 DEF Last
  <2>2. d.output[t] = x
    BY <1>2, <1>5, <1>11
  <2>3. d.cache = c.cache
    BY <1>12 DEF SameConn
  <2>4. Val(c.cache) + 1 = 1 + Val(c.cache)
    <3>1. Val(c.cache) \in Int
      <4>1. c.cache = <<>> \/ Len(c.cache) # 0
        BY <1>2 DEF Nodes
      <4> QED BY <1>2, <4>1 DEF Nodes, Val
    <3> QED BY <3>1
  <2> QED BY <1>3, <1>8, <1>11, <2>1, <2>2, <2>3, <2>4 DEF QueuePut
<1> HIDE DEF p
<1>16. ASSUME NEW q, Stands(c, q) PROVE Stands(d, q) /\ ~q.hashed
  <2>1. ~TxnFor(c, q)
    BY <1>2 DEF TxnFor
  <2>2. WriteFor(c, q)
    BY <1>16, <2>1 DEF Stands
  <2>3. WriteFor(e, q)
    BY <1>6, <2>2
  <2>4. WriteFor(d, q)
    BY <1>11, <2>3 DEF WriteFor
  <2> QED BY <2>2, <2>4, WritePutType DEF Stands, WriteFor
<1>17. Queued(d)
  <2> SUFFICES ASSUME NEW u \in Txns
               PROVE  /\ d.status[u] # "needsabort"
                      /\ u \in ToSet(d.queue) <=> d.status[u] \in {"run", "sent"}
                      /\ u \in ToSet(d.queue) <=> d.result[u] = "pending"
                      /\ d.status[u] = "initializing" <=> d.result[u] = "none"
                      /\ d.status[u] = "run" => d.tries[u] < MaxTries
                      /\ d.tries[u] <= MaxTries
                      /\ d.status[u] = "initializing" => d.tries[u] = 0
    BY <1>6, <1>11 DEF Queued
  <2>1. MaxTries \in Nat /\ e.tries[u] \in Nat
    BY <1>2, <1>5, BoundsAssumption
  <2> QED BY <1>6, <1>9, <1>10, <1>11, <2>1 DEF Queued
<1>18. Unapplied(p, ap) /\ ap[t] = 0
  <2>1. ap[t] = 0
    BY <1>1, <1>6 DEF Applied
  <2>2. ToSet(p.ops) = {t}
    BY <1>15 DEF ToSet
  <2> QED BY <2>1, <2>2 DEF Unapplied
<1>19. Applied(d, c.puts, a, 1..Len(a), ap)
  <2>1. ASSUME NEW u \in Txns, d.status[u] \in {"initializing", "run"} PROVE ap[u] = 0
    <3>1. CASE u = t
      BY <1>18, <3>1
    <3>2. CASE u # t
      <4>1. d.status[u] = e.status[u]
        <5>1. u \notin ToSet(e.queue)
          BY <1>9, <3>2
        <5> QED BY <1>11, <5>1
      <4>2. e.status[u] = c.status[u]
        BY <1>2, <1>5, <3>2
      <4>3. c.status[u] \in {"initializing", "run"}
        BY <2>1, <4>1, <4>2
      <4> QED BY <1>1, <4>3 DEF Applied
    <3> QED BY <3>1, <3>2
  <2>2. d.state = c.state
    BY <1>12 DEF SameConn
  <2> QED BY <1>1, <2>1, <2>2 DEF Applied
<1>20. Clear(c.puts, a, 1..Len(a), p)
  BY <1>1, <1>15, <1>16 DEF Clear, Apart, Standing
<1>21. Sound(d, d.puts, a, 1..Len(a), ap)
  <2> DEFINE sent == c.state = "connected"
  <2>1. sent \in BOOLEAN /\ (d.state # "connected" => ~sent)
    BY <1>12 DEF SameConn
  <2>2. d.puts = Append(c.puts, [put |-> p, sent |-> sent])
    BY <1>12 DEF GoesOut
  <2> HIDE DEF sent
  <2>3. Stands(d, p)
    BY <1>13 DEF Stands, p
  <2>4. Sound(d, Append(c.puts, [put |-> p, sent |-> sent]), a, 1..Len(a), ap)
    BY <1>1, <1>11, <1>14, <1>15, <1>16, <1>17, <1>18, <1>19, <1>20, <2>1, <2>3, AppendedSound
  <2> QED BY <2>2, <2>4
<1>22. Conn(e, dn, sv, ap, br)
  <2>1. SameWire(c, e)
    BY <1>2, <1>5 DEF SameWire, SameConn, Ops
  <2> QED BY <2>1, SameWireConn
<1>23. Made(e, p, p)
  <2>1. e.cache = c.cache
    BY <1>5 DEF SameConn
  <2>2. Len(p.ops) = 1
    BY <1>15
  <2> QED BY <1>15, <2>1, <2>2 DEF Made
<1>24. Conn(d, dn, sv, ap, br)
  <2>1. \A i \in 1..Len(e.puts) : e.puts[i].put # p
    BY <1>1, <1>5, <1>15, <1>16 DEF Standing
  <2>2. d.puts = Append(e.puts, [put |-> p, sent |-> e.state = "connected"])
    BY <1>12 DEF GoesOut
  <2>3. Sends(e, d, e.puts, d.puts, p, p, ap)
    BY <1>12, <1>18, <1>23, <2>1, <2>2 DEF Sends
  <2>4. \A o \in Ops : e.result[o] # "none" => d.result[o] # "none"
    BY <1>11
  <2> QED BY <1>5, <1>11, <1>14, <1>22, <2>3, <2>4, SendsConn
<1>25. Begun(c, d)
  <2>1. Len(p.ops) = 1
    BY <1>15
  <2> QED BY <1>12, <1>14, <1>15, <2>1 DEF Begun
<1> QED BY <1>5, <1>11, <1>12, <1>21, <1>24, <1>25 DEF Pends

-----------------------------------------------------------------------------
\* The two parts of the inductive invariant, of the current state.
SoundNow == Sound(client, client.puts, client.putsToAck, 1..Len(client.putsToAck), applied)
ConnNow == Conn(client, down, served, applied, breaks)

\* The third part: the types of what is not the client's, and that reads that
\* are over are still listened to.
Tended ==
    /\ IsFiniteSet(client.listens) /\ client.over \subseteq client.listens
    /\ down \in Seq(DownMessages) /\ served \in SUBSET Queries /\ node \in Nodes
    /\ applied \in [Ops -> Nat] /\ breaks \in 0..MaxBreaks
    /\ denials \in 0..MaxDenials /\ reads \in 0..MaxReads

\* The fourth part: a refused authentication is on its way only if one more
\* break, which it causes, is within the bound.
Refusals ==
    \A i \in 1..Len(down) :
        IsAuthReply(down[i]) /\ down[i].status # "ok" => breaks < MaxBreaks

\* The inductive invariant.
Inv == SoundNow /\ ConnNow /\ Tended /\ Refusals

\* The step is one of the contract, or none.
Abides == Contract!Next \/ UNCHANGED <<client.result, applied>>

(***************************************************************************)
(* The answers held back are answers.                                      *)
(***************************************************************************)
LEMMA AcksAre ==
    ASSUME NEW c \in Clients PROVE c.putsToAck \in Seq(AckOf)
<1>1. c.putsToAck \in Seq(Acks)
  BY DEF Clients
<1>2. Acks \subseteq AckOf
  BY DEF Acks, AckOf, Statuses
<1> QED BY <1>1, <1>2

(***************************************************************************)
(* Answering calls the truth is a step of the contract.                    *)
(***************************************************************************)
LEMMA SpokenStep ==
    ASSUME client \in Clients, client' \in Clients, Spoken(client, client', applied),
           applied' = applied
    PROVE  Abides
<1> DEFINE S == {o \in Ops : client'.result[o] # client.result[o]}
           answer == [o \in S |-> client'.result[o]]
<1>1. /\ client.result \in [Ops -> {"none", "pending"} \cup Answers]
      /\ client'.result \in [Ops -> {"none", "pending"} \cup Answers]
  BY DEF Clients
<1>2. \A o \in S : client.result[o] = "pending" /\ Truth(o, client'.result[o], applied)
  BY DEF Spoken
<1>3. answer \in [S -> Answers]
  BY <1>1, <1>2 DEF Truth, Answers
<1>4. \A o \in S : Contract!Truthful(o, answer[o])
  <2> TAKE o \in S
  <2>1. Truth(o, client'.result[o], applied)
    BY <1>2
  <2> QED BY <2>1 DEF Truth, Contract!Truthful
<1>5. client'.result = [o \in Ops |-> IF o \in S THEN answer[o] ELSE client.result[o]]
  <2> DEFINE new == [o \in Ops |-> IF o \in S THEN answer[o] ELSE client.result[o]]
  <2>1. \A o \in Ops : new[o] = client'.result[o]
    OBVIOUS
  <2> QED BY <1>1, <2>1
<1>6. S \in SUBSET Ops
  OBVIOUS
<1>7. Contract!Ops = Ops /\ Contract!Answers = Answers
  BY DEF Contract!Ops, Ops, Contract!Answers, Answers
<1> HIDE DEF S, answer
<1>8. Contract!Answer(S)
  BY <1>2, <1>3, <1>4, <1>5, <1>7 DEF Contract!Answer
<1> QED BY <1>6, <1>7, <1>8 DEF Abides, Contract!Next

(***************************************************************************)
(* So is making a call.                                                    *)
(***************************************************************************)
LEMMA IssueStep ==
    ASSUME NEW o \in Ops, client.result[o] = "none",
           Pends(client, client', o), applied' = applied
    PROVE  Abides
<1>1. Contract!Ops = Ops
  BY DEF Contract!Ops, Ops
<1>2. Contract!Issue(o)
  BY DEF Contract!Issue, Pends
<1> QED BY <1>1, <1>2 DEF Abides, Contract!Next

(***************************************************************************)
(* The invariant, and the contract's initial condition, hold when the app  *)
(* starts.                                                                 *)
(***************************************************************************)
LEMMA InvInit ==
    ASSUME Init PROVE Inv /\ Contract!Init
<1> DEFINE n == 0
           nil == <<>>
           st == [t \in Txns |-> "initializing"]
           ab == [t \in Txns |-> "none"]
           tr == [t \in Txns |-> 0]
           re == [o \in Ops |-> "none"]
<1>1. /\ n \in Int /\ nil \in Seq(Outstanding) /\ nil \in Seq(Acks) /\ nil \in Seq(UpMessages)
      /\ nil \in Seq(Txns) /\ nil \in Nodes /\ Len(nil) = 0
      /\ nil \in Seq(DownMessages)
  BY DEF Nodes
<1>2. /\ st \in [Txns -> TxnStates] /\ ab \in [Txns -> {"none"} \cup Answers]
      /\ tr \in [Txns -> Nat] /\ tr \in [Txns -> Int]
      /\ re \in [Ops -> {"none", "pending"} \cup Answers]
  BY DEF TxnStates
<1>3. client = [state |-> "disconnected", listens |-> {}, unackedListens |-> n,
                 over |-> {}, puts |-> nil, putsToAck |-> nil, up |-> nil, queue |-> nil,
                 cache |-> nil, reread |-> FALSE, status |-> st, abort |-> ab, tries |-> tr, output |-> tr,
                 result |-> re]
  BY DEF Init
<1>4. /\ down = nil /\ served = {} /\ node \in FirstNodes /\ applied = [o \in Ops |-> 0]
      /\ reads = 0 /\ breaks = 0 /\ denials = 0
  BY DEF Init
<1>5. /\ \A t \in Txns : st[t] = "initializing" /\ tr[t] = 0
      /\ \A o \in Ops : re[o] = "none"
      /\ Txns \subseteq Ops /\ Writes \subseteq Ops /\ applied \in [Ops -> Nat]
      /\ \A o \in Ops : applied[o] = 0
  BY <1>4 DEF Ops
<1>6. MaxTries \in Nat /\ MaxReads \in Nat /\ MaxBreaks \in Nat /\ MaxDenials \in Nat
  BY BoundsAssumption
<1>7. \A X : Number(nil, X) = 0
  BY <1>1, NumberNone
<1>8. node \in Nodes
  <2>1. <<0>> \in Seq(Int) /\ Len(<<0>>) <= 1 /\ <<>> \in Seq(Int) /\ Len(<<>>) <= 1
    OBVIOUS
  <2>2. node = <<>> \/ node = <<0>>
    BY <1>4, FirstNodesAssumption
  <2>3. <<0>> \in Nodes /\ <<>> \in Nodes
    BY <2>1 DEF Nodes
  <2> QED BY <2>2, <2>3
<1>9. Contract!Init
  <2>1. client.result = re
    BY <1>3
  <2>2. Contract!Ops = Ops
    BY DEF Contract!Ops, Ops
  <2> QED BY <1>4, <2>1, <2>2 DEF Contract!Init
<1>10. n = 0
  OBVIOUS
<1> HIDE DEF n, nil, st, ab, tr, re
<1>11. client \in Clients
  BY <1>1, <1>2, <1>3 DEF Clients, States
<1>12. /\ client.state = "disconnected" /\ client.listens = {} /\ client.unackedListens = n
       /\ client.over = {} /\ client.puts = nil /\ client.putsToAck = nil /\ client.up = nil
       /\ client.queue = nil /\ client.status = st /\ client.tries = tr /\ client.result = re
  BY <1>3
<1>13. ToSet(nil) = {}
  BY <1>1 DEF ToSet
<1>14. Queued(client)
  BY <1>1, <1>5, <1>6, <1>12, <1>13 DEF Queued, Injective
<1>15. nil = <<>>
  BY DEF nil
<1>16. SoundNow
  BY <1>1, <1>5, <1>11, <1>12, <1>14, <1>15 DEF SoundNow, Sound, Standing, Applied
<1>17. ConnNow
  <2>1. Wire(client, down, applied)
    BY <1>1, <1>4, <1>12 DEF Wire
  <2>2. Link(client, down, served)
    BY <1>4, <1>12, <1>15 DEF Link
  <2>3. Unacked(client, down)
    BY <1>4, <1>7, <1>10, <1>12 DEF Unacked
  <2>4. Repeats(client, applied, breaks)
    BY <1>1, <1>4, <1>5, <1>12 DEF Repeats, Due
  <2> QED BY <2>1, <2>2, <2>3, <2>4 DEF ConnNow, Conn
<1>18. Tended
  BY <1>1, <1>4, <1>5, <1>6, <1>8, <1>12, FS_EmptySet DEF Tended
<1>19. Refusals
  BY <1>1, <1>4 DEF Refusals
<1> QED BY <1>9, <1>16, <1>17, <1>18, <1>19 DEF Inv

(***************************************************************************)
(* The invariant gives the types.                                          *)
(***************************************************************************)
LEMMA InvTypeOK ==
    ASSUME Inv PROVE TypeOK
<1>1. client \in Clients /\ Queued(client)
  BY DEF Inv, SoundNow, Sound
<1>2. /\ client.state \in States /\ client.listens \in SUBSET Queries
      /\ client.over \in SUBSET Reads /\ client.puts \in Seq(Outstanding)
      /\ client.putsToAck \in Seq(Acks) /\ client.up \in Seq(UpMessages)
      /\ client.queue \in Seq(Txns) /\ client.cache \in Nodes
      /\ client.status \in [Txns -> TxnStates] /\ client.tries \in [Txns -> Nat]
      /\ client.result \in [Ops -> {"none", "pending"} \cup Answers]
  BY <1>1 DEF Clients
<1>3. Tended /\ Unacked(client, down) /\ Repeats(client, applied, breaks)
  BY DEF Inv, ConnNow, Conn
<1>4. client.unackedListens \in Nat
  <2>1. Number(client.up, ListensUp) \in Nat /\ Number(down, ListensDown) \in Nat
    BY <1>2, <1>3, NumberNat DEF Tended
  <2> QED BY <1>3, <2>1 DEF Unacked
<1>5. \A i \in DOMAIN client.puts : client.puts[i].put \in Puts /\ client.puts[i].sent \in BOOLEAN
  <2> TAKE i \in DOMAIN client.puts
  <2>1. client.puts[i] \in Outstanding
    BY <1>2
  <2> QED BY <2>1 DEF Outstanding
<1>6. \A i \in DOMAIN client.putsToAck : client.putsToAck[i].put \in Puts
  <2> TAKE i \in DOMAIN client.putsToAck
  <2>1. client.putsToAck[i] \in Acks
    BY <1>2
  <2> QED BY <2>1 DEF Acks
<1>7. client.tries \in [Txns -> 0..MaxTries]
  <2>1. \A t \in Txns : client.tries[t] \in Nat /\ client.tries[t] <= MaxTries
    BY <1>1, <1>2 DEF Queued
  <2> QED BY <1>2, <2>1, BoundsAssumption
<1>8. applied \in [Ops -> 0..(MaxBreaks + 1)]
  <2>1. \A o \in Ops : applied[o] \in 0..(MaxBreaks + 1)
    <3> TAKE o \in Ops
    <3>1. MaxBreaks \in Nat /\ breaks \in 0..MaxBreaks
      BY <1>3, BoundsAssumption DEF Tended
    <3>2. CASE o \in Txns
      BY <1>3, <3>1, <3>2 DEF Repeats
    <3>3. CASE o \in Writes
      BY <1>3, <3>1, <3>3 DEF Repeats
    <3> QED BY <3>2, <3>3 DEF Ops
  <2> QED BY <1>3, <2>1 DEF Tended
<1>9. IsNode(client.cache) /\ IsNode(node)
  BY <1>2, <1>3 DEF Tended, Nodes, IsNode
<1> QED BY <1>2, <1>3, <1>4, <1>5, <1>6, <1>7, <1>8, <1>9
        DEF TypeOK, Tended, States, TxnStates

-----------------------------------------------------------------------------
(***************************************************************************)
(* What every step starts from.                                            *)
(***************************************************************************)
LEMMA Now ==
    ASSUME Inv
    PROVE  /\ client \in Clients /\ client.putsToAck \in Seq(AckOf)
           /\ client.listens \in SUBSET Queries /\ client.puts \in Seq(Outstanding)
           /\ client.cache \in Nodes
           /\ Sound(client, client.puts, client.putsToAck, 1..Len(client.putsToAck), applied)
           /\ Conn(client, down, served, applied, breaks)
           /\ IsFiniteSet(client.listens) /\ client.over \subseteq client.listens
           /\ down \in Seq(DownMessages) /\ served \in SUBSET Queries /\ node \in Nodes
           /\ applied \in [Ops -> Nat] /\ breaks \in 0..MaxBreaks /\ breaks \in Nat
           /\ denials \in 0..MaxDenials /\ reads \in 0..MaxReads
<1>1. client \in Clients
  BY DEF Inv, SoundNow, Sound
<1>2. breaks \in 0..MaxBreaks => breaks \in Nat
  BY BoundsAssumption
<1> QED BY <1>1, <1>2, AcksAre DEF Inv, SoundNow, ConnNow, Tended, Clients

\* A step that leaves the server, and what is on its way from it, alone.
Quietly == UNCHANGED <<down, server, breaks>>

(***************************************************************************)
(* What is to be shown of such a step.                                     *)
(***************************************************************************)
LEMMA QuietlyInv ==
    ASSUME Inv, Quietly, reads' \in 0..MaxReads,
           IsFiniteSet(client'.listens), client'.over \subseteq client'.listens,
           client'.putsToAck = client.putsToAck,
           Sound(client', client'.puts, client.putsToAck, 1..Len(client.putsToAck), applied),
           Conn(client', down, served, applied, breaks)
    PROVE  Inv'
<1>1. /\ down' = down /\ served' = served /\ node' = node /\ applied' = applied
      /\ denials' = denials /\ breaks' = breaks
  BY DEF Quietly, server
<1>2. SoundNow'
  BY <1>1 DEF SoundNow
<1>3. ConnNow'
  BY <1>1 DEF ConnNow
<1>4. Tended' /\ Refusals'
  BY <1>1 DEF Inv, Tended, Refusals
<1> QED BY <1>2, <1>3, <1>4 DEF Inv

(***************************************************************************)
(* setValue keeps the invariant and the contract.                          *)
(***************************************************************************)
LEMMA SetValueStep ==
    ASSUME Inv, NEW w \in Writes, setValue(w)
    PROVE  Inv' /\ Abides /\ client'.reread = client.reread
<1>0. /\ client \in Clients /\ client.putsToAck \in Seq(AckOf)
      /\ Sound(client, client.puts, client.putsToAck, 1..Len(client.putsToAck), applied)
      /\ Conn(client, down, served, applied, breaks)
      /\ IsFiniteSet(client.listens) /\ client.over \subseteq client.listens
      /\ down \in Seq(DownMessages) /\ breaks \in Nat /\ reads \in 0..MaxReads
  BY Now
<1>1. client.result[w] = "none" /\ client' = putInternal(Asking(client, w), WritePut(w)) /\ Quietly
      /\ reads' = reads
  BY DEF setValue, Asking, Quietly, server
<1>2. /\ Sound(client', client'.puts, client.putsToAck, 1..Len(client.putsToAck), applied)
      /\ Conn(client', down, served, applied, breaks)
      /\ SameConn(client, client')
      /\ Pends(client, client', w)
  BY <1>0, <1>1, IssuedWrite
<1>3. Inv'
  BY <1>0, <1>1, <1>2, QuietlyInv DEF SameConn
<1>4. Abides
  BY <1>1, <1>2, IssueStep DEF Ops, Quietly, server
<1> QED BY <1>2, <1>3, <1>4 DEF SameConn

(***************************************************************************)
(* So does startTransaction, which listens to the counter first if nothing *)
(* does.                                                                   *)
(***************************************************************************)
LEMMA StartTransactionStep ==
    ASSUME Inv, NEW t \in Txns, startTransaction(t)
    PROVE  Inv' /\ Abides /\ client'.reread = client.reread
<1>0. /\ client \in Clients /\ client.putsToAck \in Seq(AckOf)
      /\ Sound(client, client.puts, client.putsToAck, 1..Len(client.putsToAck), applied)
      /\ Conn(client, down, served, applied, breaks)
      /\ IsFiniteSet(client.listens) /\ client.over \subseteq client.listens
      /\ down \in Seq(DownMessages) /\ breaks \in Nat /\ reads \in 0..MaxReads
  BY Now
<1> DEFINE c == IF Counter \in client.listens THEN client ELSE listen(client, Counter)
           a == client.putsToAck
<1>1. client.result[t] = "none" /\ client' = Started(c, t) /\ Quietly /\ reads' = reads
  BY DEF startTransaction, Started, Enqueued, Input, Quietly, server
<1>2. /\ c \in Clients /\ SameBut(client, c) /\ IsFiniteSet(c.listens) /\ client.listens \subseteq c.listens
      /\ Sound(c, c.puts, a, 1..Len(a), applied) /\ Conn(c, down, served, applied, breaks)
  <2>1. CASE Counter \in client.listens
    BY <1>0, <2>1 DEF SameBut, SameQueue
  <2>2. CASE Counter \notin client.listens
    <3>1. Counter \in Queries
      BY DEF Queries
    <3>2. c = listen(client, Counter)
      BY <2>2
    <3> HIDE DEF c
    <3>3. c \in Clients /\ SameBut(client, c) /\ c.listens = client.listens \cup {Counter}
      BY <1>0, <3>1, <3>2, ListenFields
    <3>4. Sound(c, c.puts, a, 1..Len(a), applied) /\ Conn(c, down, served, applied, breaks)
      <4> DEFINE K == 1..Len(a)
      <4>1. Sound(client, client.puts, a, K, applied)
        BY <1>0
      <4> HIDE DEF K, a
      <4>2. Sound(c, c.puts, a, K, applied) /\ Conn(c, down, served, applied, breaks)
        BY <1>0, <3>1, <3>2, <4>1, ListenStep
      <4> QED BY <4>2 DEF K
    <3>5. IsFiniteSet(c.listens)
      <4>1. IsFiniteSet(client.listens \cup {Counter})
        BY <1>0, FS_AddElement
      <4> QED BY <3>3, <4>1
    <3> QED BY <3>3, <3>4, <3>5
  <2> QED BY <2>1, <2>2
<1> HIDE DEF c
<1>3. c.result[t] = "none" /\ c.result = client.result
  BY <1>1, <1>2 DEF SameBut, SameQueue
<1>4. /\ Sound(client', client'.puts, a, 1..Len(a), applied)
      /\ Conn(client', down, served, applied, breaks)
      /\ SameConn(c, client')
      /\ Pends(c, client', t)
  <2>1. CASE c.queue = <<>>
    BY <1>0, <1>1, <1>2, <1>3, <2>1, StartedSends
  <2>2. CASE c.queue # <<>>
    BY <1>0, <1>1, <1>2, <1>3, <2>2, StartedWaits
  <2> QED BY <2>1, <2>2
<1>5. Inv'
  BY <1>0, <1>1, <1>2, <1>4, QuietlyInv DEF SameConn, SameBut
<1>6. Abides
  <2>1. Pends(client, client', t)
    BY <1>3, <1>4 DEF Pends
  <2> QED BY <1>1, <2>1, IssueStep DEF Ops, Quietly, server
<1>7. client'.reread = client.reread
  BY <1>2, <1>4 DEF SameConn, SameBut, SameQueue
<1> QED BY <1>5, <1>6, <1>7

(***************************************************************************)
(* A step that neither answers a call nor takes effect is none of the      *)
(* contract.                                                               *)
(***************************************************************************)
LEMMA SameResult ==
    ASSUME SameQueue(client, client'), applied' = applied PROVE Abides
BY DEF Abides, SameQueue

(***************************************************************************)
(* observeSingleEvent keeps the invariant and the contract.                *)
(***************************************************************************)
LEMMA ObserveStep ==
    ASSUME Inv, NEW q \in Reads, observeSingleEvent(q) PROVE Inv' /\ Abides
<1>0. /\ client \in Clients /\ client.putsToAck \in Seq(AckOf)
      /\ Sound(client, client.puts, client.putsToAck, 1..Len(client.putsToAck), applied)
      /\ Conn(client, down, served, applied, breaks)
      /\ IsFiniteSet(client.listens) /\ client.over \subseteq client.listens
      /\ down \in Seq(DownMessages) /\ breaks \in Nat /\ reads \in 0..MaxReads
  BY Now
<1>1. client' = listen(client, q) /\ Quietly /\ reads < MaxReads /\ reads' = reads + 1
      /\ q \in Queries /\ applied' = applied
  BY DEF observeSingleEvent, Quietly, server, Queries
<1>2. client' \in Clients /\ SameBut(client, client') /\ client'.listens = client.listens \cup {q}
  BY <1>0, <1>1, ListenFields
<1>3. /\ Sound(client', client'.puts, client.putsToAck, 1..Len(client.putsToAck), applied)
      /\ Conn(client', down, served, applied, breaks)
  <2> DEFINE a == client.putsToAck
             K == 1..Len(a)
  <2>1. Sound(client, client.puts, a, K, applied)
    BY <1>0
  <2> HIDE DEF a, K
  <2>2. Sound(client', client'.puts, a, K, applied) /\ Conn(client', down, served, applied, breaks)
    BY <1>0, <1>1, <2>1, ListenStep
  <2> QED BY <2>2 DEF a, K
<1>4. IsFiniteSet(client'.listens)
  <2>1. IsFiniteSet(client.listens \cup {q})
    BY <1>0, FS_AddElement
  <2> QED BY <1>2, <2>1
<1>5. reads' \in 0..MaxReads
  BY <1>0, <1>1, BoundsAssumption
<1>6. Inv'
  BY <1>0, <1>1, <1>2, <1>3, <1>4, <1>5, QuietlyInv DEF SameBut
<1> QED BY <1>1, <1>2, <1>6, SameResult DEF SameBut

(***************************************************************************)
(* So does the removal of an observer.                                     *)
(***************************************************************************)
LEMMA RemoveObserverStep ==
    ASSUME Inv, NEW q \in Queries, removeObserver(q) PROVE Inv' /\ Abides
<1>0. /\ client \in Clients /\ client.putsToAck \in Seq(AckOf)
      /\ Sound(client, client.puts, client.putsToAck, 1..Len(client.putsToAck), applied)
      /\ Conn(client, down, served, applied, breaks)
      /\ IsFiniteSet(client.listens) /\ client.over \subseteq client.listens
      /\ down \in Seq(DownMessages) /\ breaks \in Nat /\ reads \in 0..MaxReads
  BY Now
<1> DEFINE n == IF Lost(client, q) THEN <<>> ELSE client.cache
<1>1. q \in client.listens /\ client' = Unobserved(client, q, n) /\ Quietly /\ reads' = reads
      /\ applied' = applied
  BY <1>0 DEF removeObserver, Unobserved, unlisten, Send, Quietly, server, Clients
<1>2. n \in Nodes
  <2>1. client.cache \in Nodes /\ <<>> \in Nodes
    BY <1>0 DEF Clients, Nodes
  <2> QED BY <2>1
<1> HIDE DEF n
<1>3. /\ client' \in Clients /\ SameQueue(client, client')
      /\ client'.putsToAck = client.putsToAck
      /\ client'.over = client.over \ {q} /\ client'.listens = client.listens \ {q}
  BY <1>0, <1>1, <1>2, UnlistenFields
<1>4. /\ Sound(client', client'.puts, client.putsToAck, 1..Len(client.putsToAck), applied)
      /\ Conn(client', down, served, applied, breaks)
  <2> DEFINE a == client.putsToAck
             K == 1..Len(a)
  <2>1. Sound(client, client.puts, a, K, applied)
    BY <1>0
  <2>2. client \in Clients /\ q \in client.listens /\ client' = Unobserved(client, q, n)
    BY <1>0, <1>1
  <2>3. down \in Seq(DownMessages) /\ breaks \in Nat /\ Conn(client, down, served, applied, breaks)
    BY <1>0
  <2> HIDE DEF a, K
  <2>4. Sound(client', client'.puts, a, K, applied) /\ Conn(client', down, served, applied, breaks)
    BY <1>2, <2>1, <2>2, <2>3, UnlistenStep
  <2> QED BY <2>4 DEF a, K
<1>5. IsFiniteSet(client'.listens) /\ client'.over \subseteq client'.listens
  <2>1. IsFiniteSet(client.listens \ {q})
    BY <1>0, FS_RemoveElement
  <2> QED BY <1>0, <1>3, <2>1
<1>6. Inv'
  BY <1>0, <1>1, <1>3, <1>4, <1>5, QuietlyInv
<1> QED BY <1>1, <1>3, <1>6, SameResult

(***************************************************************************)
(* So does tryScheduleReconnect.                                           *)
(***************************************************************************)
LEMMA ReconnectStep ==
    ASSUME Inv, tryScheduleReconnect PROVE Inv' /\ Abides
<1>0. /\ client \in Clients /\ client.putsToAck \in Seq(AckOf)
      /\ Sound(client, client.puts, client.putsToAck, 1..Len(client.putsToAck), applied)
      /\ Conn(client, down, served, applied, breaks)
      /\ IsFiniteSet(client.listens) /\ client.over \subseteq client.listens
      /\ down \in Seq(DownMessages) /\ breaks \in Nat /\ reads \in 0..MaxReads
  BY Now
<1>1. client.state = "disconnected" /\ client' = [client EXCEPT !.state = "connecting"] /\ Quietly
      /\ reads' = reads /\ applied' = applied
  BY DEF tryScheduleReconnect, Quietly, server
<1>2. /\ client' \in Clients /\ SameQueue(client, client') /\ client'.puts = client.puts
      /\ client'.putsToAck = client.putsToAck /\ client'.up = client.up
      /\ client'.listens = client.listens /\ client'.over = client.over
      /\ client'.unackedListens = client.unackedListens /\ client'.state = "connecting"
  BY <1>0, <1>1 DEF Clients, States, SameQueue
<1>3. Sound(client', client'.puts, client.putsToAck, 1..Len(client.putsToAck), applied)
  BY <1>0, <1>1, <1>2, SoundSame
<1>4. Conn(client', down, served, applied, breaks)
  <2>1. Wire(client', down, applied)
    BY <1>0, <1>2 DEF Conn, Wire, Out
  <2>2. Link(client', down, served)
    BY <1>0, <1>1, <1>2 DEF Conn, Link
  <2>3. Unacked(client', down)
    BY <1>0, <1>2 DEF Conn, Unacked
  <2>4. Repeats(client', applied, breaks)
    BY <1>0, <1>1, <1>2 DEF Conn, Repeats, Due, SameQueue
  <2> QED BY <2>1, <2>2, <2>3, <2>4 DEF Conn
<1>5. Inv'
  BY <1>0, <1>1, <1>2, <1>3, <1>4, QuietlyInv
<1> QED BY <1>1, <1>2, <1>5, SameResult

(***************************************************************************)
(* So does sending the authentication first, as onReady does with a token. *)
(***************************************************************************)
LEMMA AuthSent ==
    ASSUME Inv, client.state = "connecting", Quietly, reads' = reads,
           client' = Send([client EXCEPT !.state = "authenticating"], Auth)
    PROVE  Inv' /\ Abides
<1>0. /\ client \in Clients /\ client.putsToAck \in Seq(AckOf)
      /\ Sound(client, client.puts, client.putsToAck, 1..Len(client.putsToAck), applied)
      /\ Conn(client, down, served, applied, breaks)
      /\ IsFiniteSet(client.listens) /\ client.over \subseteq client.listens
      /\ down \in Seq(DownMessages) /\ breaks \in Nat /\ reads \in 0..MaxReads
  BY Now
<1> DEFINE up == Append(client.up, Auth)
<1>1. Auth \in UpMessages /\ IsAuth(Auth) /\ ~IsPut(Auth) /\ ~IsListen(Auth)
  BY DEF Auth, UpMessages, IsAuth, IsPut, IsListen
<1>2. client.up = <<>> /\ down = <<>> /\ served = {} /\ client.up \in Seq(UpMessages)
  BY <1>0 DEF Conn, Link, Clients
<1>3. up \in Seq(UpMessages) /\ Len(up) = 1 /\ up[1] = Auth /\ up # <<>>
  BY <1>1, <1>2
<1>4. client' = [client EXCEPT !.state = "authenticating", !.up = up]
  BY <1>0 DEF Send, Clients
<1>4a. Number(up, ListensUp) = 0
  <2>1. \A i \in 1..Len(up) : up[i] \notin ListensUp
    BY <1>1, <1>3 DEF ListensUp
  <2> QED BY <2>1, NumberNone
<1> HIDE DEF up
<1>5. /\ client' \in Clients /\ SameQueue(client, client') /\ client'.puts = client.puts
      /\ client'.putsToAck = client.putsToAck /\ client'.up = up
      /\ client'.listens = client.listens /\ client'.over = client.over
      /\ client'.unackedListens = client.unackedListens /\ client'.state = "authenticating"
  BY <1>0, <1>3, <1>4 DEF Clients, States, SameQueue
<1>6. Sound(client', client'.puts, client.putsToAck, 1..Len(client.putsToAck), applied)
  <2>1. Sound(client', client.puts, client.putsToAck, 1..Len(client.putsToAck), applied)
    BY <1>0, <1>5, SoundSame
  <2> QED BY <1>5, <2>1
<1>7. Conn(client', down, served, applied, breaks)
  <2>1. \A i \in 1..Len(up) : i = 1 /\ ~IsPut(up[i])
    BY <1>1, <1>3
  <2>2. Wire(client', down, applied)
    <3>1. Len(down) = 0
      BY <1>2
    <3> QED BY <1>5, <2>1, <3>1 DEF Wire
  <2>3. Link(client', down, served)
    <3>1. \A i \in 2..Len(up) : FALSE
      BY <1>3
    <3>2. \A i \in 1..Len(down) : FALSE
      BY <1>2
    <3> QED BY <1>1, <1>2, <1>3, <1>5, <2>1, <3>1, <3>2 DEF Link
  <2>4. Unacked(client', down)
    <3>1. Number(client.up, ListensUp) = 0
      <4>1. \A i \in 1..Len(client.up) : client.up[i] \notin ListensUp
        BY <1>2
      <4> QED BY <4>1, NumberNone
    <3> QED BY <1>0, <1>4a, <1>5, <3>1 DEF Conn, Unacked
  <2>5. Repeats(client', applied, breaks)
    <3>1. \A w \in Writes : Due(client', w) => Due(client, w)
      BY <1>5 DEF Due
    <3>2. client'.result = client.result
      BY <1>5 DEF SameQueue
    <3> QED BY <1>0, <3>1, <3>2 DEF Conn, Repeats
  <2> QED BY <2>2, <2>3, <2>4, <2>5 DEF Conn
<1>8. Inv'
  BY <1>0, <1>5, <1>6, <1>7, QuietlyInv
<1> QED BY <1>5, <1>8, SameResult DEF Quietly, server

(***************************************************************************)
(* restoreState, in the current state.                                     *)
(***************************************************************************)
LEMMA RestoreStep ==
    ASSUME Inv, NEW dn \in Seq(DownMessages), client.state # "connected",
           Fresh(client, dn), Unacked(client, dn),
           NEW order \in SetToSeqs(client.listens), client' = restoreState(client, order)
    PROVE  /\ Sound(client', client'.puts, client'.putsToAck, 1..Len(client'.putsToAck), applied)
           /\ Conn(client', dn, served, applied, breaks)
           /\ client' \in Clients /\ Restored(client, client', order) /\ SameQueue(client, client')
<1>0. /\ client \in Clients /\ client.putsToAck \in Seq(AckOf)
      /\ Sound(client, client.puts, client.putsToAck, 1..Len(client.putsToAck), applied)
      /\ Conn(client, down, served, applied, breaks)
      /\ IsFiniteSet(client.listens) /\ breaks \in Nat
  BY Now
<1>1. client' \in Clients /\ Restored(client, client', order) /\ SameQueue(client, client')
  BY <1>0, RestoreFields
<1>2. client'.putsToAck = client.putsToAck
  BY <1>1 DEF Restored
<1>3. Sound(client', client'.puts, client.putsToAck, 1..Len(client.putsToAck), applied)
  BY <1>0, <1>1, RestoredSound
<1>4. Repeats(client, applied, breaks)
  BY <1>0 DEF Conn
<1>5. Conn(client', dn, served, applied, breaks)
  BY <1>0, <1>1, <1>4, RestoredConn
<1> QED BY <1>1, <1>2, <1>3, <1>5

(***************************************************************************)
(* onReady keeps the invariant and the contract.                           *)
(***************************************************************************)
LEMMA OnReadyStep ==
    ASSUME Inv, onReady PROVE Inv' /\ Abides
<1>1. client.state = "connecting" /\ Quietly /\ reads' = reads
  BY DEF onReady, Quietly, server
<1>2. CASE client' = Send([client EXCEPT !.state = "authenticating"], Auth)
  BY <1>1, <1>2, AuthSent
<1>3. CASE \E order \in SetToSeqs(client.listens) : client' = restoreState(client, order)
  <2>0. /\ client \in Clients /\ Conn(client, down, served, applied, breaks)
        /\ IsFiniteSet(client.listens) /\ client.over \subseteq client.listens
        /\ down \in Seq(DownMessages) /\ reads \in 0..MaxReads
    BY Now
  <2>1. PICK order \in SetToSeqs(client.listens) : client' = restoreState(client, order)
    BY <1>3
  <2>2. client.up = <<>> /\ down = <<>>
    BY <1>1, <2>0 DEF Conn, Link
  <2>3. Fresh(client, down)
    BY <2>2 DEF Fresh
  <2>4. Unacked(client, down)
    BY <2>0 DEF Conn
  <2>5. /\ Sound(client', client'.puts, client'.putsToAck, 1..Len(client'.putsToAck), applied)
        /\ Conn(client', down, served, applied, breaks)
        /\ client' \in Clients /\ Restored(client, client', order) /\ SameQueue(client, client')
    BY <1>1, <2>0, <2>1, <2>3, <2>4, RestoreStep
  <2>6. client'.listens = client.listens /\ client'.over = client.over
        /\ client'.putsToAck = client.putsToAck
    BY <2>5 DEF Restored
  <2>7. Inv'
    BY <1>1, <2>0, <2>5, <2>6, QuietlyInv
  <2> QED BY <1>1, <2>5, <2>7, SameResult DEF Quietly, server
<1> QED BY <1>2, <1>3 DEF onReady

\* The connection breaks.
Breaks ==
    /\ breaks < MaxBreaks /\ breaks' = breaks + 1
    /\ client' = Disconnected(client) /\ down' = <<>> /\ served' = {}
    /\ UNCHANGED <<node, applied, reads, denials>>

(***************************************************************************)
(* What a break does, in the current state.                                *)
(***************************************************************************)
LEMMA BreakFacts ==
    ASSUME Inv, Breaks
    PROVE  /\ Sound(client', client'.puts, client.putsToAck, 1..Len(client.putsToAck), applied)
           /\ Cut(client, client') /\ Spoken(client, client', applied)
           /\ \A i \in 1..Len(client'.puts) : Carried(client, client'.puts[i])
<1>0. /\ client.putsToAck \in Seq(AckOf)
      /\ Sound(client, client.puts, client.putsToAck, 1..Len(client.putsToAck), applied)
  BY Now
<1>1. client' = Disconnected(client)
  BY DEF Breaks
<1>2. CASE \A i \in 1..Len(client.puts) : ~(client.puts[i].put.hashed /\ client.puts[i].sent)
  BY <1>0, <1>1, <1>2, DisconnectedNone
<1>3. CASE \E i \in 1..Len(client.puts) : client.puts[i].put.hashed /\ client.puts[i].sent
  <2>1. PICK i0 \in 1..Len(client.puts) : client.puts[i0].put.hashed /\ client.puts[i0].sent
    BY <1>3
  <2> QED BY <1>0, <1>1, <2>1, DisconnectedOne
<1> QED BY <1>2, <1>3

(***************************************************************************)
(* A break keeps the invariant and the contract: what is answered then is  *)
(* answered the truth.                                                     *)
(***************************************************************************)
LEMMA BreakStep ==
    ASSUME Inv, Breaks PROVE Inv' /\ Abides
<1>0. /\ client \in Clients
      /\ Conn(client, down, served, applied, breaks)
      /\ Tended /\ breaks \in Nat /\ breaks \in 0..MaxBreaks
  BY Now DEF Inv
<1>1. /\ Sound(client', client'.puts, client.putsToAck, 1..Len(client.putsToAck), applied)
      /\ Cut(client, client') /\ Spoken(client, client', applied)
      /\ \A i \in 1..Len(client'.puts) : Carried(client, client'.puts[i])
  BY BreakFacts
<1>2. /\ down' = <<>> /\ served' = {} /\ applied' = applied /\ breaks' = breaks + 1 /\ breaks < MaxBreaks
      /\ node' = node /\ reads' = reads /\ denials' = denials
  BY DEF Breaks
<1>3. client' \in Clients
  BY <1>1 DEF Sound
<1>4. /\ client'.state = "disconnected" /\ client'.unackedListens = 0 /\ client'.up = <<>>
      /\ client'.listens = client.listens /\ client'.over = client.over
      /\ client'.putsToAck = client.putsToAck
  BY <1>1 DEF Cut
<1>5. SoundNow'
  BY <1>1, <1>2, <1>4 DEF SoundNow
<1>6. ConnNow'
  <2>1. Wire(client', <<>>, applied)
    BY <1>4 DEF Wire
  <2>2. Link(client', <<>>, {})
    BY <1>4 DEF Link
  <2>3. Unacked(client', <<>>)
    <3>1. \A X : Number(<<>>, X) = 0
      BY NumberNone
    <3> QED BY <1>4, <3>1 DEF Unacked
  <2>4. Repeats(client', applied, breaks + 1)
    <3>1. \A w \in Writes : client'.result[w] = "none" => client.result[w] = "none"
      BY <1>1 DEF Spoken, Truth, Ops
    <3>2. Repeats(client, applied, breaks)
      BY <1>0 DEF Conn
    <3>3. ASSUME NEW w \in Writes
          PROVE  applied[w] \in 0..breaks+1+1 /\ applied[w] <= breaks + 1
                 /\ (client'.result[w] = "none" => applied[w] = 0)
      <4>1. applied[w] \in 0..breaks+1
        BY <3>2 DEF Repeats
      <4>2. client'.result[w] = "none" => applied[w] = 0
        BY <3>1, <3>2 DEF Repeats
      <4> QED BY <1>0, <4>1, <4>2
    <3> QED BY <3>2, <3>3 DEF Repeats
  <2> QED BY <1>2, <2>1, <2>2, <2>3, <2>4 DEF ConnNow, Conn
<1>7. Tended'
  <2>1. breaks' \in 0..MaxBreaks
    BY <1>0, <1>2, BoundsAssumption
  <2>2. down' \in Seq(DownMessages) /\ served' \in SUBSET Queries
    BY <1>2
  <2> QED BY <1>0, <1>2, <1>4, <2>1, <2>2 DEF Tended
<1>8. Refusals'
  BY <1>2 DEF Refusals
<1>9. Abides
  BY <1>0, <1>1, <1>2, <1>3, SpokenStep
<1> QED BY <1>5, <1>6, <1>7, <1>8, <1>9 DEF Inv

(***************************************************************************)
(* onDisconnect keeps the invariant and the contract.                      *)
(***************************************************************************)
LEMMA OnDisconnectStep ==
    ASSUME Inv, onDisconnect PROVE Inv' /\ Abides
<1>1. Breaks
  BY DEF onDisconnect, Breaks
<1> QED BY <1>1, BreakStep

-----------------------------------------------------------------------------
\* A step that takes a message of the server off the connection.
Handled ==
    /\ down # <<>> /\ down' = Tail(down)
    /\ UNCHANGED <<server, reads, breaks>>

(***************************************************************************)
(* What is to be shown of such a step.                                     *)
(***************************************************************************)
LEMMA HandledInv ==
    ASSUME Inv, Handled,
           IsFiniteSet(client'.listens), client'.over \subseteq client'.listens,
           Sound(client', client'.puts, client'.putsToAck, 1..Len(client'.putsToAck), applied),
           Conn(client', Tail(down), served, applied, breaks)
    PROVE  Inv'
<1>0. down \in Seq(DownMessages) /\ Tended /\ Refusals
  BY Now DEF Inv
<1>1. /\ down' = Tail(down) /\ served' = served /\ node' = node /\ applied' = applied
      /\ denials' = denials /\ breaks' = breaks /\ reads' = reads /\ down # <<>>
  BY DEF Handled, server
<1>2. SoundNow'
  BY <1>1 DEF SoundNow
<1>3. ConnNow'
  BY <1>1 DEF ConnNow
<1>4. /\ Tail(down) \in Seq(DownMessages)
      /\ \A i \in 1..Len(Tail(down)) : Tail(down)[i] = down[i + 1] /\ i + 1 \in 1..Len(down)
  BY <1>0, <1>1, TailFacts
<1>5. Tended'
  BY <1>0, <1>1, <1>4 DEF Tended
<1>6. Refusals'
  BY <1>0, <1>1, <1>4 DEF Refusals
<1> QED BY <1>2, <1>3, <1>5, <1>6 DEF Inv

(***************************************************************************)
(* Nothing but listens has been sent when the answer to the authentication *)
(* comes.                                                                  *)
(***************************************************************************)
LEMMA AuthFresh ==
    ASSUME Inv, down # <<>>, IsAuthReply(Head(down))
    PROVE  client.state = "authenticating" /\ Fresh(client, Tail(down))
<1>0. /\ client \in Clients /\ Conn(client, down, served, applied, breaks)
      /\ down \in Seq(DownMessages)
  BY Now
<1> DEFINE dn == Tail(down)
<1>2. /\ Len(dn) = Len(down) - 1 /\ Len(down) \in Nat
      /\ \A i \in 1..Len(dn) : dn[i] = down[i + 1] /\ i + 1 \in 1..Len(down)
      /\ Head(down) = down[1] /\ 1 \in 1..Len(down)
  BY <1>0, TailFacts
<1>3. Link(client, down, served) /\ client.state \in States
  BY <1>0 DEF Conn, Clients
<1>4. client.state = "authenticating"
  BY <1>2, <1>3 DEF Link, States
<1>5. Fresh(client, dn)
  <2>1. /\ \A i \in 1..Len(client.up) : ~IsPut(client.up[i]) /\ ~IsAuth(client.up[i])
        /\ \A i \in 1..Len(down) : ~IsPutReply(down[i])
        /\ \A i \in 2..Len(down) : ~IsAuthReply(down[i])
    BY <1>3, <1>4 DEF Link
  <2>2. ASSUME NEW i \in 1..Len(dn) PROVE ~IsPutReply(dn[i]) /\ ~IsAuthReply(dn[i])
    <3>1. dn[i] = down[i + 1] /\ i + 1 \in 1..Len(down) /\ i + 1 \in 2..Len(down)
      BY <1>2
    <3> QED BY <2>1, <3>1
  <2> QED BY <2>1, <2>2 DEF Fresh
<1> QED BY <1>4, <1>5

(***************************************************************************)
(* An accepted authentication restores the state.                          *)
(***************************************************************************)
LEMMA AuthOkStep ==
    ASSUME Inv, Handled, IsAuthReply(Head(down)),
           NEW order \in SetToSeqs(client.listens), client' = restoreState(client, order)
    PROVE  Inv' /\ Abides
<1>0. /\ client \in Clients /\ Conn(client, down, served, applied, breaks)
      /\ IsFiniteSet(client.listens) /\ client.over \subseteq client.listens
      /\ down \in Seq(DownMessages)
  BY Now
<1> DEFINE dn == Tail(down)
<1>1. down # <<>> /\ applied' = applied
  BY DEF Handled, server
<1>2. dn \in Seq(DownMessages)
  BY <1>0, <1>1, TailFacts
<1>3. Unacked(client, down)
  BY <1>0 DEF Conn
<1>4. client.state = "authenticating" /\ Fresh(client, dn)
  BY <1>1, AuthFresh
<1>6. Unacked(client, dn)
  <2>1. Head(down) \notin ListensDown
    BY DEF ListensDown, IsListenReply, IsAuthReply
  <2>2. Number(dn, ListensDown) = Number(down, ListensDown)
        /\ Number(down, ListensDown) \in Nat
    <3>1. Number(down, ListensDown) \in Nat
      BY <1>0, NumberNat
    <3>2. Number(dn, ListensDown) = Number(down, ListensDown) - 0
      BY <1>0, <1>1, <2>1, NumberTail
    <3> QED BY <3>1, <3>2
  <2> QED BY <1>3, <2>2 DEF Unacked
<1>6a. client.state # "connected"
  BY <1>4
<1> HIDE DEF dn
<1>7. /\ Sound(client', client'.puts, client'.putsToAck, 1..Len(client'.putsToAck), applied)
      /\ Conn(client', dn, served, applied, breaks)
      /\ client' \in Clients /\ Restored(client, client', order) /\ SameQueue(client, client')
  BY <1>2, <1>4, <1>6, <1>6a, RestoreStep
<1>8. client'.listens = client.listens /\ client'.over = client.over
  BY <1>7 DEF Restored
<1>9. Conn(client', Tail(down), served, applied, breaks)
  BY <1>7 DEF dn
<1>10. Inv'
  BY <1>0, <1>7, <1>8, <1>9, HandledInv
<1> QED BY <1>1, <1>7, <1>10, SameResult

(***************************************************************************)
(* Handling the answer to the authentication keeps the invariant and the   *)
(* contract; a refusal breaks the connection.                              *)
(***************************************************************************)
LEMMA OnAuthStep ==
    ASSUME Inv, down # <<>>, onAuth(Head(down)) PROVE Inv' /\ Abides
<1>0. down \in Seq(DownMessages) /\ Refusals
  BY Now DEF Inv
<1>1. IsAuthReply(Head(down))
  BY DEF onAuth, IsAuthReply
<1>2. CASE Received(Head(down)) /\ \E order \in SetToSeqs(client.listens) :
                                        client' = restoreState(client, order)
  <2>1. PICK order \in SetToSeqs(client.listens) : client' = restoreState(client, order)
    BY <1>2
  <2>2. Handled
    BY <1>2 DEF Received, Handled
  <2> QED BY <1>1, <2>1, <2>2, AuthOkStep
<1>3. CASE /\ Head(down).status # "ok" /\ client' = Disconnected(client)
           /\ down' = <<>> /\ served' = {} /\ breaks' = breaks + 1
           /\ UNCHANGED <<node, applied, foreign, reads, denials>>
  <2>1. 1 \in 1..Len(down) /\ Head(down) = down[1]
    BY <1>0, TailFacts
  <2>2. breaks < MaxBreaks
    BY <1>0, <1>1, <1>3, <2>1 DEF Refusals
  <2>3. Breaks
    BY <1>3, <2>2 DEF Breaks
  <2> QED BY <2>3, BreakStep
<1> QED BY <1>2, <1>3 DEF onAuth

(***************************************************************************)
(* While calls are accounted for, nothing is overdue and the head of the   *)
(* queue is on its way, or its answer is held back.                        *)
(***************************************************************************)
LEMMA HeadSent ==
    ASSUME NEW c, NEW P, NEW a, NEW K, NEW ap, Sound(c, P, a, K, ap)
    PROVE  HeadOut(c)
<1>1. /\ c \in Clients /\ Queued(c) /\ Standing(c, P, a, K)
  BY DEF Sound
<1>2. Overdue(c) = {}
  <2>1. ToSet(c.queue) \subseteq Txns
    BY <1>1 DEF Clients, ToSet
  <2>2. ASSUME NEW t \in Txns
        PROVE  c.status[t] # "needsabort" /\ ~(c.status[t] = "run" /\ c.tries[t] >= MaxTries)
    <3>1. c.tries[t] \in Nat /\ MaxTries \in Nat
      BY <1>1, BoundsAssumption DEF Clients
    <3> QED BY <1>1, <3>1 DEF Queued
  <2> QED BY <2>1, <2>2 DEF Overdue
<1>3. ASSUME c.queue # <<>> PROVE c.status[c.queue[1]] = "sent"
  <2>1. PICK p : TxnFor(c, p)
    <3>1. ASSUME NEW p, Stands(c, p), p.hashed PROVE TxnFor(c, p)
      BY <3>1, WritePutType DEF Stands, WriteFor
    <3> QED BY <1>1, <1>3, <3>1 DEF Standing
  <2>2. 1 \in 1..Len(p.ops)
    BY <1>1, <2>1 DEF TxnFor, Clients
  <2> QED BY <2>1, <2>2 DEF TxnFor
<1> QED BY <1>2, <1>3 DEF HeadOut

\* The client that has been told the counter by a read above it.
ToldOf(c, q, n) == [c EXCEPT !.over = c.over \cup {q}, !.cache = n, !.reread = TRUE]

(***************************************************************************)
(* What the data of a read above the counter changes: what is known of the *)
(* counter and, of the queue, the outputs of those that wait.              *)
(***************************************************************************)
LEMMA TaughtFields ==
    ASSUME NEW c, NEW P, NEW a, NEW K, NEW ap, Sound(c, P, a, K, ap),
           NEW q \in Reads, NEW n \in Nodes, NEW d \in Taught(c, q, n)
    PROVE  /\ Sound(d, P, a, K, ap) /\ d.reread
           /\ d.puts = c.puts /\ d.putsToAck = c.putsToAck /\ d.up = c.up
           /\ d.listens = c.listens /\ d.over = c.over \cup {q}
           /\ d.unackedListens = c.unackedListens /\ d.state = c.state
           /\ d.result = c.result /\ d.cache = n
<1> DEFINE e == ToldOf(c, q, n)
           O == c.over \cup {q}
<1>1. /\ c \in Clients /\ P \in Seq(Outstanding)
      /\ Queued(c) /\ Standing(c, P, a, K) /\ Applied(c, P, a, K, ap)
  BY DEF Sound
<1>2. O \in SUBSET Reads /\ e = [c EXCEPT !.over = O, !.cache = n, !.reread = TRUE]
  BY <1>1 DEF Clients, ToldOf
<1>3. /\ e \in Clients /\ e.reread = TRUE /\ e.over = O /\ e.cache = n
      /\ e.puts = c.puts /\ e.putsToAck = c.putsToAck /\ e.up = c.up
      /\ e.listens = c.listens /\ e.unackedListens = c.unackedListens /\ e.state = c.state
      /\ e.queue = c.queue /\ e.status = c.status /\ e.tries = c.tries
      /\ e.output = c.output /\ e.result = c.result
  <2> HIDE DEF e, O
  <2> QED BY <1>1, <1>2 DEF Clients
<1>4. d = e \/ d = rerunTransactionQueue(e)
  BY DEF Taught, ToldOf
<1>5. HeadOut(e)
  <2> HIDE DEF e, O
  <2>1. HeadOut(c)
    BY HeadSent
  <2> QED BY <1>3, <2>1 DEF Overdue, HeadOut
<1> HIDE DEF e, O
<1>6. /\ d \in Clients /\ SameConn(e, d)
      /\ d.puts = e.puts /\ d.up = e.up /\ d.queue = e.queue
      /\ \A t \in Txns : d.status[t] = e.status[t] /\ d.tries[t] = e.tries[t]
      /\ \A t \in Txns : t \notin ToSet(e.queue) \/ e.status[t] # "run" =>
            d.output[t] = e.output[t]
      /\ \A o \in Ops : d.result[o] = e.result[o]
  <2>1. CASE d = e
    BY <1>3, <2>1 DEF SameConn
  <2>2. CASE d = rerunTransactionQueue(e)
    BY <1>3, <1>5, <2>2, RerunWaits
  <2> QED BY <1>4, <2>1, <2>2
<1>7. /\ d.puts = c.puts /\ d.putsToAck = c.putsToAck /\ d.up = c.up
      /\ d.listens = c.listens /\ d.over = c.over \cup {q}
      /\ d.unackedListens = c.unackedListens /\ d.state = c.state
      /\ d.cache = n /\ d.reread = TRUE /\ d.queue = c.queue
  BY <1>3, <1>6 DEF SameConn, O
<1>8. d.result = c.result
  <2>1. d.result \in [Ops -> {"none", "pending"} \cup Answers]
        /\ c.result \in [Ops -> {"none", "pending"} \cup Answers]
    BY <1>1, <1>6 DEF Clients
  <2> QED BY <1>3, <1>6, <2>1
<1>9. /\ \A t \in Txns : d.status[t] = c.status[t] /\ d.tries[t] = c.tries[t]
      /\ \A t \in Txns : c.status[t] # "run" => d.output[t] = c.output[t]
  BY <1>3, <1>6
<1>10. Queued(d)
  BY <1>1, <1>7, <1>8, <1>9 DEF Queued
<1>11. \A p : Stands(c, p) => Stands(d, p)
  <2> TAKE p
  <2>1. ASSUME TxnFor(c, p) PROVE TxnFor(d, p)
    <3>1. c.queue \in Seq(Txns) /\ \A i \in 1..Len(c.queue) : c.queue[i] \in Txns
      BY <1>1 DEF Clients
    <3>2. Len(p.ops) \in 1..Len(c.queue) /\ Len(c.queue) \in Nat
      BY <2>1, <3>1 DEF TxnFor
    <3>3. \A i \in 1..Len(p.ops) : i \in 1..Len(c.queue)
      BY <3>2
    <3>4. \A i \in Len(p.ops)+1..Len(c.queue) : i \in 1..Len(c.queue)
      BY <3>2
    <3>5. \A i \in 1..Len(p.ops) : p.ops[i] = d.queue[i] /\ d.status[d.queue[i]] = "sent"
      BY <1>7, <1>9, <2>1, <3>1, <3>3 DEF TxnFor
    <3>6. \A i \in Len(p.ops)+1..Len(d.queue) : d.status[d.queue[i]] = "run"
      BY <1>7, <1>9, <2>1, <3>1, <3>4 DEF TxnFor
    <3>7. p.val = d.output[d.queue[Len(p.ops)]]
      <4>1. Len(p.ops) \in 1..Len(p.ops)
        BY <3>2
      <4>2. c.status[c.queue[Len(p.ops)]] = "sent" /\ c.queue[Len(p.ops)] \in Txns
        BY <2>1, <3>1, <3>2, <4>1 DEF TxnFor
      <4> QED BY <1>7, <1>9, <2>1, <4>2 DEF TxnFor
    <3> QED BY <1>7, <2>1, <3>5, <3>6, <3>7 DEF TxnFor
  <2>2. ASSUME WriteFor(c, p) PROVE WriteFor(d, p)
    BY <1>8, <2>2 DEF WriteFor
  <2> QED BY <2>1, <2>2 DEF Stands
<1>12. Standing(d, P, a, K)
  BY <1>1, <1>7, <1>11 DEF Standing
<1>13. Applied(d, P, a, K, ap)
  BY <1>1, <1>7, <1>9 DEF Applied
<1> QED BY <1>1, <1>6, <1>7, <1>8, <1>10, <1>12, <1>13 DEF Sound

(***************************************************************************)
(* How news of a query may change the client: not at all, what is known of *)
(* the counter, or that a read is over; or a read above the counter tells. *)
(***************************************************************************)
LEMMA DataUpdateIs ==
    ASSUME NEW c \in Clients, NEW q \in Queries, NEW n \in Nodes, NEW d \in DataUpdate(c, q, n)
    PROVE  \/ d = c
           \/ q = Counter /\ q \in c.listens /\ d = [c EXCEPT !.cache = n]
           \/ /\ q \in Reads /\ q \in c.listens
              /\ d = [c EXCEPT !.over = c.over \cup {q}]
           \/ q \in Reads /\ q \in c.listens /\ d \in Taught(c, q, n)
BY DEF DataUpdate, Queries, Clients

(***************************************************************************)
(* Handling news of a query keeps the invariant and the contract.          *)
(***************************************************************************)
LEMMA OnDataStep ==
    ASSUME Inv, down # <<>>, onData(Head(down)) PROVE Inv' /\ Abides
<1>0. /\ client \in Clients /\ client.putsToAck \in Seq(AckOf)
      /\ Sound(client, client.puts, client.putsToAck, 1..Len(client.putsToAck), applied)
      /\ Conn(client, down, served, applied, breaks)
      /\ IsFiniteSet(client.listens) /\ client.over \subseteq client.listens
      /\ down \in Seq(DownMessages) /\ breaks \in Nat
  BY Now
<1> DEFINE m == Head(down)
<1>1. Handled /\ applied' = applied /\ m.kind = "data"
  BY DEF onData, Received, Handled, server
<1>2. m \in DownMessages
  BY <1>0
<1>3. m.node \in Nodes /\ m.query \in Queries
  BY <1>1, <1>2 DEF DownMessages
<1>4. client' \in DataUpdate(client, m.query, m.node)
  BY DEF onData
<1>5. ~IsAuthReply(m) /\ ~IsListenReply(m)
  BY <1>1 DEF IsAuthReply, IsListenReply
<1> HIDE DEF m
<1>6. /\ Sound(client', client.puts, client.putsToAck, 1..Len(client.putsToAck), applied)
      /\ client' \in Clients /\ client'.puts = client.puts
      /\ client'.putsToAck = client.putsToAck /\ client'.up = client.up
      /\ client'.listens = client.listens /\ client'.over \subseteq client.listens
      /\ client'.unackedListens = client.unackedListens /\ client'.state = client.state
      /\ client'.result = client.result
  <2>1. CASE client' = client
    BY <1>0, <2>1
  <2>2. CASE client' = [client EXCEPT !.cache = m.node]
    <3>1. /\ client' \in Clients /\ SameQueue(client, client') /\ client'.puts = client.puts
          /\ client'.putsToAck = client.putsToAck /\ client'.up = client.up
          /\ client'.listens = client.listens /\ client'.over = client.over
          /\ client'.unackedListens = client.unackedListens /\ client'.state = client.state
          /\ client'.result = client.result
      BY <1>0, <1>3, <2>2 DEF SameQueue, Clients
    <3> QED BY <1>0, <3>1, SoundSame
  <2>3. CASE /\ m.query \in Reads /\ m.query \in client.listens
             /\ client' = [client EXCEPT !.over = client.over \cup {m.query}]
    <3>1. /\ client' \in Clients /\ SameQueue(client, client') /\ client'.puts = client.puts
          /\ client'.putsToAck = client.putsToAck /\ client'.up = client.up
          /\ client'.listens = client.listens /\ client'.over = client.over \cup {m.query}
          /\ client'.unackedListens = client.unackedListens /\ client'.state = client.state
          /\ client'.result = client.result
      BY <1>0, <2>3 DEF SameQueue, Clients
    <3> QED BY <1>0, <2>3, <3>1, SoundSame
  <2>4. CASE /\ m.query \in Reads /\ m.query \in client.listens
             /\ client' \in Taught(client, m.query, m.node)
    <3> DEFINE K == 1..Len(client.putsToAck)
    <3> HIDE DEF K
    <3>1. Sound(client, client.puts, client.putsToAck, K, applied)
      BY <1>0 DEF K
    <3>2. /\ Sound(client', client.puts, client.putsToAck, K, applied)
          /\ client'.puts = client.puts
          /\ client'.putsToAck = client.putsToAck /\ client'.up = client.up
          /\ client'.listens = client.listens /\ client'.over = client.over \cup {m.query}
          /\ client'.unackedListens = client.unackedListens /\ client'.state = client.state
          /\ client'.result = client.result
      BY <1>3, <2>4, <3>1, TaughtFields
    <3> QED BY <1>0, <2>4, <3>2 DEF Sound, K
  <2> QED BY <1>0, <1>3, <1>4, <2>1, <2>2, <2>3, <2>4, DataUpdateIs
<1>7. Sound(client', client'.puts, client'.putsToAck, 1..Len(client'.putsToAck), applied)
  BY <1>6
<1>8. Conn(client', Tail(down), served, applied, breaks)
  <2>1. client'.unackedListens = client.unackedListens - 0
    BY <1>0, <1>6 DEF Clients
  <2> QED BY <1>0, <1>5, <1>6, <2>1, ReceivedConn DEF m
<1>9. Inv'
  BY <1>0, <1>1, <1>6, <1>7, <1>8, HandledInv
<1> QED BY <1>1, <1>6, <1>9 DEF Abides

\* The client once the answer to a listen has been counted.
Listened(c, m, n) == [Refused(c, m) EXCEPT !.unackedListens = n]

(***************************************************************************)
(* What that changes.                                                      *)
(***************************************************************************)
LEMMA ListenedFields ==
    ASSUME NEW c \in Clients, NEW m, NEW n \in Int, NEW d, d = Listened(c, m, n)
    PROVE  /\ d \in Clients /\ SameQueue(c, d) /\ d.puts = c.puts /\ d.up = c.up
           /\ d.putsToAck = c.putsToAck /\ d.state = c.state /\ d.result = c.result
           /\ d.unackedListens = n
           /\ \/ d.listens = c.listens /\ d.over = c.over
              \/ d.listens = c.listens \ {m.to.query} /\ d.over = c.over \ {m.to.query}
<1> DEFINE nil == <<>>
           L == IF m.status = "ok" THEN c.listens ELSE c.listens \ {m.to.query}
           O == IF m.status = "ok" THEN c.over ELSE c.over \ {m.to.query}
           x == IF m.status # "ok" /\ Lost(c, m.to.query) THEN nil ELSE c.cache
<1>1. c.cache \in Nodes /\ nil \in Nodes
  BY DEF Clients, Nodes
<1>2. x \in Nodes /\ L \in SUBSET Queries /\ O \in SUBSET Reads
  BY <1>1 DEF Clients
<1>3. d = [c EXCEPT !.listens = L, !.over = O, !.cache = x, !.unackedListens = n]
  BY DEF Listened, Refused, Clients
<1>4. \/ L = c.listens /\ O = c.over
      \/ L = c.listens \ {m.to.query} /\ O = c.over \ {m.to.query}
  OBVIOUS
<1> HIDE DEF L, O, x
<1> QED BY <1>2, <1>3, <1>4 DEF SameQueue, Clients

(***************************************************************************)
(* ackPuts: the answers held back are passed on, and none is left.         *)
(***************************************************************************)
LEMMA ReleaseFacts ==
    ASSUME NEW c, NEW dn, NEW sv, NEW ap, NEW br \in Nat, c.putsToAck \in Seq(AckOf),
           Sound(c, c.puts, c.putsToAck, 1..Len(c.putsToAck), ap), Conn(c, dn, sv, ap, br),
           NEW e, e = ackPuts(c)
    PROVE  /\ Sound(e, e.puts, e.putsToAck, 1..Len(e.putsToAck), ap)
           /\ Conn(e, dn, sv, ap, br)
           /\ e.listens = c.listens /\ e.over = c.over /\ Spoken(c, e, ap)
           /\ e.putsToAck = <<>> /\ e.reread = c.reread
<1> DEFINE nil == <<>>
           a == c.putsToAck
           b == [c EXCEPT !.putsToAck = nil]
<1>1. nil \in Seq(Acks) /\ Len(nil) = 0 /\ Len(a) \in Nat
  OBVIOUS
<1>2. c \in Clients
  BY DEF Sound
<1>3. e = AllAnswered(b, a)
  BY DEF ackPuts
<1> HIDE DEF nil
<1>4. /\ b \in Clients /\ SameQueue(c, b) /\ SameWire(c, b) /\ b.puts = c.puts
      /\ b.state = c.state
      /\ b.listens = c.listens /\ b.over = c.over /\ b.putsToAck = nil /\ b.result = c.result
  BY <1>1, <1>2 DEF Clients, SameQueue, SameWire
<1> HIDE DEF b
<1>5. Sound(b, b.puts, a, 1..Len(a), ap)
  <2>1. Sound(b, c.puts, a, 1..Len(a), ap)
    BY <1>4, SoundSame
  <2> QED BY <1>4, <2>1
<1>6. Conn(b, dn, sv, ap, br)
  BY <1>4, SameWireConn
<1> HIDE DEF a
<1>7. Passed(b, e, a, Len(a), dn, sv, ap, br)
  BY <1>3, <1>5, <1>6, AllPassed DEF a
<1>8. /\ Sound(e, e.puts, a, Len(a)+1..Len(a), ap) /\ Conn(e, dn, sv, ap, br)
      /\ SameConn(b, e) /\ Spoken(b, e, ap)
  BY <1>7 DEF Passed
<1>9. e.putsToAck = nil
  BY <1>4, <1>8 DEF SameConn
<1>10. Sound(e, e.puts, nil, 1..Len(nil), ap)
  <2> DEFINE K == 1..Len(nil)
  <2>1. Len(a)+1..Len(a) = K /\ \A i \in K : a[i] = nil[i]
    BY <1>1 DEF a
  <2> HIDE DEF K
  <2>2. Sound(e, e.puts, a, K, ap)
    BY <1>8, <2>1
  <2>3. Sound(e, e.puts, nil, K, ap)
    BY <2>1, <2>2, SoundWithin
  <2> QED BY <2>3 DEF K
<1>11. e.putsToAck = <<>>
  BY <1>9 DEF nil
<1> QED BY <1>4, <1>8, <1>9, <1>10, <1>11 DEF SameConn, SameQueue, Spoken

(***************************************************************************)
(* Handling the answer to a listen keeps the invariant and the contract,   *)
(* the answers that it releases included.                                  *)
(***************************************************************************)
LEMMA OnListenReplyStep ==
    ASSUME Inv, down # <<>>, onListenReply(Head(down))
    PROVE  Inv' /\ Abides /\ client'.reread = client.reread
<1>0. /\ client \in Clients /\ client.putsToAck \in Seq(AckOf)
      /\ Sound(client, client.puts, client.putsToAck, 1..Len(client.putsToAck), applied)
      /\ Conn(client, down, served, applied, breaks)
      /\ IsFiniteSet(client.listens) /\ client.over \subseteq client.listens
      /\ down \in Seq(DownMessages) /\ breaks \in Nat
  BY Now
<1> DEFINE m == Head(down)
           n == client.unackedListens - 1
           c == Listened(client, m, n)
<1>1. Handled /\ applied' = applied /\ IsListenReply(m) /\ ~IsAuthReply(m)
  BY DEF onListenReply, Received, Handled, server, IsListenReply, IsAuthReply
<1>2. n \in Int
  BY <1>0 DEF Clients
<1>3. client' = IF c.unackedListens = 0 THEN ackPuts(c) ELSE c
  <2>1. Refused(client, m).unackedListens = client.unackedListens
    BY <1>0 DEF Refused, Clients
  <2>2. [Refused(client, m) EXCEPT !.unackedListens = @ - 1] = c
    BY <2>1 DEF Listened
  <2> QED BY <2>2 DEF onListenReply
<1> HIDE DEF c, n, m
<1>4. /\ c \in Clients /\ SameQueue(client, c) /\ c.puts = client.puts /\ c.up = client.up
      /\ c.putsToAck = client.putsToAck /\ c.state = client.state /\ c.result = client.result
      /\ c.unackedListens = n
      /\ \/ c.listens = client.listens /\ c.over = client.over
         \/ c.listens = client.listens \ {m.to.query} /\ c.over = client.over \ {m.to.query}
  BY <1>0, <1>2, ListenedFields DEF c
<1>5. IsFiniteSet(c.listens) /\ c.over \subseteq c.listens
  <2>1. IsFiniteSet(client.listens \ {m.to.query})
    BY <1>0, FS_RemoveElement
  <2> QED BY <1>0, <1>4, <2>1
<1>6. Sound(c, c.puts, c.putsToAck, 1..Len(c.putsToAck), applied)
  <2>1. Sound(c, client.puts, client.putsToAck, 1..Len(client.putsToAck), applied)
    BY <1>0, <1>4, SoundSame
  <2> QED BY <1>4, <2>1
<1>7. Conn(c, Tail(down), served, applied, breaks)
  <2>1. c.unackedListens = client.unackedListens - 1
    BY <1>4 DEF n
  <2> QED BY <1>0, <1>1, <1>4, <2>1, ReceivedConn DEF m
<1>8. CASE c.unackedListens = 0
  <2>1. client' = ackPuts(c) /\ c.putsToAck \in Seq(AckOf)
    BY <1>0, <1>3, <1>4, <1>8
  <2>2. /\ Sound(client', client'.puts, client'.putsToAck, 1..Len(client'.putsToAck), applied)
        /\ Conn(client', Tail(down), served, applied, breaks)
        /\ client'.listens = c.listens /\ client'.over = c.over /\ Spoken(c, client', applied)
    BY <1>0, <1>6, <1>7, <2>1, ReleaseFacts
  <2>2a. client'.reread = c.reread
    BY <1>0, <1>6, <1>7, <2>1, ReleaseFacts
  <2>3. Inv'
    BY <1>1, <1>5, <2>2, HandledInv
  <2>4. Spoken(client, client', applied) /\ client' \in Clients
    BY <1>4, <2>2 DEF Spoken, Sound
  <2>5. client'.reread = client.reread
    BY <1>4, <2>2a DEF SameQueue
  <2> QED BY <1>0, <1>1, <2>3, <2>4, <2>5, SpokenStep
<1>9. CASE c.unackedListens # 0
  <2>1. client' = c
    BY <1>3, <1>9
  <2>2. Inv'
    BY <1>1, <1>5, <1>6, <1>7, <2>1, HandledInv
  <2>3. client'.reread = client.reread
    BY <1>4, <2>1 DEF SameQueue
  <2> QED BY <1>1, <1>4, <2>1, <2>2, <2>3, SameResult
<1> QED BY <1>8, <1>9

\* The client once an outstanding put has been forgotten.
Forgotten(c, p) == [c EXCEPT !.puts = Removed(c.puts, p)]

(***************************************************************************)
(* What that changes.                                                      *)
(***************************************************************************)
LEMMA ForgottenFields ==
    ASSUME NEW c \in Clients, NEW p, NEW d, d = Forgotten(c, p)
    PROVE  /\ d \in Clients /\ SameQueue(c, d) /\ d.puts = Removed(c.puts, p) /\ d.up = c.up
           /\ d.putsToAck = c.putsToAck /\ d.state = c.state /\ d.result = c.result
           /\ d.unackedListens = c.unackedListens /\ d.listens = c.listens /\ d.over = c.over
           /\ d.cache = c.cache
<1> DEFINE P == Removed(c.puts, p)
<1>1. c.puts \in Seq(Outstanding)
  BY DEF Clients
<1>2. P \in Seq(Outstanding)
  BY <1>1, RemovedFacts
<1> HIDE DEF P
<1>3. d = [c EXCEPT !.puts = P]
  BY DEF Forgotten, P
<1>4. d.puts = P /\ d \in Clients /\ SameQueue(c, d)
  BY <1>2, <1>3 DEF SameQueue, Clients
<1> QED BY <1>3, <1>4 DEF P, Clients

\* The client with answers b held back.
Held(c, b) == [c EXCEPT !.putsToAck = b]

(***************************************************************************)
(* What that changes.                                                      *)
(***************************************************************************)
LEMMA HeldFields ==
    ASSUME NEW c \in Clients, NEW b \in Seq(Acks), NEW d, d = Held(c, b)
    PROVE  /\ d \in Clients /\ SameQueue(c, d) /\ d.puts = c.puts /\ d.up = c.up
           /\ d.putsToAck = b /\ d.state = c.state /\ d.result = c.result
           /\ d.unackedListens = c.unackedListens /\ d.listens = c.listens /\ d.over = c.over
           /\ d.cache = c.cache
BY DEF Held, SameQueue, Clients

(***************************************************************************)
(* The answer to a put that was outstanding is passed on at once.          *)
(***************************************************************************)
LEMMA PassedOn ==
    ASSUME NEW c, NEW a \in Seq(AckOf), NEW b \in Seq(AckOf), NEW p, NEW s, Added(b, a, p, s),
           NEW ap, NEW dn, NEW sv, NEW br \in Nat,
           Sound(c, c.puts, b, 1..Len(b), ap), Conn(c, dn, sv, ap, br),
           NEW d, d = putAnswered(c, p, s)
    PROVE  /\ Sound(d, d.puts, a, 1..Len(a), ap) /\ Conn(d, dn, sv, ap, br)
           /\ Spoken(c, d, ap) /\ Follows(c, d, c.puts, d.puts, b[Len(b)], ap)
<1> DEFINE K == 1..Len(b)
           j == Len(b)
<1>1. /\ Len(b) = Len(a) + 1 /\ Len(a) \in Nat
      /\ \A i \in 1..Len(a) : b[i] = a[i]
      /\ b[j].put = p /\ b[j].status = s
  BY DEF Added
<1>2. K \in SUBSET (1..Len(b)) /\ j \in K /\ K \ {j} = 1..Len(a)
  BY <1>1
<1>3. Sound(c, c.puts, b, K, ap) /\ d = putAnswered(c, b[j].put, b[j].status)
  BY <1>1
<1> HIDE DEF K, j
<1>4. /\ \E Q : Sound(d, Q, b, K \ {j}, ap) /\ Follows(c, d, c.puts, Q, b[j], ap)
      /\ Spoken(c, d, ap)
  BY <1>2, <1>3, Answered
<1>5. PICK Q : Sound(d, Q, b, K \ {j}, ap) /\ Follows(c, d, c.puts, Q, b[j], ap)
  BY <1>4
<1>6. Q = d.puts
  BY <1>5, FollowsPuts
<1>7. Sound(d, d.puts, b, K \ {j}, ap) /\ Follows(c, d, c.puts, d.puts, b[j], ap)
  BY <1>5, <1>6
<1>8. Sound(d, d.puts, a, 1..Len(a), ap)
  <2> DEFINE M == 1..Len(a)
  <2>1. Sound(d, d.puts, b, M, ap) /\ \A i \in M : b[i] = a[i]
    BY <1>1, <1>2, <1>7
  <2> HIDE DEF M
  <2>2. Sound(d, d.puts, a, M, ap)
    BY <2>1, SoundWithin
  <2> QED BY <2>2 DEF M
<1>9. Conn(d, dn, sv, ap, br)
  <2>1. c \in Clients /\ d \in Clients
    BY <1>7 DEF Sound
  <2> QED BY <1>7, <2>1, FollowsConn
<1> QED BY <1>4, <1>7, <1>8, <1>9 DEF j

(***************************************************************************)
(* Handling the answer to a put keeps the invariant and the contract: it   *)
(* is passed on, or held back until every listen has been answered.        *)
(***************************************************************************)
LEMMA OnPutReplyStep ==
    ASSUME Inv, down # <<>>, onPutReply(Head(down))
    PROVE  Inv' /\ Abides /\ client'.reread = client.reread
<1>0. /\ client \in Clients /\ client.putsToAck \in Seq(AckOf) /\ client.puts \in Seq(Outstanding)
      /\ Sound(client, client.puts, client.putsToAck, 1..Len(client.putsToAck), applied)
      /\ Conn(client, down, served, applied, breaks)
      /\ IsFiniteSet(client.listens) /\ client.over \subseteq client.listens
      /\ down \in Seq(DownMessages) /\ breaks \in Nat
  BY Now
<1> DEFINE m == Head(down)
           p == m.to.put
           s == m.status
           a == client.putsToAck
           b == Append(a, [put |-> p, status |-> s])
           c == Forgotten(client, p)
<1>1. Handled /\ applied' = applied /\ IsPutReply(m)
  BY DEF onPutReply, Received, Handled, server, IsPutReply
<1>2. m \in DownMessages /\ m = down[1] /\ 1 \in 1..Len(down)
  BY <1>0, TailFacts
<1>3. p \in Puts /\ s \in Replies /\ s \in Statuses
  BY <1>1, <1>2 DEF IsPutReply, DownMessages, UpMessages, Statuses
<1>4. Out(client, p) /\ Honest(p, s, applied)
  BY <1>0, <1>1, <1>2 DEF Conn, Wire
<1>5. PICK i0 \in 1..Len(client.puts) : client.puts[i0].put = p
  BY <1>4 DEF Out
<1>6. client' = IF client.unackedListens = 0 THEN putAnswered(c, p, s) ELSE Held(c, b)
  <2>1. ~ \A i \in DOMAIN client.puts : client.puts[i].put # p
    BY <1>0, <1>5
  <2>2. [client EXCEPT !.puts = Only(@, {o \in ToSet(@) : o.put # p})] = c
    BY <1>0 DEF Forgotten, Removed, Clients
  <2>3. c.putsToAck = a
    BY <1>0 DEF Forgotten, Clients
  <2>4. [c EXCEPT !.putsToAck = Append(@, [put |-> p, status |-> s])] = Held(c, b)
    BY <2>3 DEF Held
  <2>5. client' = IF client.unackedListens = 0 THEN putAnswered(c, p, s)
                  ELSE [c EXCEPT !.putsToAck = Append(@, [put |-> p, status |-> s])]
    BY <2>1, <2>2 DEF onPutReply
  <2> QED BY <2>4, <2>5
<1>6a. b \in Seq(Acks)
  <2>1. [put |-> p, status |-> s] \in Acks /\ a \in Seq(Acks)
    BY <1>0, <1>3 DEF Acks, Clients
  <2> QED BY <2>1
<1> HIDE DEF m, p, s, a, b, c
<1>7. b \in Seq(AckOf) /\ Added(b, a, p, s)
  <2>1. Standing(client, client.puts, a, 1..Len(a)) /\ a \in Seq(AckOf)
    BY <1>0 DEF Sound, a
  <2>2. p = client.puts[i0].put /\ b = Append(a, [put |-> p, status |-> s])
    BY <1>5 DEF b
  <2> QED BY <1>0, <1>3, <2>1, <2>2, Moved
<1>8. Sound(client, Removed(client.puts, p), b, 1..Len(b), applied)
  <2>1. Sound(client, client.puts, a, 1..Len(a), applied) /\ a \in Seq(AckOf)
    BY <1>0 DEF a
  <2>2. p = client.puts[i0].put /\ b = Append(a, [put |-> p, status |-> s])
    BY <1>5 DEF b
  <2> QED BY <1>0, <1>3, <1>4, <2>1, <2>2, MovedSound
<1>9. /\ c \in Clients /\ SameQueue(client, c) /\ c.puts = Removed(client.puts, p)
      /\ c.up = client.up /\ c.putsToAck = client.putsToAck /\ c.state = client.state
      /\ c.result = client.result /\ c.unackedListens = client.unackedListens
      /\ c.listens = client.listens /\ c.over = client.over
  BY <1>0, ForgottenFields DEF c
<1>10. Sound(c, c.puts, b, 1..Len(b), applied)
  <2> DEFINE P == Removed(client.puts, p)
             K == 1..Len(b)
  <2>1. Sound(client, P, b, K, applied)
    BY <1>8
  <2> HIDE DEF P, K
  <2>2. Sound(c, P, b, K, applied)
    BY <1>9, <2>1, SoundSame
  <2> QED BY <1>9, <2>2 DEF P, K
<1>11. Conn(c, Tail(down), served, applied, breaks)
  <2>1. p = Head(down).to.put /\ IsPutReply(Head(down))
    BY <1>1 DEF p, m
  <2> QED BY <1>0, <1>9, <2>1, ForgottenConn
<1>12. CASE client.unackedListens = 0
  <2>1. client' = putAnswered(c, p, s) /\ a \in Seq(AckOf)
    BY <1>0, <1>6, <1>12 DEF a
  <2>2. /\ Sound(client', client'.puts, a, 1..Len(a), applied)
        /\ Conn(client', Tail(down), served, applied, breaks)
        /\ Spoken(c, client', applied)
        /\ Follows(c, client', c.puts, client'.puts, b[Len(b)], applied)
    BY <1>0, <1>7, <1>10, <1>11, <2>1, PassedOn
  <2>3. client'.putsToAck = a /\ client'.listens = client.listens /\ client'.over = client.over
    BY <1>9, <2>2 DEF Follows, SameConn, a
  <2>4. Inv'
    BY <1>0, <1>1, <2>2, <2>3, HandledInv
  <2>5. Spoken(client, client', applied) /\ client' \in Clients
    BY <1>9, <2>2 DEF Spoken, Sound
  <2>6. client'.reread = client.reread
    BY <1>9, <2>2 DEF Follows, SameConn, SameQueue
  <2> QED BY <1>0, <1>1, <2>4, <2>5, <2>6, SpokenStep
<1>13. CASE client.unackedListens # 0
  <2>1. client' = Held(c, b)
    BY <1>6, <1>13
  <2>2. /\ client' \in Clients /\ SameQueue(c, client') /\ client'.puts = c.puts
        /\ client'.up = c.up /\ client'.putsToAck = b /\ client'.state = c.state
        /\ client'.result = c.result /\ client'.unackedListens = c.unackedListens
        /\ client'.listens = c.listens /\ client'.over = c.over
    BY <1>6a, <1>9, <2>1, HeldFields
  <2>3. Sound(client', client'.puts, client'.putsToAck, 1..Len(client'.putsToAck), applied)
    <3> DEFINE K == 1..Len(b)
               P == c.puts
    <3>1. Sound(c, P, b, K, applied)
      BY <1>10
    <3> HIDE DEF K, P
    <3>2. Sound(client', P, b, K, applied)
      BY <2>2, <3>1, SoundSame
    <3> QED BY <2>2, <3>2 DEF K, P
  <2>4. Conn(client', Tail(down), served, applied, breaks)
    <3>1. SameWire(c, client')
      BY <2>2 DEF SameWire
    <3> QED BY <1>0, <1>11, <3>1, SameWireConn
  <2>5. Inv'
    BY <1>0, <1>1, <1>9, <2>2, <2>3, <2>4, HandledInv
  <2>6. SameQueue(client, client')
    BY <1>9, <2>2 DEF SameQueue
  <2>7. client'.reread = client.reread
    BY <2>6 DEF SameQueue
  <2> QED BY <1>1, <2>5, <2>6, <2>7, SameResult
<1> QED BY <1>12, <1>13

(***************************************************************************)
(* Handling any message of the server keeps the invariant and the          *)
(* contract.                                                               *)
(***************************************************************************)
LEMMA OnDataMessageStep ==
    ASSUME Inv, onDataMessage PROVE Inv' /\ Abides
BY OnAuthStep, OnDataStep, OnListenReplyStep, OnPutReplyStep DEF onDataMessage

-----------------------------------------------------------------------------
\* Refusals, for messages yet to be sent.
Allowed(dn) ==
    \A i \in 1..Len(dn) : IsAuthReply(dn[i]) /\ dn[i].status # "ok" => breaks < MaxBreaks

(***************************************************************************)
(* One more message that is allowed.                                       *)
(***************************************************************************)
LEMMA AllowedAppend ==
    ASSUME NEW dn \in Seq(DownMessages), Allowed(dn), NEW x \in DownMessages,
           IsAuthReply(x) /\ x.status # "ok" => breaks < MaxBreaks
    PROVE  Allowed(Append(dn, x)) /\ Append(dn, x) \in Seq(DownMessages)
<1>1. /\ Append(dn, x) \in Seq(DownMessages) /\ Len(Append(dn, x)) = Len(dn) + 1
      /\ \A i \in 1..Len(dn) : Append(dn, x)[i] = dn[i]
      /\ Append(dn, x)[Len(dn) + 1] = x
  BY AppendLast
<1>2. ASSUME NEW i \in 1..Len(Append(dn, x)) PROVE i \in 1..Len(dn) \/ i = Len(dn) + 1
  BY <1>1
<1> QED BY <1>1, <1>2 DEF Allowed

(***************************************************************************)
(* What taking a message of the client changes.                            *)
(***************************************************************************)
LEMMA TakenFields ==
    ASSUME Inv, NEW m, Taken(m)
    PROVE  /\ client.up # <<>> /\ m = Head(client.up) /\ m = client.up[1] /\ 1 \in 1..Len(client.up)
           /\ m \in UpMessages
           /\ client' \in Clients /\ Taking(client, client') /\ SameQueue(client, client')
           /\ client'.listens = client.listens /\ client'.over = client.over
           /\ client'.putsToAck = client.putsToAck
           /\ reads' = reads /\ breaks' = breaks
<1>0. client \in Clients
  BY Now
<1> DEFINE up == Tail(client.up)
<1>1. /\ client.up # <<>> /\ m = Head(client.up) /\ reads' = reads /\ breaks' = breaks
      /\ client' = [client EXCEPT !.up = up]
  BY DEF Taken
<1>2. client.up \in Seq(UpMessages)
  BY <1>0 DEF Clients
<1>3. up \in Seq(UpMessages) /\ m = client.up[1] /\ 1 \in 1..Len(client.up) /\ m \in UpMessages
  BY <1>1, <1>2, TailFacts
<1> HIDE DEF up
<1>4. /\ client' \in Clients /\ SameQueue(client, client') /\ client'.up = up
      /\ client'.listens = client.listens /\ client'.over = client.over
      /\ client'.putsToAck = client.putsToAck /\ client'.state = client.state
      /\ client'.puts = client.puts /\ client'.result = client.result
      /\ client'.unackedListens = client.unackedListens
  BY <1>0, <1>1, <1>3 DEF Clients, SameQueue
<1>5. Taking(client, client')
  BY <1>4 DEF Taking, up
<1> QED BY <1>1, <1>3, <1>4, <1>5

(***************************************************************************)
(* What is to be shown of a step of the server.                            *)
(***************************************************************************)
LEMMA ServedInv ==
    ASSUME Inv, NEW m, Taken(m), denials' \in 0..MaxDenials, node' \in Nodes,
           served' \in SUBSET Queries, applied' \in [Ops -> Nat],
           down' \in Seq(DownMessages), Allowed(down'),
           Sound(client, client.puts, client.putsToAck, 1..Len(client.putsToAck), applied'),
           Conn(client', down', served', applied', breaks)
    PROVE  Inv'
<1>0. /\ client \in Clients /\ client.putsToAck \in Seq(AckOf)
      /\ IsFiniteSet(client.listens) /\ client.over \subseteq client.listens
      /\ breaks \in 0..MaxBreaks /\ reads \in 0..MaxReads
  BY Now
<1>1. /\ client' \in Clients /\ Taking(client, client') /\ SameQueue(client, client')
      /\ client'.listens = client.listens /\ client'.over = client.over
      /\ client'.putsToAck = client.putsToAck
      /\ reads' = reads /\ breaks' = breaks
  BY TakenFields
<1>2. client'.puts = client.puts /\ client'.state = client.state
  BY <1>1 DEF Taking
<1>3. SoundNow'
  <2>1. Sound(client', client.puts, client.putsToAck, 1..Len(client.putsToAck), applied')
    BY <1>1, <1>2, SoundSame
  <2> QED BY <1>1, <1>2, <2>1 DEF SoundNow
<1>4. ConnNow'
  BY <1>1 DEF ConnNow
<1>5. Tended'
  BY <1>0, <1>1 DEF Tended
<1>6. Refusals'
  BY <1>1 DEF Refusals, Allowed
<1> QED BY <1>3, <1>4, <1>5, <1>6 DEF Inv

(***************************************************************************)
(* An accepted put takes effect for calls that wait, for its transactions  *)
(* the first time: a step of the contract.                                 *)
(***************************************************************************)
LEMMA ApplyStep ==
    ASSUME Inv, NEW m, Taken(m), IsPut(m), applied' = Bumped(applied, m.put)
    PROVE  Abides
<1>0. /\ client.putsToAck \in Seq(AckOf)
      /\ Sound(client, client.puts, client.putsToAck, 1..Len(client.putsToAck), applied)
      /\ Wire(client, down, applied)
  BY Now DEF Conn
<1> DEFINE p == m.put
           S == ToSet(p.ops)
<1>1. /\ m = client.up[1] /\ 1 \in 1..Len(client.up) /\ Taking(client, client')
  BY TakenFields
<1>2. /\ p \in Puts /\ S \subseteq Ops
      /\ p.hashed => /\ S \subseteq Txns /\ Unapplied(p, applied)
                     /\ \A t \in S : client.status[t] = "sent" /\ client.result[t] = "pending"
      /\ ~p.hashed => \E w \in Writes : p = WritePut(w) /\ client.result[w] = "pending"
  BY <1>0, <1>1, PutTaken
<1>3. /\ \A o \in S : client.result[o] = "pending"
      /\ \A o \in S \cap Txns : applied[o] = 0
  <2>1. CASE p.hashed
    BY <1>2, <2>1 DEF Unapplied
  <2>2. CASE ~p.hashed
    <3>1. PICK w \in Writes : p = WritePut(w) /\ client.result[w] = "pending"
      BY <1>2, <2>2
    <3>2. S = {w} /\ w \notin Txns
      BY <3>1, WritePutType
    <3> QED BY <3>1, <3>2
  <2>3. p.hashed \in BOOLEAN
    BY <1>2 DEF Puts
  <2> QED BY <2>1, <2>2
<1>4. Contract!Ops = Ops
  BY DEF Contract!Ops, Ops
<1>5. client'.result = client.result
  BY <1>1 DEF Taking
<1>6. applied' = [o \in Ops |-> applied[o] + IF o \in S THEN 1 ELSE 0]
  BY DEF Bumped
<1> HIDE DEF S
<1>7. Contract!Apply(S)
  BY <1>3, <1>4, <1>5, <1>6 DEF Contract!Apply
<1> QED BY <1>2, <1>4, <1>7 DEF Abides, Contract!Next

(***************************************************************************)
(* A step of the server that answers a message keeps the invariant and the *)
(* contract.                                                               *)
(***************************************************************************)
LEMMA RepliedStep ==
    ASSUME Inv, NEW m, Taken(m), denials' \in 0..MaxDenials, node' \in Nodes,
           served' \in SUBSET Queries,
           NEW dn \in Seq(DownMessages), Allowed(dn), Conn(client, dn, served', applied, breaks),
           NEW s \in Replies, down' = Append(dn, Reply(m, s)), Effect(m, s, applied, applied'),
           IsAuth(m) /\ s # "ok" => breaks < MaxBreaks
    PROVE  Inv' /\ Abides
<1>0. /\ client \in Clients /\ client.putsToAck \in Seq(AckOf) /\ applied \in [Ops -> Nat]
      /\ Sound(client, client.puts, client.putsToAck, 1..Len(client.putsToAck), applied)
      /\ Wire(client, down, applied) /\ breaks \in Nat
  BY Now DEF Conn
<1>1. /\ client.up # <<>> /\ m = Head(client.up) /\ m = client.up[1] /\ 1 \in 1..Len(client.up)
      /\ m \in UpMessages /\ Taking(client, client') /\ SameQueue(client, client')
  BY TakenFields
<1>2. /\ Reply(m, s) \in DownMessages /\ Reply(m, s).status = s
      /\ IsAuthReply(Reply(m, s)) <=> IsAuth(m)
  BY <1>1, ReplyFacts
<1>3. Allowed(down') /\ down' \in Seq(DownMessages)
  BY <1>2, AllowedAppend
<1>4. Conn(client', down', served', applied', breaks)
  BY <1>0, <1>1, RepliedConn
<1>5. CASE applied' = applied
  <2>1. Inv'
    BY <1>0, <1>3, <1>4, <1>5, ServedInv
  <2> QED BY <1>1, <1>5, <2>1, SameResult
<1>6. CASE IsPut(m) /\ applied' = Bumped(applied, m.put)
  <2>1. /\ Sound(client, client.puts, client.putsToAck, 1..Len(client.putsToAck), applied')
        /\ applied' \in [Ops -> Nat]
    BY <1>0, <1>1, <1>6, AcceptedSound
  <2>2. Inv'
    BY <1>3, <1>4, <2>1, ServedInv
  <2>3. Abides
    BY <1>6, ApplyStep
  <2> QED BY <2>2, <2>3
<1> QED BY <1>5, <1>6 DEF Effect

(***************************************************************************)
(* Adding one or two messages.                                             *)
(***************************************************************************)
LEMMA ConcatOne ==
    ASSUME NEW S, NEW s \in Seq(S), NEW x \in S, NEW y \in S
    PROVE  /\ s \o <<x>> = Append(s, x)
           /\ s \o <<x, y>> = Append(Append(s, x), y)
           /\ s \o <<>> = s
OBVIOUS

(***************************************************************************)
(* News are a message.                                                     *)
(***************************************************************************)
LEMMA DataFacts ==
    ASSUME NEW q \in Queries, NEW n \in Nodes
    PROVE  Data(q, n) \in DownMessages /\ Data(q, n).kind = "data" /\ ~IsAuthReply(Data(q, n))
BY DEF Data, DownMessages, IsAuthReply

(***************************************************************************)
(* The news that go out before the answer.                                 *)
(***************************************************************************)
LEMMA Informed ==
    ASSUME Inv, NEW sv, Conn(client, down, sv, applied, breaks),
           down # <<>> \/ sv # {} \/ client.state = "connected",
           NEW q \in Queries, NEW n \in Nodes, NEW dn, dn = Append(down, Data(q, n))
    PROVE  /\ dn \in Seq(DownMessages) /\ Allowed(dn) /\ Conn(client, dn, sv, applied, breaks)
<1>0. client \in Clients /\ down \in Seq(DownMessages) /\ breaks \in Nat /\ Refusals
  BY Now DEF Inv
<1>1. Allowed(down)
  BY <1>0 DEF Refusals, Allowed
<1>2. Data(q, n) \in DownMessages /\ Data(q, n).kind = "data" /\ ~IsAuthReply(Data(q, n))
  BY DataFacts
<1>3. Allowed(dn) /\ dn \in Seq(DownMessages)
  BY <1>0, <1>1, <1>2, AllowedAppend
<1>4. Conn(client, dn, sv, applied, breaks)
  BY <1>0, <1>2, DataConn
<1> QED BY <1>3, <1>4

(***************************************************************************)
(* The state from which the server answers.                                *)
(***************************************************************************)
LEMMA Ready ==
    ASSUME Inv
    PROVE  /\ down \in Seq(DownMessages) /\ Allowed(down)
           /\ Conn(client, down, served, applied, breaks)
           /\ client \in Clients
           /\ served \in SUBSET Queries /\ node \in Nodes /\ denials \in 0..MaxDenials
BY Now DEF Inv, Refusals, Allowed

(***************************************************************************)
(* What a refusal changes.                                                 *)
(***************************************************************************)
LEMMA DeniedFacts ==
    ASSUME Inv, NEW m, Denied(m)
    PROVE  /\ Taken(m) /\ down' = Append(down, Reply(m, "denied"))
           /\ denials' \in 0..MaxDenials /\ "denied" \in Replies /\ "denied" # "ok"
<1>1. denials \in 0..MaxDenials
  BY Ready
<1>2. denials < MaxDenials /\ denials' = denials + 1
  BY DEF Denied
<1>3. denials' \in 0..MaxDenials
  BY <1>1, <1>2, BoundsAssumption
<1> QED BY <1>3 DEF Denied, Replies

(***************************************************************************)
(* What the server may answer otherwise.                                   *)
(***************************************************************************)
LEMMA AcceptedFacts ==
    ASSUME Inv, NEW m, Accepted(m)
    PROVE  Taken(m) /\ denials' \in 0..MaxDenials /\ "ok" \in Replies /\ "datastale" \in Replies
BY Ready DEF Accepted, Replies

(***************************************************************************)
(* Answering the authentication keeps the invariant and the contract.      *)
(***************************************************************************)
LEMMA ServeAuthStep ==
    ASSUME Inv, NEW m, ServeAuth(m) PROVE Inv' /\ Abides
<1>0. /\ down \in Seq(DownMessages) /\ Allowed(down)
      /\ Conn(client, down, served, applied, breaks)
      /\ served \in SUBSET Queries /\ node \in Nodes
  BY Ready
<1>1. /\ m.kind = "auth" /\ served' = served /\ node' = node /\ applied' = applied
      /\ \/ Accepted(m) /\ down' = Append(down, Reply(m, "ok"))
         \/ breaks < MaxBreaks /\ Denied(m)
  BY DEF ServeAuth
<1>2. /\ \A s : Effect(m, s, applied, applied')
      /\ served' \in SUBSET Queries /\ node' \in Nodes
      /\ Conn(client, down, served', applied, breaks)
  BY <1>0, <1>1 DEF Effect, IsPut
<1>3. CASE Accepted(m) /\ down' = Append(down, Reply(m, "ok"))
  <2>1. Taken(m) /\ denials' \in 0..MaxDenials /\ "ok" \in Replies
    BY <1>3, AcceptedFacts
  <2> QED BY <1>0, <1>2, <1>3, <2>1, RepliedStep
<1>4. CASE breaks < MaxBreaks /\ Denied(m)
  <2>1. /\ Taken(m) /\ down' = Append(down, Reply(m, "denied"))
        /\ denials' \in 0..MaxDenials /\ "denied" \in Replies
    BY <1>4, DeniedFacts
  <2> QED BY <1>0, <1>2, <1>4, <2>1, RepliedStep
<1> QED BY <1>1, <1>3, <1>4

(***************************************************************************)
(* So does answering a listen, with the news first.                        *)
(***************************************************************************)
LEMMA ServeListenStep ==
    ASSUME Inv, NEW m, ServeListen(m) PROVE Inv' /\ Abides
<1>0. /\ down \in Seq(DownMessages) /\ Allowed(down) /\ client \in Clients
      /\ Conn(client, down, served, applied, breaks)
      /\ served \in SUBSET Queries /\ node \in Nodes
  BY Ready
<1>1. /\ m.kind = "listen" /\ node' = node /\ applied' = applied
      /\ \/ /\ Accepted(m) /\ served' = served \cup {m.query}
            /\ down' = down \o <<Data(m.query, node), Reply(m, "ok")>>
         \/ Denied(m) /\ served' = served \ {m.query}
  BY DEF ServeListen
<1>2. Taken(m)
  BY <1>1 DEF Accepted, Denied
<1>3. client.up # <<>> /\ m = Head(client.up) /\ m \in UpMessages
  BY <1>2, TakenFields
<1>4. ~IsAuth(m) /\ ~IsPut(m) /\ m.query \in Queries
  BY <1>1, <1>3 DEF IsAuth, IsPut, UpMessages
<1>5. /\ Conn(client, down, served', applied, breaks)
      /\ down # <<>> \/ client.state = "connected"
  BY <1>0, <1>3, <1>4, ServedConn
<1>6. /\ \A s : Effect(m, s, applied, applied')
      /\ served' \in SUBSET Queries /\ node' \in Nodes
  BY <1>0, <1>1, <1>4 DEF Effect
<1>7. CASE Accepted(m) /\ down' = down \o <<Data(m.query, node), Reply(m, "ok")>>
  <2> DEFINE dn == Append(down, Data(m.query, node))
  <2>1. Taken(m) /\ denials' \in 0..MaxDenials /\ "ok" \in Replies
    BY <1>7, AcceptedFacts
  <2>2. dn \in Seq(DownMessages) /\ Allowed(dn) /\ Conn(client, dn, served', applied, breaks)
    BY <1>0, <1>4, <1>5, Informed
  <2>3. down' = Append(dn, Reply(m, "ok"))
    <3>1. Data(m.query, node) \in DownMessages /\ Reply(m, "ok") \in DownMessages
      BY <1>0, <1>3, <1>4, <2>1, DataFacts, ReplyFacts
    <3> QED BY <1>0, <1>7, <3>1, ConcatOne
  <2> HIDE DEF dn
  <2> QED BY <1>4, <1>6, <2>1, <2>2, <2>3, RepliedStep
<1>8. CASE Denied(m)
  <2>1. /\ down' = Append(down, Reply(m, "denied"))
        /\ denials' \in 0..MaxDenials /\ "denied" \in Replies
    BY <1>8, DeniedFacts
  <2> QED BY <1>0, <1>2, <1>4, <1>5, <1>6, <2>1, RepliedStep
<1> QED BY <1>1, <1>7, <1>8

(***************************************************************************)
(* So does ending a listen.                                                *)
(***************************************************************************)
LEMMA ServeUnlistenStep ==
    ASSUME Inv, NEW m, ServeUnlisten(m) PROVE Inv' /\ Abides
<1>0. /\ client \in Clients /\ down \in Seq(DownMessages) /\ Allowed(down)
      /\ Conn(client, down, served, applied, breaks) /\ breaks \in Nat
      /\ served \in SUBSET Queries /\ node \in Nodes /\ applied \in [Ops -> Nat]
      /\ Sound(client, client.puts, client.putsToAck, 1..Len(client.putsToAck), applied)
  BY Ready, Now
<1>1. /\ m.kind = "unlisten" /\ node' = node /\ applied' = applied /\ down' = down
      /\ Accepted(m) /\ served' = served \ {m.query}
  BY DEF ServeUnlisten
<1>2. Taken(m) /\ denials' \in 0..MaxDenials
  BY <1>1, AcceptedFacts
<1>3. /\ client.up # <<>> /\ m = Head(client.up) /\ Taking(client, client')
      /\ SameQueue(client, client')
  BY <1>2, TakenFields
<1>4. Conn(client, down, served', applied, breaks)
  <2>1. ~IsAuth(m)
    BY <1>1 DEF IsAuth
  <2> QED BY <1>0, <1>3, <2>1, ServedConn
<1>5. Conn(client', down, served', applied, breaks)
  BY <1>0, <1>1, <1>3, <1>4, TakenConn DEF Taking
<1>6. served' \in SUBSET Queries
  BY <1>0, <1>1
<1>7. Inv'
  BY <1>0, <1>1, <1>2, <1>5, <1>6, ServedInv
<1> QED BY <1>1, <1>3, <1>7, SameResult

(***************************************************************************)
(* So does answering a put: accepting it, finding its hash stale, or       *)
(* refusing it.                                                            *)
(***************************************************************************)
LEMMA ServePutStep ==
    ASSUME Inv, NEW m, ServePut(m) PROVE Inv' /\ Abides
<1>0. /\ down \in Seq(DownMessages) /\ Allowed(down) /\ client \in Clients
      /\ Conn(client, down, served, applied, breaks)
      /\ served \in SUBSET Queries /\ node \in Nodes
  BY Ready
<1> DEFINE p == m.put
<1>1. /\ m.kind = "put" /\ served' = served
      /\ \/ /\ Accepted(m) /\ applied' = Bumped(applied, p)
            /\ node' = IF p.hashed THEN <<p.val>> ELSE node
            /\ down' = down \o (IF p.hashed THEN Told(Counter, node') ELSE <<>>)
                            \o <<Reply(m, "ok")>>
         \/ /\ p.hashed /\ Accepted(m) /\ down' = Append(down, Reply(m, "datastale"))
            /\ node' = node /\ applied' = applied
         \/ Denied(m) /\ node' = node /\ applied' = applied
  BY DEF ServePut, Bumped
<1>2. Taken(m)
  BY <1>1 DEF Accepted, Denied
<1>3. client.up # <<>> /\ m = Head(client.up) /\ m \in UpMessages
  BY <1>2, TakenFields
<1>4. IsPut(m) /\ ~IsAuth(m) /\ p \in Puts
  BY <1>1, <1>3 DEF IsAuth, IsPut, UpMessages
<1>5. down # <<>> \/ client.state = "connected"
  BY <1>0, <1>3, <1>4, ServedConn
<1>6. /\ served' \in SUBSET Queries /\ Conn(client, down, served', applied, breaks)
  BY <1>0, <1>1
<1>7. CASE /\ Accepted(m) /\ applied' = Bumped(applied, p)
           /\ node' = IF p.hashed THEN <<p.val>> ELSE node
           /\ down' = down \o (IF p.hashed THEN Told(Counter, node') ELSE <<>>)
                            \o <<Reply(m, "ok")>>
  <2>1. denials' \in 0..MaxDenials /\ "ok" \in Replies
    BY <1>7, AcceptedFacts
  <2>2. Effect(m, "ok", applied, applied')
    BY <1>4, <1>7 DEF Effect
  <2>3. node' \in Nodes
    <3>1. p.val \in Int
      BY <1>4 DEF Puts
    <3>2. <<p.val>> \in Nodes
      BY <3>1 DEF Nodes
    <3> QED BY <1>0, <1>7, <3>2
  <2>4. Reply(m, "ok") \in DownMessages /\ Counter \in Queries
    BY <1>3, <2>1, ReplyFacts DEF Queries
  <2>5. Data(Counter, node') \in DownMessages
    BY <2>3, <2>4, DataFacts
  <2>6. CASE p.hashed /\ Counter \in served
    <3> DEFINE dn == Append(down, Data(Counter, node'))
    <3>1. dn \in Seq(DownMessages) /\ Allowed(dn) /\ Conn(client, dn, served', applied, breaks)
      BY <1>5, <1>6, <2>3, <2>4, Informed
    <3>2. down' = Append(dn, Reply(m, "ok"))
      <4>1. down' = (down \o <<Data(Counter, node')>>) \o <<Reply(m, "ok")>>
        BY <1>7, <2>6 DEF Told
      <4>2. down \o <<Data(Counter, node')>> = dn
        BY <1>0, <2>5, ConcatOne
      <4> HIDE DEF dn
      <4>3. dn \o <<Reply(m, "ok")>> = Append(dn, Reply(m, "ok"))
        BY <2>4, <3>1, ConcatOne
      <4> QED BY <4>1, <4>2, <4>3
    <3> HIDE DEF dn
    <3> QED BY <1>2, <1>4, <1>6, <2>1, <2>2, <2>3, <3>1, <3>2, RepliedStep
  <2>7. CASE ~(p.hashed /\ Counter \in served)
    <3>1. down' = (down \o <<>>) \o <<Reply(m, "ok")>>
      BY <1>7, <2>7 DEF Told
    <3>2. down' = Append(down, Reply(m, "ok"))
      BY <1>0, <2>4, <3>1, ConcatOne
    <3> QED BY <1>0, <1>2, <1>4, <1>6, <2>1, <2>2, <2>3, <3>2, RepliedStep
  <2> QED BY <2>6, <2>7
<1>8. CASE /\ p.hashed /\ Accepted(m) /\ down' = Append(down, Reply(m, "datastale"))
           /\ node' = node /\ applied' = applied
  <2>1. denials' \in 0..MaxDenials /\ "datastale" \in Replies
    BY <1>8, AcceptedFacts
  <2>2. Effect(m, "datastale", applied, applied') /\ node' \in Nodes
    BY <1>0, <1>4, <1>8 DEF Effect
  <2> QED BY <1>0, <1>2, <1>4, <1>6, <1>8, <2>1, <2>2, RepliedStep
<1>9. CASE Denied(m) /\ node' = node /\ applied' = applied
  <2>1. /\ down' = Append(down, Reply(m, "denied"))
        /\ denials' \in 0..MaxDenials /\ "denied" \in Replies
    BY <1>9, DeniedFacts
  <2>2. Effect(m, "denied", applied, applied') /\ node' \in Nodes
    BY <1>0, <1>4, <1>9 DEF Effect
  <2> QED BY <1>0, <1>2, <1>4, <1>6, <2>1, <2>2, RepliedStep
<1> QED BY <1>1, <1>7, <1>8, <1>9

(***************************************************************************)
(* So does any step of the server for this client.                         *)
(***************************************************************************)
LEMMA ServerStepStep ==
    ASSUME Inv, ServerStep PROVE Inv' /\ Abides
BY ServeAuthStep, ServeListenStep, ServeUnlistenStep, ServePutStep DEF ServerStep

(***************************************************************************)
(* So does a change by another device.                                     *)
(***************************************************************************)
LEMMA ForeignStep ==
    ASSUME Inv, NEW d \in {1, -1}, ForeignChange(d) PROVE Inv' /\ Abides
<1>0. /\ down \in Seq(DownMessages) /\ Allowed(down)
      /\ Conn(client, down, served, applied, breaks) /\ node \in Nodes /\ Inv
  BY Ready
<1>1. /\ client' = client /\ served' = served /\ applied' = applied /\ reads' = reads
      /\ breaks' = breaks /\ denials' = denials
      /\ node' = <<Val(node) + d>>
      /\ down' = down \o Told(Counter, node')
  BY DEF ForeignChange, Val
<1>2. node' \in Nodes
  <2>1. Val(node) \in Int
    BY <1>0, BlockInt
  <2>2. Val(node) + d \in Int
    BY <2>1
  <2> QED BY <1>1, <2>2 DEF Nodes
<1>3. Counter \in Queries
  BY DEF Queries
<1>4. down' \in Seq(DownMessages) /\ Allowed(down') /\ Conn(client, down', served, applied, breaks)
  <2>1. CASE Counter \in served
    <3>1. Data(Counter, node') \in DownMessages
      BY <1>2, <1>3, DataFacts
    <3>2. down' = Append(down, Data(Counter, node'))
      BY <1>0, <1>1, <2>1, <3>1, ConcatOne DEF Told
    <3>3. down # <<>> \/ served # {} \/ client.state = "connected"
      BY <2>1
    <3> QED BY <1>0, <1>2, <1>3, <3>2, <3>3, Informed
  <2>2. CASE Counter \notin served
    <3>1. down' = down
      BY <1>0, <1>1, <2>2 DEF Told
    <3> QED BY <1>0, <3>1
  <2> QED BY <2>1, <2>2
<1>5. SoundNow' /\ ConnNow' /\ Tended' /\ Refusals'
  BY <1>0, <1>1, <1>2, <1>4 DEF Inv, SoundNow, ConnNow, Tended, Refusals, Allowed
<1> QED BY <1>1, <1>5 DEF Inv, Abides

-----------------------------------------------------------------------------
(***************************************************************************)
(* Every step keeps the invariant, and is one of the contract or none.     *)
(***************************************************************************)
LEMMA InvStep ==
    ASSUME Inv, [Next]_vars PROVE Inv' /\ Abides
<1>1. CASE \E w \in Writes : setValue(w)
  BY <1>1, SetValueStep
<1>2. CASE \E t \in Txns : startTransaction(t)
  BY <1>2, StartTransactionStep
<1>3. CASE \E q \in Reads : observeSingleEvent(q)
  BY <1>3, ObserveStep
<1>4. CASE \E q \in Queries : removeObserver(q)
  BY <1>4, RemoveObserverStep
<1>5. CASE tryScheduleReconnect
  BY <1>5, ReconnectStep
<1>6. CASE onReady
  BY <1>6, OnReadyStep
<1>7. CASE onDisconnect
  BY <1>7, OnDisconnectStep
<1>8. CASE onDataMessage
  BY <1>8, OnDataMessageStep
<1>9. CASE ServerStep
  BY <1>9, ServerStepStep
<1>10. CASE \E d \in {1, -1} : ForeignChange(d)
  BY <1>10, ForeignStep
<1>11. CASE UNCHANGED vars
  BY <1>11 DEF vars, Inv, SoundNow, ConnNow, Tended, Refusals, Abides
<1> QED BY <1>1, <1>2, <1>3, <1>4, <1>5, <1>6, <1>7, <1>8, <1>9, <1>10, <1>11 DEF Next

(***************************************************************************)
(* The invariant holds in every behaviour, for any writes, transactions    *)
(* and reads, and any bounds on breaks, refusals, changes by others and    *)
(* tries.                                                                  *)
(***************************************************************************)
THEOREM Invariant == Spec => []Inv
<1>1. Init => Inv
  BY InvInit
<1>2. Inv /\ [Next]_vars => Inv'
  BY InvStep
<1> QED BY <1>1, <1>2, PTL DEF Spec

(***************************************************************************)
(* Every variable keeps its type; in particular no call takes effect more  *)
(* often than the connection may break, and once more                      *)
(* (FPersistentConnection's outstanding puts, sent again by restoreState), *)
(* and no transaction is tried more often than the limit on retries        *)
(* allows.                                                                 *)
(***************************************************************************)
THEOREM TypeCorrect == Spec => []TypeOK
<1>1. Inv => TypeOK
  BY InvTypeOK
<1> QED BY <1>1, Invariant, PTL

(***************************************************************************)
(* The SDK keeps its contract with the app, through breaks, restoreState,  *)
(* cancelSentTransactions, stale data, retries and answers held back in    *)
(* putsToAck: every call is answered at most once and the truth, and a     *)
(* transaction takes effect at most once.                                  *)
(***************************************************************************)
THEOREM Implements == Spec => ImplementsContract
<1>1. Init => Contract!Init
  BY InvInit
<1>2. Inv /\ [Next]_vars => [Contract!Next]_(Contract!vars)
  <2>1. ASSUME Abides PROVE [Contract!Next]_(Contract!vars)
    BY <2>1 DEF Abides, Contract!vars
  <2> QED BY <2>1, InvStep
<1> QED BY <1>1, <1>2, Invariant, PTL DEF Spec, ImplementsContract, Contract!Spec
=============================================================================
