------------------------- MODULE TransactionProofs --------------------------
(***************************************************************************)
(* Proofs about DatabaseClient's counter, for any writes, transactions and *)
(* reads and any bounds: no accepted put of transactions overwrites a      *)
(* change of another device, unless news of the counter have overtaken an  *)
(* acceptance that was held back, or a read above the counter has been     *)
(* answered while it was watched.                                          *)
(*                                                                         *)
(* The server accepts a put of transactions if its hash is that of the     *)
(* counter, so nothing is overwritten if the put's value is what its hash  *)
(* stands for plus the number of its transactions (Good).  A put that is   *)
(* made when the one before it has been accepted takes its value from that *)
(* one and its hash from the cache; the two agree because the client hears *)
(* of the new value before it learns of the acceptance (AllHeard), or      *)
(* knows nothing (Near).  It hears of it because it listens: a put that    *)
(* depends on the counter follows a listen on the wire (Asks).  It does    *)
(* not depend on the counter if it was made without one, and is found      *)
(* stale if there is one by now (Missing).                                 *)
(*                                                                         *)
(* Honoured adds this to the invariant Inv of DatabaseClientProofs, as     *)
(* long as no read above the counter has re-run what waits in the queue;   *)
(* such a read is not forgotten (RereadStays), so that the inductive       *)
(* invariant is Kept: Inv, and Honoured until then.                        *)
(***************************************************************************)
EXTENDS DatabaseClientProofs

\* News of the counter, and the refusal to tell of it.
IsNews(m) == m.kind = "data" /\ m.query = Counter
Refusal == Reply(Listen(Counter), "denied")

\* While there is no node nobody has heard of one, and no transaction has
\* taken effect; a counter that is not listened to is not remembered.
Missing(c, dn, nd, ap) ==
    /\ nd = <<>> =>
        /\ c.cache = <<>>
        /\ \A i \in 1..Len(dn) : IsNews(dn[i]) => dn[i].node = <<>>
        /\ \A t \in Txns : ap[t] = 0
    /\ Counter \notin c.listens => c.cache = <<>>

\* No news of the counter after the j-th message.
Silent(dn, j) == \A i \in j+1..Len(dn) : ~IsNews(dn[i])

\* Without a listen at the server the client will have forgotten the counter,
\* or knows nothing of it, once it has taken all messages.
Quiet(x, dn) ==
    \/ \E j \in 1..Len(dn) : dn[j] = Refusal /\ Silent(dn, j)
    \/ x = <<>> /\ Silent(dn, 0)

\* The server will tell the client of changes, or the client knows nothing.
Known(x, dn, sv) == Counter \in sv \/ Quiet(x, dn)

\* No listen to the counter ends between messages j and i.
Unrevoked(u, j, i) == \A h \in j+1..i-1 : u[h] # Unlisten(Counter)

\* When the server has come to message i it will tell the client of changes,
\* because of a listen before it or because it does already.
Asked(u, i, x, dn, sv) ==
    \/ \E j \in 1..i-1 : u[j] = Listen(Counter) /\ Unrevoked(u, j, i)
    \/ Unrevoked(u, 0, i) /\ Known(x, dn, sv)

\* A put that depends on what was known of the counter.
Bearing(p) == p.hashed /\ p.hash # <<>>

\* Every such put on the wire is preceded by a listen.
UpAsked(c, dn, sv) ==
    \A i \in 1..Len(c.up) : IsPut(c.up[i]) /\ Bearing(c.up[i].put) =>
        Asked(c.up, i, c.cache, dn, sv)

\* So would be one that is sent now.
NowAsked(c, dn, sv) ==
    c.state = "connected" /\ Counter \in c.listens =>
        Asked(c.up, Len(c.up) + 1, c.cache, dn, sv)

\* Such a put waits for the connection only while the counter is listened to,
\* so that restoreState sends the listen before it.
Unsent(c) ==
    \A i \in 1..Len(c.puts) :
        Bearing(c.puts[i].put) /\ ~c.puts[i].sent => Counter \in c.listens

\* Nothing waits while there is a connection.
AllOut(c) ==
    c.state = "connected" => \A i \in 1..Len(c.puts) : c.puts[i].sent

\* The second part of the strengthening: the server accepts a put that
\* depends on the counter only from a client that it tells of the change.
Asks(c, dn, sv) ==
    UpAsked(c, dn, sv) /\ NowAsked(c, dn, sv) /\ Unsent(c) /\ AllOut(c)

-----------------------------------------------------------------------------
(***************************************************************************)
(* Asked looks only at the messages before the i-th.                       *)
(***************************************************************************)
LEMMA AskedSame ==
    ASSUME NEW u, NEW v, NEW i \in Nat, \A h \in 1..i-1 : v[h] = u[h],
           NEW x, NEW dn, NEW sv, NEW y, NEW en, NEW tv,
           Asked(u, i, x, dn, sv), Known(x, dn, sv) => Known(y, en, tv)
    PROVE  Asked(v, i, y, en, tv)
<1>1. CASE \E j \in 1..i-1 : u[j] = Listen(Counter) /\ Unrevoked(u, j, i)
  <2>1. PICK j \in 1..i-1 : u[j] = Listen(Counter) /\ Unrevoked(u, j, i)
    BY <1>1
  <2>2. v[j] = Listen(Counter)
    BY <2>1
  <2>3. Unrevoked(v, j, i)
    <3>1. \A h \in j+1..i-1 : h \in 1..i-1
      OBVIOUS
    <3> QED BY <2>1, <3>1 DEF Unrevoked
  <2> QED BY <2>2, <2>3 DEF Asked
<1>2. CASE Unrevoked(u, 0, i) /\ Known(x, dn, sv)
  <2>1. Unrevoked(v, 0, i)
    BY <1>2 DEF Unrevoked
  <2> QED BY <1>2, <2>1 DEF Asked
<1> QED BY <1>1, <1>2 DEF Asked

(***************************************************************************)
(* A message that does not end the listen leaves it as it is.              *)
(***************************************************************************)
LEMMA AskedNext ==
    ASSUME NEW u, NEW i \in Nat, i > 0, NEW x, NEW dn, NEW sv, Asked(u, i, x, dn, sv),
           u[i] # Unlisten(Counter)
    PROVE  Asked(u, i + 1, x, dn, sv)
<1>1. \A j \in Nat, h \in Int : h \in j+1..(i + 1)-1 => h \in j+1..i-1 \/ h = i
  OBVIOUS
<1>2. \A j \in Nat : Unrevoked(u, j, i) => Unrevoked(u, j, i + 1)
  BY <1>1 DEF Unrevoked
<1>3. \A j \in 1..i-1 : j \in Nat /\ j \in 1..(i + 1)-1
  OBVIOUS
<1> QED BY <1>2, <1>3 DEF Asked

(***************************************************************************)
(* The server takes the first message: what it meant is known from now on. *)
(***************************************************************************)
LEMMA AskedTail ==
    ASSUME NEW u \in Seq(UpMessages), u # <<>>, NEW i \in 1..Len(u),
           NEW x, NEW dn, NEW sv, NEW y, NEW en, NEW tv,
           Asked(u, i + 1, x, dn, sv),
           u[1] = Listen(Counter) => Known(y, en, tv),
           u[1] # Unlisten(Counter) /\ Known(x, dn, sv) => Known(y, en, tv)
    PROVE  Asked(Tail(u), i, y, en, tv)
<1>1. /\ Len(u) \in Nat /\ Len(Tail(u)) = Len(u) - 1
      /\ \A k \in 1..Len(Tail(u)) : Tail(u)[k] = u[k + 1]
  BY TailFacts
<1>2. \A h \in 1..i-1 : Tail(u)[h] = u[h + 1]
  BY <1>1
<1>3. ASSUME NEW j \in Nat, Unrevoked(u, j + 1, i + 1) PROVE Unrevoked(Tail(u), j, i)
  <2>1. ASSUME NEW h \in j+1..i-1 PROVE Tail(u)[h] # Unlisten(Counter)
    <3>1. h + 1 \in (j+1)+1..(i+1)-1 /\ h \in 1..i-1
      OBVIOUS
    <3> QED BY <1>2, <1>3, <3>1 DEF Unrevoked
  <2> QED BY <2>1 DEF Unrevoked
<1>4. CASE \E j \in 1..(i + 1)-1 : u[j] = Listen(Counter) /\ Unrevoked(u, j, i + 1)
  <2>1. PICK j \in 1..(i + 1)-1 : u[j] = Listen(Counter) /\ Unrevoked(u, j, i + 1)
    BY <1>4
  <2>2. CASE j = 1
    <3>1. Unrevoked(u, 0 + 1, i + 1) /\ 0 \in Nat
      BY <2>1, <2>2
    <3>2. Unrevoked(Tail(u), 0, i)
      BY <1>3, <3>1
    <3> QED BY <2>1, <2>2, <3>2 DEF Asked
  <2>3. CASE j # 1
    <3> DEFINE k == j - 1
    <3>1. k \in 1..i-1 /\ k \in Nat /\ k + 1 = j
      BY <2>3
    <3> HIDE DEF k
    <3>2. Tail(u)[k] = Listen(Counter)
      BY <1>2, <2>1, <3>1
    <3>3. Unrevoked(Tail(u), k, i)
      BY <1>3, <2>1, <3>1
    <3> QED BY <3>1, <3>2, <3>3 DEF Asked
  <2> QED BY <2>2, <2>3
<1>5. CASE Unrevoked(u, 0, i + 1) /\ Known(x, dn, sv)
  <2>1. u[1] # Unlisten(Counter)
    <3>1. 1 \in 0+1..(i + 1)-1
      OBVIOUS
    <3> QED BY <1>5, <3>1 DEF Unrevoked
  <2>2. Unrevoked(u, 0 + 1, i + 1) /\ 0 \in Nat
    <3>1. \A h \in (0+1)+1..(i + 1)-1 : h \in 0+1..(i + 1)-1
      OBVIOUS
    <3> QED BY <1>5, <3>1 DEF Unrevoked
  <2>3. Unrevoked(Tail(u), 0, i)
    BY <1>3, <2>2
  <2> QED BY <1>5, <2>1, <2>3 DEF Asked
<1> QED BY <1>4, <1>5 DEF Asked

(***************************************************************************)
(* A step that changes neither the messages nor the state of the           *)
(* connection.                                                             *)
(***************************************************************************)
LEMMA SameAsks ==
    ASSUME NEW c \in Clients, NEW d, NEW dn, NEW sv, NEW en, NEW tv, Asks(c, dn, sv),
           d.up = c.up, d.state = c.state,
           Known(c.cache, dn, sv) => Known(d.cache, en, tv),
           Counter \in d.listens => Counter \in c.listens,
           \A i \in 1..Len(d.puts) : \E k \in 1..Len(c.puts) : d.puts[i] = c.puts[k],
           (Counter \in c.listens => Counter \in d.listens) \/ c.state = "connected"
    PROVE  Asks(d, en, tv)
<1>1. c.up \in Seq(UpMessages) /\ Len(c.up) \in Nat
  BY DEF Clients
<1>2. UpAsked(d, en, tv)
  <2>1. ASSUME NEW i \in 1..Len(d.up), IsPut(d.up[i]), Bearing(d.up[i].put)
        PROVE  Asked(d.up, i, d.cache, en, tv)
    <3>1. Asked(c.up, i, c.cache, dn, sv) /\ i \in Nat /\ \A h \in 1..i-1 : d.up[h] = c.up[h]
      BY <1>1, <2>1 DEF Asks, UpAsked
    <3> QED BY <3>1, AskedSame
  <2> QED BY <2>1 DEF UpAsked
<1>3. NowAsked(d, en, tv)
  <2>1. ASSUME d.state = "connected", Counter \in d.listens
        PROVE  Asked(d.up, Len(d.up) + 1, d.cache, en, tv)
    <3> DEFINE i == Len(c.up) + 1
    <3>1. Asked(c.up, i, c.cache, dn, sv) /\ i \in Nat /\ \A h \in 1..i-1 : d.up[h] = c.up[h]
      BY <1>1, <2>1 DEF Asks, NowAsked
    <3> HIDE DEF i
    <3>2. Asked(d.up, i, d.cache, en, tv)
      BY <3>1, AskedSame
    <3> QED BY <3>2 DEF i
  <2> QED BY <2>1 DEF NowAsked
<1>4. AllOut(d)
  BY DEF Asks, AllOut
<1>5. Unsent(d)
  BY DEF Asks, AllOut, Unsent
<1> QED BY <1>2, <1>3, <1>4, <1>5 DEF Asks

(***************************************************************************)
(* Before the connection is ready no put is on its way.                    *)
(***************************************************************************)
LEMMA IdleAsks ==
    ASSUME NEW d, d.state # "connected", \A i \in 1..Len(d.up) : ~IsPut(d.up[i]), Unsent(d),
           NEW dn, NEW sv
    PROVE  Asks(d, dn, sv)
BY DEF Asks, UpAsked, NowAsked, AllOut

(***************************************************************************)
(* Another message is sent.                                                *)
(***************************************************************************)
LEMMA AppendAsks ==
    ASSUME NEW c \in Clients, NEW d, NEW dn, NEW sv, Asks(c, dn, sv),
           NEW m \in UpMessages, d.up = Append(c.up, m), d.state = c.state,
           IsPut(m) /\ Bearing(m.put) => c.state = "connected" /\ Counter \in c.listens,
           Known(c.cache, dn, sv) => Known(d.cache, dn, sv),
           Counter \in d.listens =>
                \/ m = Listen(Counter)
                \/ Counter \in c.listens /\ m # Unlisten(Counter),
           Unsent(d), AllOut(d)
    PROVE  Asks(d, dn, sv)
<1>1. c.up \in Seq(UpMessages) /\ Len(c.up) \in Nat
  BY DEF Clients
<1> DEFINE n == Len(c.up) + 1
<1>2. /\ Len(d.up) = n /\ \A i \in 1..Len(c.up) : d.up[i] = c.up[i]
      /\ d.up[n] = m /\ n \in Nat /\ n > 0
  BY <1>1, AppendLast
<1>3. \A h \in 1..n-1 : d.up[h] = c.up[h]
  BY <1>1, <1>2
<1> HIDE DEF n
<1>4. c.state = "connected" /\ Counter \in c.listens => Asked(d.up, n, d.cache, dn, sv)
  <2>1. c.state = "connected" /\ Counter \in c.listens => Asked(c.up, n, c.cache, dn, sv)
    BY DEF Asks, NowAsked, n
  <2> QED BY <1>2, <1>3, <2>1, AskedSame
<1>5. UpAsked(d, dn, sv)
  <2>1. ASSUME NEW i \in 1..Len(d.up), IsPut(d.up[i]), Bearing(d.up[i].put)
        PROVE  Asked(d.up, i, d.cache, dn, sv)
    <3>1. CASE i = n
      BY <1>2, <1>4, <2>1, <3>1
    <3>2. CASE i # n
      <4>1. i \in 1..Len(c.up) /\ i \in Nat /\ d.up[i] = c.up[i]
        BY <1>1, <1>2, <3>2 DEF n
      <4>2. Asked(c.up, i, c.cache, dn, sv)
        BY <2>1, <4>1 DEF Asks, UpAsked
      <4>3. \A h \in 1..i-1 : d.up[h] = c.up[h]
        BY <1>1, <1>2, <4>1
      <4> QED BY <4>1, <4>2, <4>3, AskedSame
    <3> QED BY <3>1, <3>2
  <2> QED BY <2>1 DEF UpAsked
<1>6. NowAsked(d, dn, sv)
  <2>1. ASSUME d.state = "connected", Counter \in d.listens
        PROVE  Asked(d.up, n + 1, d.cache, dn, sv)
    <3>1. CASE m = Listen(Counter)
      <4>1. n \in 1..(n + 1)-1 /\ Unrevoked(d.up, n, n + 1)
        BY <1>2 DEF Unrevoked
      <4> QED BY <1>2, <3>1, <4>1 DEF Asked
    <3>2. CASE Counter \in c.listens /\ m # Unlisten(Counter)
      BY <1>2, <1>4, <2>1, <3>2, AskedNext
    <3> QED BY <2>1, <3>1, <3>2
  <2> QED BY <1>2, <2>1 DEF NowAsked
<1> QED BY <1>5, <1>6 DEF Asks

(***************************************************************************)
(* A put goes out.                                                         *)
(***************************************************************************)
LEMMA GoesOutAsks ==
    ASSUME NEW c \in Clients, NEW d, NEW dn, NEW sv, Asks(c, dn, sv), SameConn(c, d),
           NEW p \in Puts, GoesOut(c, d, p), Bearing(p) => Counter \in c.listens
    PROVE  Asks(d, dn, sv)
<1> DEFINE o == [put |-> p, sent |-> c.state = "connected"]
<1>1. /\ d.state = c.state /\ d.listens = c.listens /\ d.cache = c.cache
      /\ d.puts = Append(c.puts, o)
      /\ d.up = IF c.state = "connected" THEN Append(c.up, PutMessage(p)) ELSE c.up
  BY DEF SameConn, GoesOut
<1>2. o \in Outstanding /\ o.put = p /\ (c.state = "connected" => o.sent) /\ c.puts \in Seq(Outstanding)
  BY DEF Outstanding, Clients
<1> HIDE DEF o
<1>3. /\ Len(d.puts) = Len(c.puts) + 1 /\ Len(c.puts) \in Nat
      /\ \A i \in 1..Len(c.puts) : d.puts[i] = c.puts[i]
      /\ d.puts[Len(c.puts) + 1] = o
  BY <1>1, <1>2, AppendLast
<1>4. \A i \in 1..Len(d.puts) : i \in 1..Len(c.puts) \/ i = Len(c.puts) + 1
  BY <1>3
<1>5. Unsent(d)
  BY <1>1, <1>2, <1>3, <1>4 DEF Asks, Unsent
<1>6. AllOut(d)
  BY <1>1, <1>2, <1>3, <1>4 DEF Asks, AllOut
<1>7. CASE c.state = "connected"
  <2> DEFINE m == PutMessage(p)
  <2>1. m \in UpMessages /\ IsPut(m) /\ m.put = p
    BY UpMessageIs
  <2>2. m # Unlisten(Counter)
    BY DEF PutMessage, Unlisten
  <2> HIDE DEF m
  <2>3. d.up = Append(c.up, m)
    BY <1>1, <1>7 DEF m
  <2> QED BY <1>1, <1>5, <1>6, <1>7, <2>1, <2>2, <2>3, AppendAsks
<1>8. CASE c.state # "connected"
  <2>1. d.up = c.up
    BY <1>1, <1>8
  <2>2. UpAsked(d, dn, sv)
    BY <1>1, <2>1 DEF Asks, UpAsked
  <2>3. NowAsked(d, dn, sv)
    BY <1>1, <1>8 DEF NowAsked
  <2> QED BY <1>5, <1>6, <2>2, <2>3 DEF Asks
<1> QED BY <1>7, <1>8

(***************************************************************************)
(* The server takes a message.                                             *)
(***************************************************************************)
LEMMA TakenAsks ==
    ASSUME NEW c \in Clients, c.up # <<>>, NEW d, d.up = Tail(c.up), d.state = c.state,
           d.puts = c.puts, d.listens = c.listens, d.cache = c.cache,
           NEW dn, NEW sv, NEW en, NEW tv, Asks(c, dn, sv),
           c.up[1] = Listen(Counter) => Known(c.cache, en, tv),
           c.up[1] # Unlisten(Counter) /\ Known(c.cache, dn, sv) => Known(c.cache, en, tv)
    PROVE  Asks(d, en, tv)
<1>1. c.up \in Seq(UpMessages) /\ Len(c.up) \in Nat
  BY DEF Clients
<1>2. /\ Len(d.up) = Len(c.up) - 1 /\ Len(c.up) # 0
      /\ \A i \in 1..Len(d.up) : d.up[i] = c.up[i + 1] /\ i + 1 \in 1..Len(c.up)
  BY <1>1, TailFacts
<1>3. UpAsked(d, en, tv)
  <2>1. ASSUME NEW i \in 1..Len(d.up), IsPut(d.up[i]), Bearing(d.up[i].put)
        PROVE  Asked(d.up, i, d.cache, en, tv)
    <3>1. d.up[i] = c.up[i + 1] /\ i + 1 \in 1..Len(c.up) /\ i \in 1..Len(c.up)
      BY <1>1, <1>2
    <3>2. Asked(c.up, i + 1, c.cache, dn, sv)
      BY <2>1, <3>1 DEF Asks, UpAsked
    <3>3. Asked(Tail(c.up), i, c.cache, en, tv)
      BY <1>1, <3>1, <3>2, AskedTail
    <3> QED BY <3>3
  <2> QED BY <2>1 DEF UpAsked
<1>4. NowAsked(d, en, tv)
  <2>1. ASSUME d.state = "connected", Counter \in d.listens
        PROVE  Asked(d.up, Len(d.up) + 1, d.cache, en, tv)
    <3> DEFINE i == Len(c.up)
    <3>1. Asked(c.up, i + 1, c.cache, dn, sv)
      BY <2>1 DEF Asks, NowAsked
    <3>2. i \in 1..Len(c.up) /\ Len(d.up) + 1 = i
      BY <1>1, <1>2
    <3> HIDE DEF i
    <3>3. Asked(Tail(c.up), i, c.cache, en, tv)
      BY <1>1, <3>1, <3>2, AskedTail
    <3> QED BY <3>2, <3>3
  <2> QED BY <2>1 DEF NowAsked
<1>5. Unsent(d) /\ AllOut(d)
  BY DEF Asks, Unsent, AllOut
<1> QED BY <1>3, <1>4, <1>5 DEF Asks

(***************************************************************************)
(* A message for the client, news only if it listens.                      *)
(***************************************************************************)
LEMMA KnownAppend ==
    ASSUME NEW dn \in Seq(DownMessages), NEW m \in DownMessages, NEW x, NEW sv, NEW tv,
           Counter \in sv => Counter \in tv, IsNews(m) => Counter \in tv,
           Known(x, dn, sv)
    PROVE  Known(x, Append(dn, m), tv)
<1> DEFINE en == Append(dn, m)
<1>1. /\ Len(en) = Len(dn) + 1 /\ Len(dn) \in Nat
      /\ \A i \in 1..Len(dn) : en[i] = dn[i]
      /\ en[Len(dn) + 1] = m
  BY AppendLast
<1> HIDE DEF en
<1>2. SUFFICES ASSUME Counter \notin tv PROVE Known(x, en, tv)
  BY DEF Known, en
<1>3. ASSUME NEW j \in 0..Len(dn), Silent(dn, j) PROVE Silent(en, j)
  <2>1. ASSUME NEW i \in j+1..Len(en) PROVE ~IsNews(en[i])
    <3>1. i \in j+1..Len(dn) \/ i = Len(dn) + 1
      BY <1>1
    <3>2. \A h \in j+1..Len(dn) : h \in 1..Len(dn)
      BY <1>1
    <3> QED BY <1>1, <1>2, <1>3, <3>1, <3>2 DEF Silent
  <2> QED BY <2>1 DEF Silent
<1>4. Quiet(x, dn)
  BY <1>2 DEF Known
<1>5. CASE \E j \in 1..Len(dn) : dn[j] = Refusal /\ Silent(dn, j)
  <2>1. PICK j \in 1..Len(dn) : dn[j] = Refusal /\ Silent(dn, j)
    BY <1>5
  <2>2. j \in 0..Len(dn) /\ j \in 1..Len(en) /\ en[j] = Refusal
    BY <1>1, <2>1
  <2> QED BY <1>3, <2>1, <2>2 DEF Known, Quiet
<1>6. CASE x = <<>> /\ Silent(dn, 0)
  BY <1>1, <1>3, <1>6 DEF Known, Quiet
<1> QED BY <1>4, <1>5, <1>6 DEF Quiet

(***************************************************************************)
(* A refused listen makes the client forget.                               *)
(***************************************************************************)
LEMMA KnownRefusal ==
    ASSUME NEW dn \in Seq(DownMessages), Refusal \in DownMessages, NEW x, NEW sv
    PROVE  Known(x, Append(dn, Refusal), sv)
<1> DEFINE en == Append(dn, Refusal)
           j == Len(dn) + 1
<1>1. Len(en) = j /\ Len(dn) \in Nat /\ en[j] = Refusal
  BY AppendLast
<1> HIDE DEF en
<1>2. j \in 1..Len(en) /\ Silent(en, j)
  BY <1>1 DEF Silent
<1>3. Known(x, en, sv)
  BY <1>1, <1>2 DEF Known, Quiet
<1> QED BY <1>3 DEF en

(***************************************************************************)
(* The client takes a message, and forgets when it is a refusal.           *)
(***************************************************************************)
LEMMA KnownTail ==
    ASSUME NEW dn \in Seq(DownMessages), dn # <<>>, NEW x, NEW y, NEW sv, Known(x, dn, sv),
           dn[1] = Refusal => y = <<>>, x = <<>> /\ ~IsNews(dn[1]) => y = <<>>
    PROVE  Known(y, Tail(dn), sv)
<1> DEFINE en == Tail(dn)
<1>1. /\ Len(dn) \in Nat /\ Len(dn) # 0 /\ Len(en) = Len(dn) - 1
      /\ \A i \in 1..Len(en) : en[i] = dn[i + 1]
  BY TailFacts
<1> HIDE DEF en
<1>2. SUFFICES ASSUME Counter \notin sv PROVE Known(y, en, sv)
  BY DEF Known, en
<1>3. ASSUME NEW j \in Nat, Silent(dn, j + 1) PROVE Silent(en, j)
  <2>1. ASSUME NEW i \in j+1..Len(en) PROVE ~IsNews(en[i])
    <3>1. i + 1 \in (j+1)+1..Len(dn) /\ i \in 1..Len(en)
      BY <1>1
    <3> QED BY <1>1, <1>3, <3>1 DEF Silent
  <2> QED BY <2>1 DEF Silent
<1>4. CASE \E j \in 1..Len(dn) : dn[j] = Refusal /\ Silent(dn, j)
  <2>1. PICK j \in 1..Len(dn) : dn[j] = Refusal /\ Silent(dn, j)
    BY <1>4
  <2>2. CASE j = 1
    <3>1. Silent(dn, 0 + 1) /\ 0 \in Nat
      BY <2>1, <2>2
    <3>2. Silent(en, 0)
      BY <1>3, <3>1
    <3> QED BY <2>1, <2>2, <3>2 DEF Known, Quiet
  <2>3. CASE j # 1
    <3> DEFINE k == j - 1
    <3>1. k \in Nat /\ k + 1 = j /\ k \in 1..Len(en)
      BY <1>1, <2>3
    <3> HIDE DEF k
    <3>2. Silent(en, k) /\ en[k] = Refusal
      BY <1>1, <1>3, <2>1, <3>1
    <3> QED BY <3>1, <3>2 DEF Known, Quiet
  <2> QED BY <2>2, <2>3
<1>5. CASE x = <<>> /\ Silent(dn, 0)
  <2>1. ~IsNews(dn[1])
    <3>1. 1 \in 0+1..Len(dn)
      BY <1>1
    <3> QED BY <1>5, <3>1 DEF Silent
  <2>2. Silent(dn, 0 + 1) /\ 0 \in Nat
    <3>1. \A i \in (0+1)+1..Len(dn) : i \in 0+1..Len(dn)
      BY <1>1
    <3> QED BY <1>5, <3>1 DEF Silent
  <2>3. Silent(en, 0)
    BY <1>3, <2>2
  <2> QED BY <1>5, <2>1, <2>3 DEF Known, Quiet
<1> QED BY <1>2, <1>4, <1>5 DEF Known, Quiet

-----------------------------------------------------------------------------
\* Node n does not contradict an accepted put of value v.
Near(n, v) == n = <<>> \/ n = <<v>>

\* Nor do any news between messages j and k.
Calm(dn, j, k, v) == \A i \in j+1..k-1 : IsNews(dn[i]) => Near(dn[i].node, v)

\* A message after which the client knows the value v, or nothing.
Tells(m, v) == m = Data(Counter, <<v>>) \/ m = Refusal

\* When the client comes to message k it knows the value v of the counter, or
\* nothing of it.
Heard(x, dn, k, v) ==
    \/ \E j \in 1..k-1 : Tells(dn[j], v) /\ Calm(dn, j, k, v)
    \/ Near(x, v) /\ Calm(dn, 0, k, v)

\* The answer to an accepted put of transactions.
IsOk(m) == IsPutReply(m) /\ m.to.put.hashed /\ m.status = "ok"

\* When the client learns that a put of transactions was accepted, it has
\* heard of the value the put gave to the counter and of no later one: the
\* server sends the news before the answer.
AllHeard(x, dn) ==
    \A k \in 1..Len(dn) : IsOk(dn[k]) => Heard(x, dn, k, dn[k].to.put.val)

(***************************************************************************)
(* Heard looks only at the messages before the k-th, and at the cache.     *)
(***************************************************************************)
LEMMA HeardSame ==
    ASSUME NEW x, NEW y, NEW dn, NEW en, NEW k \in Nat, NEW v, Heard(x, dn, k, v),
           Near(x, v) => Near(y, v), \A i \in 1..k-1 : en[i] = dn[i]
    PROVE  Heard(y, en, k, v)
<1>1. \A j \in Nat : Calm(dn, j, k, v) => Calm(en, j, k, v)
  <2>1. \A j \in Nat : \A i \in j+1..k-1 : i \in 1..k-1
    OBVIOUS
  <2> QED BY <2>1 DEF Calm
<1>2. \A j \in 1..k-1 : j \in Nat /\ en[j] = dn[j]
  OBVIOUS
<1> QED BY <1>1, <1>2 DEF Heard

(***************************************************************************)
(* A client that forgets contradicts nothing.                              *)
(***************************************************************************)
LEMMA AllHeardCache ==
    ASSUME NEW dn \in Seq(DownMessages), NEW x, NEW y, AllHeard(x, dn), y = x \/ y = <<>>
    PROVE  AllHeard(y, dn)
<1>1. ASSUME NEW k \in 1..Len(dn), IsOk(dn[k]) PROVE Heard(y, dn, k, dn[k].to.put.val)
  <2> DEFINE v == dn[k].to.put.val
  <2>1. Heard(x, dn, k, v) /\ k \in Nat
    BY <1>1 DEF AllHeard
  <2> HIDE DEF v
  <2>2. Near(x, v) => Near(y, v)
    BY DEF Near
  <2>3. Heard(y, dn, k, v)
    BY <2>1, <2>2, HeardSame
  <2> QED BY <2>3 DEF v
<1> QED BY <1>1 DEF AllHeard

(***************************************************************************)
(* One more message; an acceptance only after the news.                    *)
(***************************************************************************)
LEMMA AllHeardAppend ==
    ASSUME NEW dn \in Seq(DownMessages), NEW m \in DownMessages, NEW x, AllHeard(x, dn),
           IsOk(m) => Heard(x, dn, Len(dn) + 1, m.to.put.val)
    PROVE  AllHeard(x, Append(dn, m))
<1> DEFINE en == Append(dn, m)
<1>1. /\ Len(en) = Len(dn) + 1 /\ Len(dn) \in Nat
      /\ \A i \in 1..Len(dn) : en[i] = dn[i]
      /\ en[Len(dn) + 1] = m
  BY AppendLast
<1> HIDE DEF en
<1>2. ASSUME NEW k \in 1..Len(en), IsOk(en[k]) PROVE Heard(x, en, k, en[k].to.put.val)
  <2> DEFINE v == en[k].to.put.val
  <2>1. k \in Nat /\ \A i \in 1..k-1 : en[i] = dn[i]
    BY <1>1
  <2>2. Heard(x, dn, k, v)
    <3>1. CASE k \in 1..Len(dn)
      BY <1>1, <1>2, <3>1 DEF AllHeard
    <3>2. CASE k = Len(dn) + 1
      BY <1>1, <1>2, <3>2
    <3> QED BY <1>1, <3>1, <3>2
  <2> HIDE DEF v
  <2>3. Heard(x, en, k, v)
    BY <2>1, <2>2, HeardSame
  <2> QED BY <2>3 DEF v
<1>3. AllHeard(x, en)
  BY <1>2 DEF AllHeard
<1> QED BY <1>3 DEF en

\* What the client remembers, y, once it has taken message m: nothing, what
\* it remembered before, or the news.
Learns(x, m, y) ==
    \/ y = <<>>
    \/ m # Refusal /\ ~IsNews(m) /\ y = x
    \/ IsNews(m) /\ y = m.node

(***************************************************************************)
(* The client takes the first message.                                     *)
(***************************************************************************)
LEMMA AllHeardTail ==
    ASSUME NEW dn \in Seq(DownMessages), dn # <<>>, NEW x, NEW y, AllHeard(x, dn),
           Learns(x, dn[1], y)
    PROVE  AllHeard(y, Tail(dn))
<1> DEFINE en == Tail(dn)
<1>1. /\ Len(dn) \in Nat /\ Len(dn) # 0 /\ Len(en) = Len(dn) - 1
      /\ \A i \in 1..Len(en) : en[i] = dn[i + 1] /\ i + 1 \in 1..Len(dn)
  BY TailFacts
<1> HIDE DEF en
<1>2. ASSUME NEW k \in 1..Len(en), IsOk(en[k]) PROVE Heard(y, en, k, en[k].to.put.val)
  <2> DEFINE v == en[k].to.put.val
             l == k + 1
  <2>1. Heard(x, dn, l, v) /\ l \in Nat /\ k \in Nat
    BY <1>1, <1>2 DEF AllHeard
  <2>2. \A i \in 1..k-1 : en[i] = dn[i + 1]
    BY <1>1
  <2>3. ASSUME NEW j \in Nat, Calm(dn, j + 1, l, v) PROVE Calm(en, j, k, v)
    <3>1. ASSUME NEW i \in j+1..k-1, IsNews(en[i]) PROVE Near(en[i].node, v)
      <4>1. i + 1 \in (j+1)+1..l-1 /\ i \in 1..k-1
        OBVIOUS
      <4> QED BY <2>2, <2>3, <3>1, <4>1 DEF Calm
    <3> QED BY <3>1 DEF Calm
  <2>3a. l = k + 1
    OBVIOUS
  <2> HIDE DEF v, l
  <2>4. CASE \E j \in 1..l-1 : Tells(dn[j], v) /\ Calm(dn, j, l, v)
    <3>1. PICK j \in 1..l-1 : Tells(dn[j], v) /\ Calm(dn, j, l, v)
      BY <2>4
    <3>2. CASE j = 1
      <4>1. Calm(dn, 0 + 1, l, v) /\ 0 \in Nat
        BY <3>1, <3>2
      <4>2. Calm(en, 0, k, v)
        BY <2>3, <4>1
      <4>3. Near(y, v)
        <5>1. CASE dn[1] = Refusal
          <6>1. ~IsNews(Refusal)
            BY DEF Refusal, Reply, IsNews
          <6> QED BY <5>1, <6>1 DEF Learns, Near
        <5>2. CASE dn[1] = Data(Counter, <<v>>)
          <6>1. IsNews(dn[1]) /\ dn[1].node = <<v>>
            BY <5>2 DEF IsNews, Data
          <6> QED BY <6>1 DEF Learns, Near
        <5> QED BY <3>1, <3>2, <5>1, <5>2 DEF Tells
      <4> QED BY <4>2, <4>3 DEF Heard, v
    <3>3. CASE j # 1
      <4> DEFINE h == j - 1
      <4>1. h \in Nat /\ h + 1 = j /\ h \in 1..k-1
        BY <2>1, <2>3a, <3>3
      <4> HIDE DEF h
      <4>2. Tells(en[h], v) /\ Calm(en, h, k, v)
        BY <2>2, <2>3, <3>1, <4>1
      <4> QED BY <4>1, <4>2 DEF Heard, v
    <3> QED BY <3>2, <3>3
  <2>5. CASE Near(x, v) /\ Calm(dn, 0, l, v)
    <3>1. Near(y, v)
      <4>1. IsNews(dn[1]) => Near(dn[1].node, v)
        <5>1. 1 \in 0+1..l-1
          BY <2>1, <2>3a
        <5> QED BY <2>5, <5>1 DEF Calm
      <4> QED BY <2>5, <4>1 DEF Learns, Near
    <3>2. Calm(dn, 0 + 1, l, v) /\ 0 \in Nat
      <4>1. \A i \in (0+1)+1..l-1 : i \in 0+1..l-1
        BY <2>1
      <4> QED BY <2>5, <4>1 DEF Calm
    <3>3. Calm(en, 0, k, v)
      BY <2>3, <3>2
    <3> QED BY <3>1, <3>3 DEF Heard, v
  <2> QED BY <2>1, <2>4, <2>5 DEF Heard
<1>3. AllHeard(y, en)
  BY <1>2 DEF AllHeard
<1> QED BY <1>3 DEF en

(***************************************************************************)
(* When the acceptance is next, the cache does not contradict it.          *)
(***************************************************************************)
LEMMA HeadHeard ==
    ASSUME NEW dn \in Seq(DownMessages), dn # <<>>, NEW x, AllHeard(x, dn), IsOk(dn[1])
    PROVE  Near(x, dn[1].to.put.val)
<1>1. 1 \in 1..Len(dn)
  BY TailFacts
<1>2. Heard(x, dn, 1, dn[1].to.put.val)
  BY <1>1 DEF AllHeard
<1>3. \A j \in 1..1-1 : FALSE
  OBVIOUS
<1> QED BY <1>2, <1>3 DEF Heard

(***************************************************************************)
(* restoreState sends the listens before the puts.                         *)
(***************************************************************************)
LEMMA RestoredAsks ==
    ASSUME NEW c \in Clients, NEW d, NEW order \in SetToSeqs(c.listens),
           IsFiniteSet(c.listens), NEW a, NEW K, NEW ap, NEW dn, NEW en, NEW sv,
           Sound(c, c.puts, a, K, ap), Fresh(c, en), c.state # "connected",
           Unsent(c), Restored(c, d, order)
    PROVE  Asks(d, dn, sv)
<1> DEFINE lu == c.up \o ListensOf(order)
           pu == PutsOf(c.puts)
           n == Len(lu)
<1>1. c.up \in Seq(UpMessages) /\ c.puts \in Seq(Outstanding) /\ c.listens \in SUBSET Queries
  BY DEF Clients
<1>2. /\ ListensOf(order) \in Seq(UpMessages) /\ Len(ListensOf(order)) = Len(order)
      /\ Len(order) \in Nat
      /\ \A i \in 1..Len(order) : ListensOf(order)[i] = Listen(order[i])
                                  /\ IsListen(ListensOf(order)[i])
      /\ \A q \in c.listens : \E i \in 1..Len(order) : order[i] = q
  BY <1>1, ListensFacts
<1>3. /\ pu \in Seq(UpMessages) /\ Len(pu) = Len(c.puts) /\ Len(c.puts) \in Nat
      /\ Len(AllSent(c.puts)) = Len(c.puts)
      /\ \A i \in 1..Len(c.puts) :
            /\ pu[i] = PutMessage(c.puts[i].put) /\ IsPut(pu[i]) /\ pu[i].put = c.puts[i].put
            /\ AllSent(c.puts)[i].sent = TRUE
  BY <1>1, PutsFacts
<1>4. lu \in Seq(UpMessages) /\ Joined(lu, c.up, ListensOf(order))
  BY <1>1, <1>2, ConcatFacts
<1>5. d.up = lu \o pu /\ d.state = "connected" /\ d.puts = AllSent(c.puts) /\ d.listens = c.listens
  BY DEF Restored
<1> HIDE DEF lu, pu
<1>6. Joined(d.up, lu, pu)
  BY <1>3, <1>4, <1>5, ConcatFacts
<1>7. /\ n \in Nat /\ Len(d.up) = n + Len(c.puts) /\ n = Len(c.up) + Len(order) /\ Len(c.up) \in Nat
      /\ \A i \in 1..n : d.up[i] = lu[i]
      /\ \A i \in 1..Len(c.puts) : d.up[n + i] = pu[i]
  BY <1>2, <1>3, <1>4, <1>6 DEF Joined
<1>7a. Len(c.puts) \in Nat /\ Len(d.up) = n + Len(c.puts) /\ n \in Nat
  BY <1>3, <1>7
<1> HIDE DEF n
<1>8. \A i \in 1..n : ~IsPut(d.up[i])
  <2> TAKE i \in 1..n
  <2>1. CASE i \in 1..Len(c.up)
    BY <1>4, <1>7, <2>1 DEF Joined, Fresh
  <2>2. CASE i \notin 1..Len(c.up)
    <3> DEFINE k == i - Len(c.up)
    <3>1. k \in 1..Len(order) /\ i = Len(c.up) + k
      BY <1>2, <1>7, <2>2
    <3> HIDE DEF k
    <3>2. d.up[i] = ListensOf(order)[k] /\ IsListen(ListensOf(order)[k])
      BY <1>2, <1>4, <1>7, <3>1 DEF Joined
    <3> QED BY <3>2 DEF IsListen, IsPut
  <2> QED BY <2>1, <2>2
<1>9. ASSUME Counter \in c.listens, NEW i \in n+1..n+Len(c.puts)+1
      PROVE  Asked(d.up, i, d.cache, dn, sv)
  <2>1. PICK k \in 1..Len(order) : order[k] = Counter
    BY <1>2, <1>9
  <2> DEFINE j == Len(c.up) + k
  <2>2. j \in 1..n /\ j \in 1..i-1 /\ j \in Nat /\ i \in Nat
    BY <1>2, <1>3, <1>7, <1>9, <2>1
  <2>3. d.up[j] = Listen(Counter)
    <3>1. d.up[j] = lu[j] /\ lu[j] = ListensOf(order)[k]
      BY <1>2, <1>4, <1>7, <2>1, <2>2 DEF Joined
    <3> QED BY <1>2, <2>1, <3>1
  <2>4. Unrevoked(d.up, j, i)
    <3>1. ASSUME NEW h \in j+1..i-1 PROVE d.up[h] # Unlisten(Counter)
      <4>1. CASE h \in 1..n
        <5> DEFINE g == h - Len(c.up)
        <5>1. g \in 1..Len(order) /\ h = Len(c.up) + g
          BY <1>2, <1>7, <2>1, <2>2, <4>1
        <5> HIDE DEF g
        <5>2. d.up[h] = Listen(order[g])
          BY <1>2, <1>4, <1>7, <4>1, <5>1 DEF Joined
        <5> QED BY <5>2 DEF Listen, Unlisten
      <4>2. CASE h \notin 1..n
        <5> DEFINE g == h - n
        <5>1. g \in 1..Len(c.puts) /\ h = n + g
          <6>1. h \in Int /\ h >= 1 /\ h <= i - 1 /\ i <= n + Len(c.puts) + 1 /\ i \in Int
            BY <1>7a, <1>9, <2>2
          <6> QED BY <1>7a, <4>2, <6>1
        <5> HIDE DEF g
        <5>2. d.up[h] = PutMessage(c.puts[g].put)
          BY <1>3, <1>7, <5>1
        <5> QED BY <5>2 DEF PutMessage, Unlisten
      <4> QED BY <4>1, <4>2
    <3> QED BY <3>1 DEF Unrevoked
  <2> HIDE DEF j
  <2> QED BY <2>2, <2>3, <2>4 DEF Asked
<1>10. UpAsked(d, dn, sv)
  <2>1. ASSUME NEW i \in 1..Len(d.up), IsPut(d.up[i]), Bearing(d.up[i].put)
        PROVE  Asked(d.up, i, d.cache, dn, sv)
    <3> DEFINE g == i - n
    <3>1. g \in 1..Len(c.puts) /\ i = n + g /\ i \in n+1..n+Len(c.puts)+1
      <4>1. i \in Int /\ i >= 1 /\ i <= n + Len(c.puts) /\ i \notin 1..n
        BY <1>7a, <1>8, <2>1
      <4> QED BY <1>7a, <4>1
    <3> HIDE DEF g
    <3>2. Bearing(c.puts[g].put)
      BY <1>3, <1>7, <2>1, <3>1
    <3>3. ~c.puts[g].sent
      BY <3>1, <3>2 DEF Bearing, Sound, Applied
    <3>4. Counter \in c.listens
      BY <3>1, <3>2, <3>3 DEF Unsent
    <3> QED BY <1>9, <3>1, <3>4
  <2> QED BY <2>1 DEF UpAsked
<1>11. NowAsked(d, dn, sv)
  <2>1. ASSUME Counter \in d.listens PROVE Asked(d.up, Len(d.up) + 1, d.cache, dn, sv)
    <3>1. Len(d.up) + 1 \in n+1..n+Len(c.puts)+1
      BY <1>7a
    <3> QED BY <1>5, <1>9, <2>1, <3>1
  <2> QED BY <2>1 DEF NowAsked
<1>12. Unsent(d) /\ AllOut(d)
  BY <1>3, <1>5 DEF Unsent, AllOut
<1> QED BY <1>10, <1>11, <1>12 DEF Asks

-----------------------------------------------------------------------------
\* Put p of transactions has counted each of them: on top of the value its
\* hash stands for, unless that stands for a missing node and there is one by
\* now, in which case the server finds it stale.
Good(p, nd) ==
    \/ p.val = Val(p.hash) + Len(p.ops)
    \/ p.hash = <<>> /\ nd # <<>>

\* All outstanding puts have.
AllGood(P, nd) == \A i \in 1..Len(P) : P[i].put.hashed => Good(P[i].put, nd)

\* The cache contradicts no acceptance that is held back.
KeptNear(x, a, K) ==
    \A i \in K : a[i].put.hashed /\ a[i].status = "ok" => Near(x, a[i].put.val)

\* The third part of the strengthening, about values.
Valued(c, a, K, dn, nd) ==
    AllGood(c.puts, nd) /\ KeptNear(c.cache, a, K) /\ AllHeard(c.cache, dn)

\* The strengthening that the property needs.  The values are right only as
\* long as no news have overtaken an acceptance that is held back.
Fine(c, a, K, dn, sv, nd, ap, ot) ==
    /\ Missing(c, dn, nd, ap) /\ Asks(c, dn, sv)
    /\ ~ot => Valued(c, a, K, dn, nd)

(***************************************************************************)
(* A put that is made from the cache, or from a value just accepted that   *)
(* the cache does not contradict, has counted its transactions.            *)
(***************************************************************************)
LEMMA MadeGood ==
    ASSUME NEW c \in Clients, NEW p \in Puts, NEW x, NEW nd, Made(c, p, x), ~c.reread,
           x.put.hashed /\ x.status = "ok" => x.put.val \in Int /\ Near(c.cache, x.put.val) /\ nd # <<>>
    PROVE  p.hashed => Good(p, nd)
<1>1. c.cache \in Nodes
  BY DEF Clients
<1>2. Val(c.cache) \in Int /\ Len(p.ops) \in Nat /\ p.val \in Int
  BY <1>1, BlockInt DEF Puts
<1>3. ASSUME p.hashed, x.put.hashed, x.status = "ok", p.val = Len(p.ops) + x.put.val
      PROVE  Good(p, nd)
  <2>1. p.hash = c.cache /\ x.put.val \in Int
    BY <1>3 DEF Made
  <2>2. CASE c.cache = <<>>
    BY <1>3, <2>1, <2>2 DEF Good
  <2>3. CASE c.cache = <<x.put.val>>
    <3>1. Val(c.cache) = x.put.val
      BY <2>3 DEF Val
    <3> QED BY <1>2, <1>3, <2>1, <3>1 DEF Good
  <2> QED BY <1>3, <2>2, <2>3 DEF Near
<1>4. ASSUME p.hashed, p.val = Len(p.ops) + Val(c.cache) PROVE Good(p, nd)
  BY <1>2, <1>4 DEF Good, Made
<1> QED BY <1>3, <1>4 DEF Made

(***************************************************************************)
(* One more such put.                                                      *)
(***************************************************************************)
LEMMA AppendGood ==
    ASSUME NEW P \in Seq(Outstanding), NEW o \in Outstanding, NEW nd, AllGood(P, nd),
           o.put.hashed => Good(o.put, nd)
    PROVE  AllGood(Append(P, o), nd)
<1> DEFINE Q == Append(P, o)
<1>1. /\ Len(Q) = Len(P) + 1 /\ Len(P) \in Nat
      /\ \A i \in 1..Len(P) : Q[i] = P[i]
      /\ Q[Len(P) + 1] = o
  BY AppendLast
<1>2. \A i \in 1..Len(Q) : i \in 1..Len(P) \/ i = Len(P) + 1
  BY <1>1
<1> HIDE DEF Q
<1>3. AllGood(Q, nd)
  BY <1>1, <1>2 DEF AllGood
<1> QED BY <1>3 DEF Q

(***************************************************************************)
(* A put that was accepted has taken effect: there is a node.              *)
(***************************************************************************)
LEMMA OkApplied ==
    ASSUME NEW c, NEW P, NEW a, NEW K, NEW ap, Sound(c, P, a, K, ap), NEW j \in K,
           NEW dn, NEW nd, Missing(c, dn, nd, ap), a[j] \in AckOf,
           a[j].put.hashed, a[j].status = "ok"
    PROVE  nd # <<>>
<1> DEFINE p == a[j].put
<1>1. Honest(p, "ok", ap) /\ Stands(c, p) /\ c \in Clients /\ p \in Puts /\ Queued(c)
  BY DEF Sound, Applied, Standing, AckOf
<1>2. TxnFor(c, p)
  BY <1>1, WritePutType DEF Stands, WriteFor
<1> HIDE DEF p
<1>3. Len(p.ops) \in Nat /\ Len(p.ops) >= 1 /\ p.ops \in Seq(Ops)
  BY <1>1, <1>2 DEF TxnFor, Clients, Puts
<1>4. ToSet(p.ops) \subseteq Txns
  BY <1>1, <1>2, MineIsPrefix
<1>5. p.ops[1] \in ToSet(p.ops)
  BY <1>3 DEF ToSet
<1>6. ap[p.ops[1]] > 0 /\ p.ops[1] \in Txns
  BY <1>1, <1>4, <1>5 DEF Honest
<1>7. ap[p.ops[1]] # 0
  BY <1>6
<1> QED BY <1>6, <1>7 DEF Missing

(***************************************************************************)
(* A step that leaves the connection alone.                                *)
(***************************************************************************)
LEMMA FineSame ==
    ASSUME NEW c \in Clients, NEW d, NEW a, NEW K, NEW dn, NEW sv, NEW nd, NEW ap, NEW ot,
           Fine(c, a, K, dn, sv, nd, ap, ot), SameConn(c, d), d.puts = c.puts, d.up = c.up,
           NEW L \in SUBSET K
    PROVE  Fine(d, a, L, dn, sv, nd, ap, ot)
<1>1. d.cache = c.cache /\ d.listens = c.listens /\ d.state = c.state
  BY DEF SameConn
<1>2. Missing(d, dn, nd, ap)
  BY <1>1 DEF Fine, Missing
<1>3. Asks(d, dn, sv)
  <2>1. Asks(c, dn, sv)
    BY DEF Fine
  <2>2. \A i \in 1..Len(d.puts) : \E k \in 1..Len(c.puts) : d.puts[i] = c.puts[k]
    OBVIOUS
  <2> QED BY <1>1, <2>1, <2>2, SameAsks
<1>4. ASSUME ~ot PROVE Valued(d, a, L, dn, nd)
  BY <1>1, <1>4 DEF Fine, Valued, KeptNear
<1> QED BY <1>2, <1>3, <1>4 DEF Fine

(***************************************************************************)
(* A put goes out whose hash is the cache.                                 *)
(***************************************************************************)
LEMMA FineGoesOut ==
    ASSUME NEW c \in Clients, NEW d, NEW a, NEW K, NEW dn, NEW sv, NEW nd, NEW ap, NEW ot,
           Fine(c, a, K, dn, sv, nd, ap, ot), SameConn(c, d), NEW p \in Puts, GoesOut(c, d, p),
           p.hashed => p.hash = c.cache, ~ot /\ p.hashed => Good(p, nd), NEW L \in SUBSET K
    PROVE  Fine(d, a, L, dn, sv, nd, ap, ot)
<1>1. d.cache = c.cache /\ d.listens = c.listens /\ d.state = c.state
  BY DEF SameConn
<1>2. Missing(d, dn, nd, ap)
  BY <1>1 DEF Fine, Missing
<1>3. Bearing(p) => Counter \in c.listens
  BY DEF Fine, Missing, Bearing
<1>4. Asks(d, dn, sv)
  <2>1. Asks(c, dn, sv)
    BY DEF Fine
  <2> QED BY <1>3, <2>1, GoesOutAsks
<1>5. ASSUME ~ot PROVE Valued(d, a, L, dn, nd)
  <2> DEFINE o == [put |-> p, sent |-> c.state = "connected"]
  <2>1. o \in Outstanding /\ o.put = p
    BY DEF Outstanding
  <2>2. d.puts = Append(c.puts, o)
    BY DEF GoesOut
  <2> HIDE DEF o
  <2>3. Valued(c, a, K, dn, nd) /\ (p.hashed => Good(p, nd))
    BY <1>5 DEF Fine
  <2>4. c.puts \in Seq(Outstanding) /\ AllGood(c.puts, nd)
    BY <2>3 DEF Valued, Clients
  <2>5. AllGood(Append(c.puts, o), nd)
    BY <2>1, <2>3, <2>4, AppendGood
  <2>6. KeptNear(d.cache, a, L) /\ AllHeard(d.cache, dn)
    BY <1>1, <2>3 DEF Valued, KeptNear
  <2> QED BY <2>2, <2>5, <2>6 DEF Valued
<1> QED BY <1>2, <1>4, <1>5 DEF Fine

(***************************************************************************)
(* An answer is passed on, and what waits in the queue goes out: its value *)
(* follows on the accepted one, its hash is that of the cache, and the two *)
(* agree.                                                                  *)
(***************************************************************************)
LEMMA FineAnswered ==
    ASSUME NEW c, NEW d, NEW a, NEW K, NEW dn, NEW sv, NEW nd, NEW ap, NEW ot,
           Sound(c, c.puts, a, K, ap), NEW j \in K, a[j] \in AckOf, ~c.reread,
           Fine(c, a, K, dn, sv, nd, ap, ot),
           Follows(c, d, c.puts, d.puts, a[j], ap)
    PROVE  Fine(d, a, K \ {j}, dn, sv, nd, ap, ot)
<1>0. c \in Clients /\ K \ {j} \in SUBSET K
  BY DEF Sound
<1>1. SameConn(c, d)
  BY DEF Follows
<1>2. CASE d.puts = c.puts /\ d.up = c.up
  BY <1>0, <1>1, <1>2, FineSame
<1>3. ASSUME NEW p \in Puts, Sends(c, d, c.puts, d.puts, p, a[j], ap)
      PROVE  Fine(d, a, K \ {j}, dn, sv, nd, ap, ot)
  <2> DEFINE x == a[j]
  <2>1. GoesOut(c, d, p) /\ Made(c, p, x)
    BY <1>3 DEF Sends
  <2>2. x \in AckOf
    OBVIOUS
  <2>3. p.hashed => p.hash = c.cache
    BY <2>1 DEF Made
  <2>4. ASSUME ~ot PROVE p.hashed => Good(p, nd)
    <3>1. ASSUME x.put.hashed, x.status = "ok"
          PROVE  x.put.val \in Int /\ Near(c.cache, x.put.val) /\ nd # <<>>
      <4>1. x.put.val \in Int
        BY <2>2 DEF AckOf, Puts
      <4>2. Near(c.cache, x.put.val)
        BY <2>4, <3>1 DEF Fine, Valued, KeptNear
      <4>3. Missing(c, dn, nd, ap)
        BY DEF Fine
      <4>4. nd # <<>>
        BY <3>1, <4>3, OkApplied
      <4> QED BY <4>1, <4>2, <4>4
    <3> HIDE DEF x
    <3> QED BY <1>0, <2>1, <3>1, MadeGood
  <2> HIDE DEF x
  <2> QED BY <1>0, <1>1, <2>1, <2>3, <2>4, FineGoesOut
<1> QED BY <1>2, <1>3 DEF Follows

(***************************************************************************)
(* The answers that were held back are passed on, one after the other.     *)
(***************************************************************************)
LEMMA AllFine ==
    ASSUME NEW c, NEW a \in Seq(AckOf), NEW dn, NEW sv, NEW nd, NEW ap, NEW ot,
           Sound(c, c.puts, a, 1..Len(a), ap), ~c.reread,
           Fine(c, a, 1..Len(a), dn, sv, nd, ap, ot)
    PROVE  Fine(AllAnswered(c, a), a, {}, dn, sv, nd, ap, ot)
<1>0. Len(a) \in Nat
  OBVIOUS
<1>1. PICK f : Chain(f, c, a, Len(a)) /\ AllAnswered(c, a) = f[Len(a)]
  BY AllAnsweredChain
<1> DEFINE Y == {n \in Nat : n <= Len(a) =>
                    /\ Sound(f[n], f[n].puts, a, n+1..Len(a), ap) /\ ~f[n].reread
                    /\ Fine(f[n], a, n+1..Len(a), dn, sv, nd, ap, ot)}
<1>2. 0 \in Y
  <2>1. f[0] = c
    BY <1>0, <1>1, ChainStep
  <2>2. 0 + 1 = 1
    OBVIOUS
  <2> QED BY <2>1, <2>2
<1>3. ASSUME NEW n \in Nat, n \in Y PROVE n + 1 \in Y
  <2> SUFFICES ASSUME n + 1 <= Len(a)
               PROVE  /\ Sound(f[n + 1], f[n + 1].puts, a, n+1+1..Len(a), ap)
                      /\ ~f[n + 1].reread
                      /\ Fine(f[n + 1], a, n+1+1..Len(a), dn, sv, nd, ap, ot)
    OBVIOUS
  <2> DEFINE e == f[n]
             d == f[n + 1]
             K == n+1..Len(a)
             j == n + 1
  <2>1. Sound(e, e.puts, a, K, ap) /\ Fine(e, a, K, dn, sv, nd, ap, ot) /\ ~e.reread
    BY <1>0, <1>3
  <2>2. d = putAnswered(e, a[j].put, a[j].status)
    <3>1. n + 1 \in 1..Len(a)
      BY <1>0
    <3>2. f[n + 1] = putAnswered(f[n + 1 - 1], a[n + 1].put, a[n + 1].status)
      BY <1>1, <3>1, ChainStep
    <3>3. n + 1 - 1 = n
      OBVIOUS
    <3> QED BY <3>2, <3>3
  <2>3. j \in K /\ K \in SUBSET (1..Len(a)) /\ K \ {j} = n+1+1..Len(a)
    BY <1>0
  <2>4. j \in 1..Len(a) /\ a[j] \in AckOf
    BY <1>0
  <2> HIDE DEF e, d, K, j
  <2>5. \E Q : Sound(d, Q, a, K \ {j}, ap) /\ Follows(e, d, e.puts, Q, a[j], ap)
    BY <2>1, <2>2, <2>3, Answered
  <2>6. PICK Q : Sound(d, Q, a, K \ {j}, ap) /\ Follows(e, d, e.puts, Q, a[j], ap)
    BY <2>5
  <2>7. Q = d.puts
    BY <2>6, FollowsPuts
  <2>8. Fine(d, a, K \ {j}, dn, sv, nd, ap, ot)
    BY <2>1, <2>3, <2>4, <2>6, <2>7, FineAnswered
  <2>9. Sound(d, d.puts, a, K \ {j}, ap) /\ ~d.reread
    BY <2>1, <2>6, <2>7 DEF Follows, SameConn
  <2> QED BY <2>3, <2>8, <2>9 DEF d, j
<1> HIDE DEF Y
<1>4. \A n \in Nat : n \in Y
  BY <1>2, <1>3, NatInduct
<1>5. Fine(f[Len(a)], a, Len(a)+1..Len(a), dn, sv, nd, ap, ot)
  BY <1>0, <1>4 DEF Y
<1>6. Len(a)+1..Len(a) = {}
  BY <1>0
<1> QED BY <1>1, <1>5, <1>6

(***************************************************************************)
(* A listen.                                                               *)
(***************************************************************************)
LEMMA ListenFine ==
    ASSUME NEW c \in Clients, NEW q \in Queries, NEW d, d = listen(c, q),
           NEW a, NEW K, NEW dn, NEW sv, NEW nd, NEW ap, NEW ot,
           Fine(c, a, K, dn, sv, nd, ap, ot)
    PROVE  Fine(d, a, K, dn, sv, nd, ap, ot)
<1>1. /\ d \in Clients /\ SameBut(c, d) /\ d.listens = c.listens \cup {q}
      /\ connected(c) => d.up = Append(c.up, Listen(q))
      /\ ~connected(c) => d.up = c.up
      /\ Listen(q) \in UpMessages /\ IsListen(Listen(q))
  BY ListenFields
<1>2. /\ d.state = c.state /\ d.puts = c.puts /\ d.cache = c.cache
      /\ c.listens \subseteq d.listens
  BY <1>1 DEF SameBut
<1>3. Missing(c, dn, nd, ap) /\ Asks(c, dn, sv)
  BY DEF Fine
<1>4. Missing(d, dn, nd, ap)
  BY <1>2, <1>3 DEF Missing
<1>5. Unsent(d) /\ AllOut(d)
  BY <1>2, <1>3 DEF Asks, Unsent, AllOut
<1>6. Asks(d, dn, sv)
  <2>1. CASE connected(c)
    <3> DEFINE m == Listen(q)
    <3>1. m \in UpMessages /\ d.up = Append(c.up, m) /\ ~IsPut(m)
      BY <1>1, <2>1 DEF IsListen, IsPut
    <3>2. Counter \in d.listens => \/ m = Listen(Counter)
                                   \/ Counter \in c.listens /\ m # Unlisten(Counter)
      BY <1>1 DEF Listen, Unlisten
    <3>3. Known(c.cache, dn, sv) => Known(d.cache, dn, sv)
      BY <1>2
    <3> HIDE DEF m
    <3> QED BY <1>2, <1>3, <1>5, <3>1, <3>2, <3>3, AppendAsks
  <2>2. CASE ~connected(c)
    <3>1. d.up = c.up /\ d.state # "connected"
      BY <1>1, <1>2, <2>2 DEF connected
    <3>2. UpAsked(d, dn, sv)
      BY <1>2, <1>3, <3>1 DEF Asks, UpAsked
    <3>3. NowAsked(d, dn, sv)
      BY <3>1 DEF NowAsked
    <3> QED BY <1>5, <3>2, <3>3 DEF Asks
  <2> QED BY <2>1, <2>2
<1>7. ASSUME ~ot PROVE Valued(d, a, K, dn, nd)
  BY <1>2, <1>7 DEF Fine, Valued
<1> QED BY <1>4, <1>6, <1>7 DEF Fine

(***************************************************************************)
(* Without a queue no put of transactions is outstanding or held back.     *)
(***************************************************************************)
LEMMA NoneHashed ==
    ASSUME NEW c, NEW P, NEW a, NEW K, NEW ap, Sound(c, P, a, K, ap), c.queue = <<>>
    PROVE  /\ \A i \in 1..Len(P) : ~P[i].put.hashed
           /\ \A i \in K : ~a[i].put.hashed
<1>1. \A p : ~TxnFor(c, p)
  <2>1. Len(c.queue) = 0
    OBVIOUS
  <2>2. \A n \in 1..0 : FALSE
    OBVIOUS
  <2> QED BY <2>1, <2>2 DEF TxnFor
<1>2. \A p : Stands(c, p) => ~p.hashed
  BY <1>1, WritePutType DEF Stands, WriteFor
<1> QED BY <1>2 DEF Sound, Standing

(***************************************************************************)
(* A listen ends; the counter's only when no transaction is queued.        *)
(***************************************************************************)
LEMMA UnlistenFine ==
    ASSUME NEW c \in Clients, NEW q \in c.listens, NEW n \in Nodes, NEW d,
           d = Unobserved(c, q, n), q = Counter => c.queue = <<>> /\ n = <<>>,
           q # Counter => n = c.cache,
           NEW a, NEW K, NEW dn \in Seq(DownMessages), NEW sv, NEW nd, NEW ap, NEW ot,
           Sound(c, c.puts, a, K, ap), Link(c, dn, sv), Fine(c, a, K, dn, sv, nd, ap, ot)
    PROVE  Fine(d, a, K, dn, sv, nd, ap, ot)
<1>1. /\ d.state = c.state /\ d.puts = c.puts
      /\ d.cache = n /\ d.listens = c.listens \ {q}
      /\ d.up = IF connected(c) THEN Append(c.up, Unlisten(q)) ELSE c.up
      /\ Unlisten(q) \in UpMessages
  BY UnlistenFields
<1>2. n = <<>> \/ n = c.cache
  OBVIOUS
<1>3. Missing(c, dn, nd, ap) /\ Asks(c, dn, sv)
  BY DEF Fine
<1>4. Missing(d, dn, nd, ap)
  BY <1>1, <1>2, <1>3 DEF Missing
<1>5. Unsent(d) /\ AllOut(d)
  <2>1. CASE q = Counter
    BY <1>1, <1>3, <2>1, NoneHashed DEF Asks, Unsent, AllOut, Bearing
  <2>2. CASE q # Counter
    BY <1>1, <1>3, <2>2 DEF Asks, Unsent, AllOut
  <2> QED BY <2>1, <2>2
<1>6. Asks(d, dn, sv)
  <2>1. CASE connected(c)
    <3> DEFINE m == Unlisten(q)
    <3>1. m \in UpMessages /\ d.up = Append(c.up, m) /\ ~IsPut(m)
      BY <1>1, <2>1 DEF Unlisten, IsPut
    <3>2. Counter \in d.listens => \/ m = Listen(Counter)
                                   \/ Counter \in c.listens /\ m # Unlisten(Counter)
      BY <1>1 DEF Unlisten
    <3>3. Known(c.cache, dn, sv) => Known(d.cache, dn, sv)
      BY <1>1, <1>2 DEF Known, Quiet
    <3> HIDE DEF m
    <3> QED BY <1>1, <1>3, <1>5, <3>1, <3>2, <3>3, AppendAsks
  <2>2. CASE ~connected(c)
    <3>1. c.state \in {"disconnected", "connecting"}
      BY <2>2 DEF connected, Clients, States
    <3>2. d.up = <<>> /\ d.state # "connected"
      BY <1>1, <2>2, <3>1 DEF Link
    <3>3. \A i \in 1..Len(d.up) : ~IsPut(d.up[i])
      BY <3>2
    <3> QED BY <1>5, <3>2, <3>3, IdleAsks
  <2> QED BY <2>1, <2>2
<1>7. ASSUME ~ot PROVE Valued(d, a, K, dn, nd)
  <2>1. AllGood(c.puts, nd) /\ KeptNear(c.cache, a, K) /\ AllHeard(c.cache, dn)
    BY <1>7 DEF Fine, Valued
  <2>2. KeptNear(n, a, K)
    BY <1>2, <2>1 DEF KeptNear, Near
  <2>3. AllHeard(n, dn)
    BY <1>2, <2>1, AllHeardCache
  <2> QED BY <1>1, <2>1, <2>2, <2>3 DEF Valued
<1> QED BY <1>4, <1>6, <1>7 DEF Fine

(***************************************************************************)
(* A step before the connection is ready.                                  *)
(***************************************************************************)
LEMMA IdleFine ==
    ASSUME NEW c, NEW d, NEW a, NEW K, NEW dn, NEW sv, NEW nd, NEW ap, NEW ot,
           Fine(c, a, K, dn, sv, nd, ap, ot), d.state # "connected",
           \A i \in 1..Len(d.up) : ~IsPut(d.up[i]),
           d.puts = c.puts, d.listens = c.listens, d.cache = c.cache
    PROVE  Fine(d, a, K, dn, sv, nd, ap, ot)
<1>1. Missing(d, dn, nd, ap)
  BY DEF Fine, Missing
<1>2. Unsent(d)
  BY DEF Fine, Asks, Unsent
<1>3. Asks(d, dn, sv)
  BY <1>2, IdleAsks
<1>4. ASSUME ~ot PROVE Valued(d, a, K, dn, nd)
  BY <1>4 DEF Fine, Valued
<1> QED BY <1>1, <1>3, <1>4 DEF Fine

(***************************************************************************)
(* restoreState.                                                           *)
(***************************************************************************)
LEMMA RestoreFine ==
    ASSUME NEW c \in Clients, NEW d, NEW order \in SetToSeqs(c.listens),
           IsFiniteSet(c.listens), NEW a, NEW K, NEW ap, NEW dn, NEW sv, NEW nd, NEW ot,
           Sound(c, c.puts, a, K, ap), Fresh(c, dn), c.state # "connected",
           Restored(c, d, order), Fine(c, a, K, dn, sv, nd, ap, ot)
    PROVE  Fine(d, a, K, dn, sv, nd, ap, ot)
<1>1. d.listens = c.listens /\ d.cache = c.cache /\ d.puts = AllSent(c.puts)
  BY DEF Restored
<1>2. Missing(d, dn, nd, ap)
  BY <1>1 DEF Fine, Missing
<1>3. Unsent(c)
  BY DEF Fine, Asks
<1>4. Asks(d, dn, sv)
  BY <1>3, RestoredAsks
<1>5. c.puts \in Seq(Outstanding)
  BY DEF Clients
<1>6. /\ Len(AllSent(c.puts)) = Len(c.puts)
      /\ \A i \in 1..Len(c.puts) : AllSent(c.puts)[i].put = c.puts[i].put
  BY <1>5, PutsFacts
<1>7. ASSUME ~ot PROVE Valued(d, a, K, dn, nd)
  <2>1. AllGood(c.puts, nd) /\ KeptNear(c.cache, a, K) /\ AllHeard(c.cache, dn)
    BY <1>7 DEF Fine, Valued
  <2>2. AllGood(d.puts, nd)
    BY <1>1, <1>6, <2>1 DEF AllGood
  <2> QED BY <1>1, <2>1, <2>2 DEF Valued
<1> QED BY <1>2, <1>4, <1>7 DEF Fine

(***************************************************************************)
(* A break: the transactions on their way are given up, what waited behind *)
(* them is made anew from the cache.                                       *)
(***************************************************************************)
LEMMA BreakFine ==
    ASSUME NEW c \in Clients, NEW d \in Clients, NEW a, NEW K, NEW ap, NEW dn, NEW sv, NEW nd, NEW ot,
           Cut(c, d), \A i \in 1..Len(d.puts) : Carried(c, d.puts[i]),
           Fine(c, a, K, dn, sv, nd, ap, ot), NEW en, en = <<>>, NEW tv
    PROVE  Fine(d, a, K, en, tv, nd, ap, ot)
<1>1. /\ d.state = "disconnected" /\ d.up = <<>>
      /\ d.listens = c.listens /\ d.cache = c.cache
  BY DEF Cut
<1>2. Missing(c, dn, nd, ap) /\ Unsent(c)
  BY DEF Fine, Asks
<1>3. Len(en) = 0 /\ \A i \in 1..Len(en) : FALSE
  OBVIOUS
<1>4. Missing(d, en, nd, ap)
  BY <1>1, <1>2, <1>3 DEF Missing
<1>5. Unsent(d)
  <2>1. ASSUME NEW i \in 1..Len(d.puts), Bearing(d.puts[i].put), ~d.puts[i].sent
        PROVE  Counter \in c.listens
    <3>1. CASE \E k \in 1..Len(c.puts) : d.puts[i] = c.puts[k]
      BY <1>2, <2>1, <3>1 DEF Unsent
    <3>2. CASE d.puts[i].put.hashed => d.puts[i].put.hash = c.cache
      BY <1>2, <2>1, <3>2 DEF Bearing, Missing
    <3> QED BY <3>1, <3>2 DEF Carried
  <2> QED BY <1>1, <2>1 DEF Unsent
<1>6. Asks(d, en, tv)
  <2>1. d.state # "connected" /\ \A i \in 1..Len(d.up) : ~IsPut(d.up[i])
    BY <1>1
  <2> QED BY <1>5, <2>1, IdleAsks
<1>7. ASSUME ~ot PROVE Valued(d, a, K, en, nd)
  <2>1. AllGood(c.puts, nd) /\ KeptNear(c.cache, a, K)
    BY <1>7 DEF Fine, Valued
  <2>2. ASSUME NEW i \in 1..Len(d.puts), d.puts[i].put.hashed PROVE Good(d.puts[i].put, nd)
    <3>1. CASE \E k \in 1..Len(c.puts) : d.puts[i] = c.puts[k]
      BY <2>1, <2>2, <3>1 DEF AllGood
    <3>2. CASE /\ d.puts[i].put.hash = c.cache
               /\ d.puts[i].put.val = Len(d.puts[i].put.ops) + Val(c.cache)
      <4> DEFINE p == d.puts[i].put
      <4>0. d.puts \in Seq(Outstanding) /\ c.cache \in Nodes
        BY DEF Clients
      <4>1. p \in Puts
        <5>1. d.puts[i] \in Outstanding
          BY <2>2, <4>0
        <5> QED BY <5>1 DEF Outstanding
      <4>2. Val(c.cache) \in Int /\ Len(p.ops) \in Int
        BY <4>0, <4>1, BlockInt DEF Puts
      <4>3. p.val = Val(p.hash) + Len(p.ops)
        BY <3>2, <4>2
      <4> QED BY <4>3 DEF Good
    <3> QED BY <2>2, <3>1, <3>2 DEF Carried
  <2>3. AllHeard(d.cache, en)
    BY <1>3 DEF AllHeard
  <2> QED BY <1>1, <2>1, <2>2, <2>3 DEF Valued, AllGood
<1> QED BY <1>4, <1>6, <1>7 DEF Fine

(***************************************************************************)
(* The client takes the first message.                                     *)
(***************************************************************************)
LEMMA TailFine ==
    ASSUME NEW c \in Clients, NEW d, NEW a, NEW K, NEW ap, NEW sv, NEW nd, NEW ot, NEW nt,
           NEW dn \in Seq(DownMessages), dn # <<>>, Fine(c, a, K, dn, sv, nd, ap, ot),
           d.up = c.up, d.state = c.state, d.puts = c.puts,
           Counter \in d.listens => Counter \in c.listens,
           (Counter \in c.listens => Counter \in d.listens) \/ c.state = "connected",
           Learns(c.cache, dn[1], d.cache), Counter \notin d.listens => d.cache = <<>>,
           ot => nt, ~nt /\ KeptNear(c.cache, a, K) => KeptNear(d.cache, a, K)
    PROVE  Fine(d, a, K, Tail(dn), sv, nd, ap, nt)
<1> DEFINE en == Tail(dn)
<1>1. /\ \A i \in 1..Len(en) : en[i] = dn[i + 1] /\ i + 1 \in 1..Len(dn)
      /\ 1 \in 1..Len(dn)
  BY TailFacts
<1>2. Missing(c, dn, nd, ap) /\ Asks(c, dn, sv)
  BY DEF Fine
<1>3. Missing(d, en, nd, ap)
  <2>1. nd = <<>> => d.cache = <<>>
    BY <1>1, <1>2 DEF Missing, Learns
  <2>2. nd = <<>> => \A i \in 1..Len(en) : IsNews(en[i]) => en[i].node = <<>>
    BY <1>1, <1>2 DEF Missing
  <2> HIDE DEF en
  <2> QED BY <1>2, <2>1, <2>2 DEF Missing
<1>4. Known(c.cache, dn, sv) => Known(d.cache, en, sv)
  <2>1. ASSUME Known(c.cache, dn, sv) PROVE Known(d.cache, en, sv)
    <3>1. dn[1] = Refusal => d.cache = <<>>
      BY DEF Learns, IsNews, Refusal, Reply
    <3>2. c.cache = <<>> /\ ~IsNews(dn[1]) => d.cache = <<>>
      BY DEF Learns
    <3> QED BY <2>1, <3>1, <3>2, KnownTail
  <2> QED BY <2>1
<1>5. Asks(d, en, sv)
  <2>1. \A i \in 1..Len(d.puts) : \E k \in 1..Len(c.puts) : d.puts[i] = c.puts[k]
    OBVIOUS
  <2> HIDE DEF en
  <2> QED BY <1>2, <1>4, <2>1, SameAsks
<1>6. ASSUME ~nt PROVE Valued(d, a, K, en, nd)
  <2>1. AllGood(c.puts, nd) /\ KeptNear(c.cache, a, K) /\ AllHeard(c.cache, dn)
    BY <1>6 DEF Fine, Valued
  <2>2. AllHeard(d.cache, en)
    BY <2>1, AllHeardTail
  <2> QED BY <1>6, <2>1, <2>2 DEF Valued
<1> QED BY <1>3, <1>5, <1>6 DEF Fine

-----------------------------------------------------------------------------
\* The strengthening, of the current state.
FineNow ==
    Fine(client, client.putsToAck, 1..Len(client.putsToAck), down, served, node, applied,
         overtaken)

\* The property itself, and that what it counts can be counted.
Counting ==
    /\ foreign.sum \in Int
    /\ IsFiniteSet({t \in Txns : applied[t] > 0})
    /\ ~overtaken => NothingOverwritten

\* All of this, as long as no read above the counter has told of it.
Honoured == Inv /\ ~client.reread /\ FineNow /\ Counting

\* The inductive invariant.
Kept == Inv /\ (~client.reread => Honoured)

(***************************************************************************)
(* It holds when the app starts, with a counter that is missing or zero.   *)
(***************************************************************************)
LEMMA HonouredInit ==
    ASSUME Init PROVE FineNow /\ Counting
<1>1. /\ client.state = "disconnected" /\ client.listens = {} /\ client.puts = <<>>
      /\ client.putsToAck = <<>> /\ client.up = <<>> /\ client.cache = <<>>
      /\ down = <<>> /\ node \in FirstNodes /\ applied = [o \in Ops |-> 0]
      /\ foreign.sum = 0 /\ overtaken = FALSE
  BY DEF Init
<1>2. \A t \in Txns : applied[t] = 0
  BY <1>1 DEF Ops
<1>3. Len(down) = 0 /\ Len(client.puts) = 0 /\ Len(client.up) = 0 /\ Len(client.putsToAck) = 0
  BY <1>1
<1>4. \A i \in 1..0 : FALSE
  OBVIOUS
<1>5. FineNow
  <2>1. Missing(client, down, node, applied)
    BY <1>1, <1>2, <1>3, <1>4 DEF Missing
  <2>2. Asks(client, down, served)
    BY <1>1, <1>3, <1>4, IdleAsks DEF Unsent
  <2>3. Valued(client, client.putsToAck, 1..Len(client.putsToAck), down, node)
    BY <1>3, <1>4 DEF Valued, AllGood, KeptNear, AllHeard
  <2> QED BY <2>1, <2>2, <2>3 DEF FineNow, Fine
<1>6. Counting
  <2> DEFINE S == {t \in Txns : applied[t] > 0}
             k == Cardinality(S)
             v == IF node = <<>> THEN 0 ELSE node[1]
  <2>1. S = {}
    BY <1>2
  <2>2. IsFiniteSet(S) /\ k = 0
    BY <2>1, FS_EmptySet
  <2>3. v = 0
    BY <1>1, FirstNodesAssumption
  <2>4. Counted = foreign.sum + k /\ (NothingOverwritten <=> v = Counted)
    BY DEF Counted, NothingOverwritten
  <2>5. Counting <=> foreign.sum \in Int /\ IsFiniteSet(S) /\ (~overtaken => NothingOverwritten)
    BY DEF Counting
  <2> HIDE DEF S, k, v
  <2>6. Counted = 0
    BY <1>1, <2>2, <2>4
  <2> QED BY <1>1, <2>2, <2>3, <2>4, <2>5, <2>6
<1> QED BY <1>5, <1>6

(***************************************************************************)
(* A step that changes neither the counter nor what has taken effect       *)
(* leaves the count as it is.                                              *)
(***************************************************************************)
LEMMA SameCounting ==
    ASSUME Counting, foreign' = foreign, node' = node, applied' = applied,
           overtaken => overtaken'
    PROVE  Counting'
BY DEF Counting, NothingOverwritten, Counted

(***************************************************************************)
(* What is to be shown of a step of the client's own.                      *)
(***************************************************************************)
LEMMA QuietlyFine ==
    ASSUME Honoured, Quietly, overtaken' = overtaken, client'.putsToAck = client.putsToAck,
           Fine(client', client.putsToAck, 1..Len(client.putsToAck), down, served, node,
                applied, overtaken)
    PROVE  FineNow' /\ Counting'
<1>1. /\ down' = down /\ served' = served /\ node' = node /\ applied' = applied
      /\ foreign' = foreign
  BY DEF Quietly, server
<1> QED BY <1>1, SameCounting DEF FineNow, Honoured

(***************************************************************************)
(* setValue keeps the strengthening: the put of a write has nothing to do  *)
(* with the counter.                                                       *)
(***************************************************************************)
LEMMA SetValueFine ==
    ASSUME Honoured, NEW w \in Writes, setValue(w) PROVE FineNow' /\ Counting'
<1> DEFINE a == client.putsToAck
           K == 1..Len(a)
<1>0. /\ client \in Clients /\ client.putsToAck \in Seq(AckOf)
      /\ Sound(client, client.puts, client.putsToAck, 1..Len(client.putsToAck), applied)
      /\ Conn(client, down, served, applied, breaks)
      /\ down \in Seq(DownMessages) /\ breaks \in Nat
  BY Now DEF Honoured
<1>1. /\ client.result[w] = "none" /\ client' = putInternal(Asking(client, w), WritePut(w))
      /\ Quietly /\ overtaken' = overtaken
  BY DEF setValue, Asking, Quietly, server
<1>2. SameConn(client, client') /\ GoesOut(client, client', WritePut(w))
  BY <1>0, <1>1, IssuedWrite
<1>3. WritePut(w) \in Puts /\ ~WritePut(w).hashed
  BY WritePutType
<1>4. Fine(client, a, K, down, served, node, applied, overtaken)
  BY DEF Honoured, FineNow
<1> HIDE DEF a, K
<1>5. Fine(client', a, K, down, served, node, applied, overtaken)
  BY <1>0, <1>2, <1>3, <1>4, FineGoesOut
<1> QED BY <1>1, <1>2, <1>5, QuietlyFine DEF a, K, SameConn

(***************************************************************************)
(* So does startTransaction: the put is made from the cache, and the       *)
(* counter is listened to before it goes out.                              *)
(***************************************************************************)
LEMMA StartTransactionFine ==
    ASSUME Honoured, NEW t \in Txns, startTransaction(t) PROVE FineNow' /\ Counting'
<1>0. /\ client \in Clients /\ client.putsToAck \in Seq(AckOf)
      /\ Sound(client, client.puts, client.putsToAck, 1..Len(client.putsToAck), applied)
      /\ Conn(client, down, served, applied, breaks)
      /\ down \in Seq(DownMessages) /\ breaks \in Nat
  BY Now DEF Honoured
<1> DEFINE c == IF Counter \in client.listens THEN client ELSE listen(client, Counter)
           a == client.putsToAck
           K == 1..Len(a)
<1>1. /\ client.result[t] = "none" /\ client' = Started(c, t) /\ Quietly
      /\ overtaken' = overtaken
  BY DEF startTransaction, Started, Enqueued, Input, Quietly, server
<1>1a. /\ Fine(client, a, K, down, served, node, applied, overtaken)
       /\ Sound(client, client.puts, a, K, applied) /\ a \in Seq(AckOf)
       /\ K = 1..Len(a)
  BY <1>0 DEF Honoured, FineNow
<1> HIDE DEF a, K
<1>2. /\ c \in Clients /\ SameBut(client, c)
      /\ Sound(c, c.puts, a, K, applied) /\ Conn(c, down, served, applied, breaks)
      /\ Fine(c, a, K, down, served, node, applied, overtaken)
  <2>1. CASE Counter \in client.listens
    BY <1>0, <1>1a, <2>1 DEF SameBut, SameQueue
  <2>2. CASE Counter \notin client.listens
    <3>1. Counter \in Queries
      BY DEF Queries
    <3>2. c = listen(client, Counter)
      BY <2>2
    <3> HIDE DEF c
    <3>3. c \in Clients /\ SameBut(client, c)
      BY <1>0, <3>1, <3>2, ListenFields
    <3>4. Sound(c, c.puts, a, K, applied) /\ Conn(c, down, served, applied, breaks)
      BY <1>0, <1>1a, <3>1, <3>2, ListenStep
    <3>5. Fine(c, a, K, down, served, node, applied, overtaken)
      BY <1>0, <1>1a, <3>1, <3>2, ListenFine
    <3> QED BY <3>3, <3>4, <3>5
  <2> QED BY <2>1, <2>2
<1> HIDE DEF c
<1>3. c.result[t] = "none"
  BY <1>1, <1>2 DEF SameBut, SameQueue
<1>3a. Sound(c, c.puts, a, 1..Len(a), applied)
  BY <1>1a, <1>2
<1>4. SameConn(c, client') /\ Begun(c, client')
  <2>1. CASE c.queue = <<>>
    BY <1>0, <1>1, <1>1a, <1>2, <1>3, <1>3a, <2>1, StartedSends
  <2>2. CASE c.queue # <<>>
    BY <1>0, <1>1, <1>1a, <1>2, <1>3, <1>3a, <2>2, StartedWaits
  <2> QED BY <2>1, <2>2
<1>5. Fine(client', a, K, down, served, node, applied, overtaken)
  <2>1. CASE client'.puts = c.puts /\ client'.up = c.up
    <3>1. K \in SUBSET K
      OBVIOUS
    <3> QED BY <1>2, <1>4, <2>1, <3>1, FineSame
  <2>2. ASSUME NEW p \in Puts, GoesOut(c, client', p), p.hashed, p.hash = c.cache,
               p.val = Len(p.ops) + Val(c.cache)
        PROVE  Fine(client', a, K, down, served, node, applied, overtaken)
    <3>1. c.cache \in Nodes
      BY <1>2 DEF Clients
    <3>2. Val(c.cache) \in Int /\ Len(p.ops) \in Int
      BY <3>1, BlockInt DEF Puts
    <3>3. p.val = Val(p.hash) + Len(p.ops)
      BY <2>2, <3>2
    <3>4. Good(p, node)
      BY <3>3 DEF Good
    <3>5. K \in SUBSET K
      OBVIOUS
    <3> QED BY <1>2, <1>4, <2>2, <3>4, <3>5, FineGoesOut
  <2> QED BY <1>4, <2>1, <2>2 DEF Begun
<1>6. client'.putsToAck = client.putsToAck
  BY <1>2, <1>4 DEF SameConn, SameBut
<1> QED BY <1>1, <1>5, <1>6, QuietlyFine DEF a, K

(***************************************************************************)
(* So does observeSingleEvent.                                             *)
(***************************************************************************)
LEMMA ObserveFine ==
    ASSUME Honoured, NEW q \in Reads, observeSingleEvent(q) PROVE FineNow' /\ Counting'
<1> DEFINE a == client.putsToAck
           K == 1..Len(a)
<1>0. client \in Clients
  BY Now DEF Honoured
<1>1. client' = listen(client, q) /\ Quietly /\ q \in Queries /\ overtaken' = overtaken
  BY DEF observeSingleEvent, Quietly, server, Queries
<1>2. client'.putsToAck = client.putsToAck
  BY <1>0, <1>1, ListenFields DEF SameBut
<1>3. Fine(client, a, K, down, served, node, applied, overtaken)
  BY DEF Honoured, FineNow
<1> HIDE DEF a, K
<1>4. Fine(client', a, K, down, served, node, applied, overtaken)
  BY <1>0, <1>1, <1>3, ListenFine
<1> QED BY <1>1, <1>2, <1>4, QuietlyFine DEF a, K

(***************************************************************************)
(* So does the removal of an observer: the cache is dropped with the       *)
(* counter's, and no transaction is queued then.                           *)
(***************************************************************************)
LEMMA RemoveObserverFine ==
    ASSUME Honoured, NEW q \in Queries, removeObserver(q) PROVE FineNow' /\ Counting'
<1> DEFINE a == client.putsToAck
           K == 1..Len(a)
           n == IF q = Counter THEN <<>> ELSE client.cache
<1>0. /\ client \in Clients /\ down \in Seq(DownMessages)
      /\ Conn(client, down, served, applied, breaks)
      /\ Sound(client, client.puts, a, K, applied)
  BY Now DEF Honoured
<1>4. Fine(client, a, K, down, served, node, applied, overtaken)
  BY DEF Honoured, FineNow
<1>4a. (IF Lost(client, q) THEN <<>> ELSE client.cache) = n
  BY <1>4 DEF Lost, Fine, Missing
<1>1. /\ q \in client.listens /\ client' = Unobserved(client, q, n) /\ Quietly
      /\ overtaken' = overtaken /\ (q = Counter => client.queue = <<>>)
  <2> DEFINE l == IF Lost(client, q) THEN <<>> ELSE client.cache
  <2>1. /\ q \in client.listens /\ client' = Unobserved(client, q, l) /\ Quietly
        /\ overtaken' = overtaken /\ (q = Counter => client.queue = <<>>)
    BY <1>0 DEF removeObserver, Unobserved, unlisten, Send, Quietly, server, Clients
  <2> QED BY <1>4a, <2>1
<1>2. n \in Nodes
  <2>1. client.cache \in Nodes /\ <<>> \in Nodes
    BY <1>0 DEF Clients, Nodes
  <2> QED BY <2>1
<1>3. (q = Counter => n = <<>>) /\ (q # Counter => n = client.cache)
  OBVIOUS
<1>5. Link(client, down, served)
  BY <1>0 DEF Conn
<1> HIDE DEF a, K, n
<1>6. client'.putsToAck = client.putsToAck
  BY <1>0, <1>1, <1>2, UnlistenFields
<1>7. Fine(client', a, K, down, served, node, applied, overtaken)
  BY <1>0, <1>1, <1>2, <1>3, <1>4, <1>5, UnlistenFine
<1> QED BY <1>1, <1>6, <1>7, QuietlyFine DEF a, K

(***************************************************************************)
(* So does tryScheduleReconnect.                                           *)
(***************************************************************************)
LEMMA ReconnectFine ==
    ASSUME Honoured, tryScheduleReconnect PROVE FineNow' /\ Counting'
<1> DEFINE a == client.putsToAck
           K == 1..Len(a)
<1>0. client \in Clients /\ Conn(client, down, served, applied, breaks)
  BY Now DEF Honoured
<1>1. /\ client.state = "disconnected" /\ client' = [client EXCEPT !.state = "connecting"]
      /\ Quietly /\ overtaken' = overtaken
  BY DEF tryScheduleReconnect, Quietly, server
<1>2. /\ client'.puts = client.puts /\ client'.putsToAck = client.putsToAck
      /\ client'.up = client.up /\ client'.listens = client.listens
      /\ client'.cache = client.cache /\ client'.state # "connected"
  BY <1>0, <1>1 DEF Clients
<1>3. client'.up = <<>>
  BY <1>0, <1>1, <1>2 DEF Conn, Link
<1>4. \A i \in 1..Len(client'.up) : ~IsPut(client'.up[i])
  BY <1>3
<1>5. Fine(client, a, K, down, served, node, applied, overtaken)
  BY DEF Honoured, FineNow
<1> HIDE DEF a, K
<1>6. Fine(client', a, K, down, served, node, applied, overtaken)
  BY <1>2, <1>4, <1>5, IdleFine
<1> QED BY <1>1, <1>2, <1>6, QuietlyFine DEF a, K

(***************************************************************************)
(* So does onReady.                                                        *)
(***************************************************************************)
LEMMA OnReadyFine ==
    ASSUME Honoured, onReady PROVE FineNow' /\ Counting'
<1> DEFINE a == client.putsToAck
           K == 1..Len(a)
<1>0. /\ client \in Clients /\ Conn(client, down, served, applied, breaks)
      /\ Sound(client, client.puts, a, K, applied)
      /\ IsFiniteSet(client.listens)
  BY Now DEF Honoured
<1>1. client.state = "connecting" /\ Quietly /\ overtaken' = overtaken
  BY DEF onReady, Quietly, server
<1>2. client.up = <<>> /\ down = <<>>
  BY <1>0, <1>1 DEF Conn, Link
<1>3. Fine(client, a, K, down, served, node, applied, overtaken)
  BY DEF Honoured, FineNow
<1>4. CASE client' = Send([client EXCEPT !.state = "authenticating"], Auth)
  <2> DEFINE up == Append(client.up, Auth)
  <2>1. client' = [client EXCEPT !.state = "authenticating", !.up = up]
    BY <1>0, <1>4 DEF Send, Clients
  <2>2. \A i \in 1..Len(up) : ~IsPut(up[i])
    BY <1>2 DEF IsPut, Auth
  <2> HIDE DEF up
  <2>3. /\ client'.puts = client.puts /\ client'.putsToAck = client.putsToAck
        /\ client'.up = up /\ client'.listens = client.listens
        /\ client'.cache = client.cache /\ client'.state # "connected"
    BY <1>0, <2>1 DEF Clients
  <2> HIDE DEF a, K
  <2>4. Fine(client', a, K, down, served, node, applied, overtaken)
    BY <1>3, <2>2, <2>3, IdleFine
  <2> QED BY <1>1, <2>3, <2>4, QuietlyFine DEF a, K
<1>5. CASE \E order \in SetToSeqs(client.listens) : client' = restoreState(client, order)
  <2>1. PICK order \in SetToSeqs(client.listens) : client' = restoreState(client, order)
    BY <1>5
  <2>2. Fresh(client, down)
    BY <1>2 DEF Fresh
  <2>3. Restored(client, client', order)
    BY <1>0, <2>1, RestoreFields
  <2>4. client.state # "connected" /\ client'.putsToAck = client.putsToAck
    BY <1>1, <2>3 DEF Restored
  <2> HIDE DEF a, K
  <2>5. Fine(client', a, K, down, served, node, applied, overtaken)
    BY <1>0, <1>3, <2>1, <2>2, <2>3, <2>4, RestoreFine
  <2> QED BY <1>1, <2>4, <2>5, QuietlyFine DEF a, K
<1> QED BY <1>4, <1>5 DEF onReady

(***************************************************************************)
(* So does a break.                                                        *)
(***************************************************************************)
LEMMA BreaksFine ==
    ASSUME Honoured, Breaks, foreign' = foreign, overtaken' = overtaken
    PROVE  FineNow' /\ Counting'
<1> DEFINE a == client.putsToAck
           K == 1..Len(a)
<1>0. client \in Clients /\ Inv
  BY Now DEF Honoured
<1>1. /\ Sound(client', client'.puts, a, K, applied)
      /\ Cut(client, client')
      /\ \A i \in 1..Len(client'.puts) : Carried(client, client'.puts[i])
  BY <1>0, BreakFacts
<1>2. client' \in Clients /\ client'.putsToAck = client.putsToAck
  BY <1>1 DEF Sound, Cut
<1>3. down' = <<>> /\ node' = node /\ applied' = applied
  BY DEF Breaks
<1>4. Fine(client, a, K, down, served, node, applied, overtaken)
  BY DEF Honoured, FineNow
<1> HIDE DEF a, K
<1>5. Fine(client', a, K, down', served', node, applied, overtaken)
  BY <1>0, <1>1, <1>2, <1>3, <1>4, BreakFine
<1>6. FineNow'
  BY <1>2, <1>3, <1>5 DEF FineNow, a, K
<1> QED BY <1>3, <1>6, SameCounting DEF Honoured

(***************************************************************************)
(* So does onDisconnect.                                                   *)
(***************************************************************************)
LEMMA OnDisconnectFine ==
    ASSUME Honoured, onDisconnect PROVE FineNow' /\ Counting'
<1>1. Breaks /\ foreign' = foreign /\ overtaken' = overtaken
  BY DEF onDisconnect, Breaks
<1> QED BY <1>1, BreaksFine

(***************************************************************************)
(* A step that at most forgets outstanding puts.                           *)
(***************************************************************************)
LEMMA FineAlike ==
    ASSUME NEW c \in Clients, NEW d, NEW a, NEW K, NEW dn, NEW sv, NEW nd, NEW ap, NEW ot,
           Fine(c, a, K, dn, sv, nd, ap, ot), d.up = c.up, d.state = c.state,
           d.listens = c.listens, d.cache = c.cache,
           \A i \in 1..Len(d.puts) : \E k \in 1..Len(c.puts) : d.puts[i] = c.puts[k]
    PROVE  Fine(d, a, K, dn, sv, nd, ap, ot)
<1>2. Missing(d, dn, nd, ap)
  BY DEF Fine, Missing
<1>3. Asks(d, dn, sv)
  <2>1. Asks(c, dn, sv)
    BY DEF Fine
  <2> QED BY <2>1, SameAsks
<1>4. ASSUME ~ot PROVE Valued(d, a, K, dn, nd)
  <2>1. AllGood(c.puts, nd) /\ KeptNear(c.cache, a, K) /\ AllHeard(c.cache, dn)
    BY <1>4 DEF Fine, Valued
  <2>2. AllGood(d.puts, nd)
    <3>1. ASSUME NEW i \in 1..Len(d.puts), d.puts[i].put.hashed PROVE Good(d.puts[i].put, nd)
      <4>1. PICK k \in 1..Len(c.puts) : d.puts[i] = c.puts[k]
        OBVIOUS
      <4> QED BY <2>1, <3>1, <4>1 DEF AllGood
    <3> QED BY <3>1 DEF AllGood
  <2> QED BY <2>1, <2>2 DEF Valued
<1> QED BY <1>2, <1>3, <1>4 DEF Fine

(***************************************************************************)
(* Only the acceptances among the answers in K matter.                     *)
(***************************************************************************)
LEMMA FineWithin ==
    ASSUME NEW c, NEW a, NEW b, NEW K, NEW dn, NEW sv, NEW nd, NEW ap, NEW ot,
           Fine(c, a, K, dn, sv, nd, ap, ot), NEW L,
           ~ot => \A i \in L : \/ i \in K /\ b[i] = a[i]
                               \/ b[i].put.hashed /\ b[i].status = "ok" =>
                                    Near(c.cache, b[i].put.val)
    PROVE  Fine(c, b, L, dn, sv, nd, ap, ot)
BY DEF Fine, Valued, KeptNear

(***************************************************************************)
(* ackPuts: the answers held back are passed on.                           *)
(***************************************************************************)
LEMMA ReleaseFine ==
    ASSUME NEW c, NEW dn, NEW sv, NEW ap, NEW br \in Nat, NEW nd, NEW ot, c.putsToAck \in Seq(AckOf),
           Sound(c, c.puts, c.putsToAck, 1..Len(c.putsToAck), ap), Conn(c, dn, sv, ap, br),
           NEW e, e = ackPuts(c), ~c.reread,
           Fine(c, c.putsToAck, 1..Len(c.putsToAck), dn, sv, nd, ap, ot)
    PROVE  Fine(e, e.putsToAck, 1..Len(e.putsToAck), dn, sv, nd, ap, ot)
<1> DEFINE nil == <<>>
           a == c.putsToAck
           b == [c EXCEPT !.putsToAck = nil]
<1>1. nil \in Seq(Acks) /\ Len(a) \in Nat
  OBVIOUS
<1>2. c \in Clients
  BY DEF Sound
<1>3. e = AllAnswered(b, a)
  BY DEF ackPuts
<1> HIDE DEF nil
<1>4. /\ b \in Clients /\ SameQueue(c, b) /\ b.puts = c.puts /\ b.up = c.up
      /\ b.state = c.state /\ b.listens = c.listens /\ b.cache = c.cache
  BY <1>1, <1>2 DEF Clients, SameQueue
<1> HIDE DEF b
<1>5. Sound(b, b.puts, a, 1..Len(a), ap)
  <2>1. Sound(b, c.puts, a, 1..Len(a), ap)
    BY <1>4, SoundSame
  <2> QED BY <1>4, <2>1
<1>6. Fine(b, a, 1..Len(a), dn, sv, nd, ap, ot)
  <2> DEFINE K == 1..Len(a)
  <2>1. Fine(c, a, K, dn, sv, nd, ap, ot)
    OBVIOUS
  <2>2. \A i \in 1..Len(b.puts) : \E k \in 1..Len(c.puts) : b.puts[i] = c.puts[k]
    BY <1>4
  <2> HIDE DEF K, a
  <2>3. Fine(b, a, K, dn, sv, nd, ap, ot)
    BY <1>2, <1>4, <2>1, <2>2, FineAlike
  <2> QED BY <2>3 DEF K
<1>7. a \in Seq(AckOf)
  OBVIOUS
<1>8. e.putsToAck = <<>>
  BY ReleaseFacts
<1> HIDE DEF a
<1>8a. ~b.reread
  BY <1>4 DEF SameQueue
<1>9. Fine(e, a, {}, dn, sv, nd, ap, ot)
  BY <1>3, <1>5, <1>6, <1>7, <1>8a, AllFine
<1>10. 1..Len(e.putsToAck) = {}
  BY <1>8
<1> DEFINE L == 1..Len(e.putsToAck)
           y == e.putsToAck
<1>11. \A i \in L : FALSE
  BY <1>10
<1> HIDE DEF L, y
<1>12. Fine(e, y, L, dn, sv, nd, ap, ot)
  BY <1>9, <1>11, FineWithin
<1> QED BY <1>12 DEF L, y

(***************************************************************************)
(* What is to be shown of a step that takes a message of the server.       *)
(***************************************************************************)
LEMMA HandledFine ==
    ASSUME Honoured, Handled, overtaken => overtaken',
           Fine(client', client'.putsToAck, 1..Len(client'.putsToAck), Tail(down), served,
                node, applied, overtaken')
    PROVE  FineNow' /\ Counting'
<1>1. /\ down' = Tail(down) /\ served' = served /\ node' = node /\ applied' = applied
      /\ foreign' = foreign
  BY DEF Handled, server
<1> QED BY <1>1, SameCounting DEF FineNow, Honoured

(***************************************************************************)
(* The client takes a message that tells nothing of the counter.           *)
(***************************************************************************)
LEMMA PlainFine ==
    ASSUME NEW c \in Clients, NEW a, NEW K, NEW ap, NEW sv, NEW nd, NEW ot,
           NEW dn \in Seq(DownMessages), dn # <<>>, Fine(c, a, K, dn, sv, nd, ap, ot),
           ~IsNews(dn[1]), dn[1] # Refusal
    PROVE  Fine(c, a, K, Tail(dn), sv, nd, ap, ot)
<1>1. Learns(c.cache, dn[1], c.cache)
  BY DEF Learns
<1>2. Counter \notin c.listens => c.cache = <<>>
  BY DEF Fine, Missing
<1> QED BY <1>1, <1>2, TailFine

(***************************************************************************)
(* Handling the answer to the authentication keeps the strengthening.      *)
(***************************************************************************)
LEMMA OnAuthFine ==
    ASSUME Honoured, down # <<>>, onAuth(Head(down)) PROVE FineNow' /\ Counting'
<1> DEFINE a == client.putsToAck
           K == 1..Len(a)
<1>0. /\ client \in Clients /\ down \in Seq(DownMessages) /\ Refusals /\ Inv
      /\ Sound(client, client.puts, a, K, applied)
      /\ IsFiniteSet(client.listens)
  BY Now DEF Inv, Honoured
<1>1. IsAuthReply(Head(down)) /\ overtaken' = overtaken
  BY DEF onAuth, IsAuthReply
<1>1a. Fine(client, a, K, down, served, node, applied, overtaken)
  BY DEF Honoured, FineNow
<1>1b. 1 \in 1..Len(down) /\ Head(down) = down[1]
  BY <1>0, TailFacts
<1>2. CASE Received(Head(down)) /\ \E order \in SetToSeqs(client.listens) :
                                        client' = restoreState(client, order)
  <2>1. PICK order \in SetToSeqs(client.listens) : client' = restoreState(client, order)
    BY <1>2
  <2>2. Handled
    BY <1>2 DEF Received, Handled
  <2> DEFINE dn == Tail(down)
  <2>3. client.state # "connected" /\ Fresh(client, dn)
    BY <1>0, <1>1, AuthFresh
  <2>4. ~IsNews(down[1]) /\ down[1] # Refusal
    BY <1>1, <1>1b DEF IsAuthReply, IsNews, Refusal, Reply, Listen
  <2> HIDE DEF a, K
  <2>5. Fine(client, a, K, dn, served, node, applied, overtaken)
    BY <1>0, <1>1a, <2>4, PlainFine
  <2>6. Restored(client, client', order)
    BY <1>0, <2>1, RestoreFields
  <2>7. client'.putsToAck = client.putsToAck
    BY <2>6 DEF Restored
  <2> HIDE DEF dn
  <2>8. Fine(client', a, K, dn, served, node, applied, overtaken)
    BY <1>0, <2>3, <2>5, <2>6, RestoreFine
  <2>9. Fine(client', client'.putsToAck, 1..Len(client'.putsToAck), Tail(down), served,
             node, applied, overtaken')
    BY <1>1, <2>7, <2>8 DEF a, K, dn
  <2> QED BY <1>1, <2>2, <2>9, HandledFine
<1>3. CASE /\ Head(down).status # "ok" /\ client' = Disconnected(client)
           /\ down' = <<>> /\ served' = {} /\ breaks' = breaks + 1
           /\ UNCHANGED <<node, applied, foreign, reads, denials>>
  <2>2. breaks < MaxBreaks
    BY <1>0, <1>1, <1>3, <1>1b DEF Refusals
  <2>3. Breaks /\ foreign' = foreign
    BY <1>3, <2>2 DEF Breaks
  <2> QED BY <1>1, <2>3, BreaksFine
<1> QED BY <1>2, <1>3 DEF onAuth

(***************************************************************************)
(* So does handling news, but for those of a read above the counter: they  *)
(* overtake an acceptance that is held back, or contradict none.           *)
(***************************************************************************)
LEMMA OnDataFine ==
    ASSUME Honoured, down # <<>>, onData(Head(down)), ~client'.reread
    PROVE  FineNow' /\ Counting'
<1> DEFINE a == client.putsToAck
           K == 1..Len(a)
           m == Head(down)
<1>0. client \in Clients /\ down \in Seq(DownMessages) /\ a \in Seq(AckOf)
  BY Now DEF Honoured
<1>1. Handled /\ m.kind = "data" /\ m = down[1] /\ m \in DownMessages
  BY <1>0, TailFacts DEF onData, Received, Handled
<1>3. m.node \in Nodes /\ m.query \in Queries
  BY <1>1 DEF DownMessages
<1>4. /\ \/ client' = client
         \/ /\ m.query = Counter /\ m.query \in client.listens
            /\ client' = [client EXCEPT !.cache = m.node]
         \/ /\ m.query \in Reads
            /\ client' = [client EXCEPT !.over = client.over \cup {m.query}]
      /\ m.query = Counter /\ Counter \in client.listens =>
            client' = [client EXCEPT !.cache = m.node]
      /\ overtaken' = (\/ overtaken
                       \/ /\ m.query = Counter
                          /\ \E i \in DOMAIN a : a[i].put.hashed)
  <2>1. client' \in DataUpdate(client, m.query, m.node)
    BY DEF onData
  <2>2. m.query \in Reads => client' \notin Taught(client, m.query, m.node)
    <3>1. Sound(client, client.puts, a, K, applied)
      BY Now DEF Honoured
    <3> HIDE DEF a, K, m
    <3> QED BY <1>3, <3>1, TaughtFields
  <2>3. \/ client' = client
        \/ /\ m.query = Counter /\ m.query \in client.listens
           /\ client' = [client EXCEPT !.cache = m.node]
        \/ /\ m.query \in Reads
           /\ client' = [client EXCEPT !.over = client.over \cup {m.query}]
    <3> HIDE DEF m
    <3> QED BY <1>0, <1>3, <2>1, <2>2, DataUpdateIs
  <2>4. m.query = Counter /\ Counter \in client.listens =>
            client' = [client EXCEPT !.cache = m.node]
    BY <2>1 DEF DataUpdate
  <2> QED BY <2>3, <2>4 DEF onData
<1>5. DOMAIN a = K
  BY <1>0
<1>6. Fine(client, a, K, down, served, node, applied, overtaken)
  BY DEF Honoured, FineNow
<1>7. m # Refusal /\ (IsNews(m) <=> m.query = Counter)
  BY <1>1 DEF Refusal, Reply, IsNews
<1> HIDE DEF m
<1>8. /\ client'.puts = client.puts /\ client'.putsToAck = a /\ client'.up = client.up
      /\ client'.listens = client.listens /\ client'.state = client.state
      /\ client'.cache = IF m.query = Counter /\ Counter \in client.listens
                         THEN m.node ELSE client.cache
  <2>1. CASE m.query = Counter /\ Counter \in client.listens
    BY <1>0, <1>4, <2>1 DEF Clients
  <2>2. CASE ~(m.query = Counter /\ Counter \in client.listens)
    <3>1. CASE client' = client
      BY <2>2, <3>1
    <3>2. CASE client' = [client EXCEPT !.over = client.over \cup {m.query}]
      BY <1>0, <2>2, <3>2 DEF Clients
    <3> QED BY <1>4, <2>2, <3>1, <3>2
  <2> QED BY <2>1, <2>2
<1>9. Counter \notin client.listens => client.cache = <<>>
  BY <1>6 DEF Fine, Missing
<1>10. Learns(client.cache, down[1], client'.cache)
  BY <1>1, <1>7, <1>8, <1>9 DEF Learns
<1>11. Counter \notin client'.listens => client'.cache = <<>>
  BY <1>8, <1>9
<1>12. overtaken => overtaken'
  BY <1>4
<1>13. ~overtaken' /\ KeptNear(client.cache, a, K) => KeptNear(client'.cache, a, K)
  <2>1. CASE m.query # Counter
    BY <1>8, <2>1
  <2>2. CASE m.query = Counter
    BY <1>4, <1>5, <2>2 DEF KeptNear
  <2> QED BY <2>1, <2>2
<1> HIDE DEF a, K
<1>14. Fine(client', a, K, Tail(down), served, node, applied, overtaken')
  <2> DEFINE nt == overtaken'
  <2>1. (overtaken => nt) /\ (~nt /\ KeptNear(client.cache, a, K) => KeptNear(client'.cache, a, K))
    BY <1>12, <1>13
  <2> HIDE DEF nt
  <2>2. Fine(client', a, K, Tail(down), served, node, applied, nt)
    BY <1>0, <1>6, <1>8, <1>10, <1>11, <2>1, TailFine
  <2> QED BY <2>2 DEF nt
<1> QED BY <1>1, <1>8, <1>12, <1>14, HandledFine DEF a, K

\* What is left of the client's knowledge after answer m to a listen.
Sifted(c, m, d) ==
    /\ d.cache = IF m.status # "ok" /\ m.to.query = Counter THEN <<>> ELSE c.cache
    /\ d.listens = IF m.status = "ok" THEN c.listens ELSE c.listens \ {m.to.query}

(***************************************************************************)
(* A refused listen to the counter drops the cache.                        *)
(***************************************************************************)
LEMMA ListenedCache ==
    ASSUME NEW c \in Clients, NEW m, NEW n \in Int, NEW d, d = Listened(c, m, n),
           Counter \notin c.listens => c.cache = <<>>
    PROVE  Sifted(c, m, d)
<1> DEFINE nil == <<>>
           L == IF m.status = "ok" THEN c.listens ELSE c.listens \ {m.to.query}
           O == IF m.status = "ok" THEN c.over ELSE c.over \ {m.to.query}
           l == IF m.status # "ok" /\ Lost(c, m.to.query) THEN nil ELSE c.cache
           x == IF m.status # "ok" /\ m.to.query = Counter THEN nil ELSE c.cache
<1>2. d = [c EXCEPT !.listens = L, !.over = O, !.cache = l, !.unackedListens = n]
  BY DEF Listened, Refused, Clients
<1>2a. l = x
  BY DEF Lost
<1> HIDE DEF L, O, x, l
<1>3. d = [c EXCEPT !.listens = L, !.over = O, !.cache = x, !.unackedListens = n]
  BY <1>2, <1>2a
<1>4. d.listens = L /\ d.cache = x
  BY <1>3 DEF Clients
<1> QED BY <1>4 DEF L, x, Sifted

(***************************************************************************)
(* Handling the answer to a listen keeps the strengthening, the answers    *)
(* that it releases included.                                              *)
(***************************************************************************)
LEMMA OnListenReplyFine ==
    ASSUME Honoured, down # <<>>, onListenReply(Head(down)) PROVE FineNow' /\ Counting'
<1>0. /\ client \in Clients /\ client.putsToAck \in Seq(AckOf)
      /\ Sound(client, client.puts, client.putsToAck, 1..Len(client.putsToAck), applied)
      /\ Conn(client, down, served, applied, breaks)
      /\ down \in Seq(DownMessages) /\ breaks \in Nat
  BY Now DEF Honoured
<1> DEFINE m == Head(down)
           n == client.unackedListens - 1
           c == Listened(client, m, n)
           a == client.putsToAck
           K == 1..Len(a)
<1>1. Handled /\ overtaken' = overtaken /\ IsListenReply(m) /\ ~IsAuthReply(m) /\ m = down[1]
  BY <1>0, TailFacts DEF onListenReply, Received, Handled, IsListenReply, IsAuthReply
<1>2. n \in Int
  BY <1>0 DEF Clients
<1>3. client' = IF c.unackedListens = 0 THEN ackPuts(c) ELSE c
  <2>1. Refused(client, m).unackedListens = client.unackedListens
    BY <1>0 DEF Refused, Clients
  <2>2. [Refused(client, m) EXCEPT !.unackedListens = @ - 1] = c
    BY <2>1 DEF Listened
  <2> QED BY <2>2 DEF onListenReply
<1>3a. Fine(client, a, K, down, served, node, applied, overtaken)
  BY DEF Honoured, FineNow
<1> HIDE DEF c, n, m
<1>4. /\ c \in Clients /\ SameQueue(client, c) /\ c.puts = client.puts /\ c.up = client.up
      /\ c.putsToAck = client.putsToAck /\ c.state = client.state /\ c.result = client.result
      /\ c.unackedListens = n
  BY <1>0, <1>2, ListenedFields DEF c
<1>5. /\ c.cache = IF m.status # "ok" /\ m.to.query = Counter THEN <<>> ELSE client.cache
      /\ c.listens = IF m.status = "ok" THEN client.listens ELSE client.listens \ {m.to.query}
  <2>1. c = Listened(client, m, n)
    BY DEF c
  <2>1a. Counter \notin client.listens => client.cache = <<>>
    BY <1>3a DEF Fine, Missing
  <2>2. Sifted(client, m, c)
    BY <1>0, <1>2, <2>1, <2>1a, ListenedCache
  <2> QED BY <2>2 DEF Sifted
<1>6. Sound(c, c.puts, c.putsToAck, 1..Len(c.putsToAck), applied)
  <2>1. Sound(c, client.puts, client.putsToAck, 1..Len(client.putsToAck), applied)
    BY <1>0, <1>4, SoundSame
  <2> QED BY <1>4, <2>1
<1>7. Conn(c, Tail(down), served, applied, breaks) /\ client.state = "connected"
  <2>1. c.unackedListens = client.unackedListens - 1
    BY <1>4 DEF n
  <2> QED BY <1>0, <1>1, <1>4, <2>1, ReceivedConn DEF m
<1>8. Fine(c, a, K, Tail(down), served, node, applied, overtaken)
  <2>1. Counter \notin client.listens => client.cache = <<>>
    BY <1>3a DEF Fine, Missing
  <2>2. Counter \notin c.listens => c.cache = <<>>
    BY <1>5, <2>1
  <2>3. m = Refusal => m.status # "ok" /\ m.to.query = Counter
    BY DEF Refusal, Reply, Listen
  <2>4. ~IsNews(m)
    BY <1>1 DEF IsNews, IsListenReply
  <2>5. Learns(client.cache, m, c.cache)
    BY <1>5, <2>3, <2>4 DEF Learns
  <2>6. c.cache = <<>> \/ c.cache = client.cache
    BY <1>5
  <2>7. KeptNear(client.cache, a, K) => KeptNear(c.cache, a, K)
    BY <2>6 DEF KeptNear, Near
  <2>8. Counter \in c.listens => Counter \in client.listens
    BY <1>5
  <2>9. Learns(client.cache, down[1], c.cache)
    BY <1>1, <2>5
  <2> HIDE DEF a, K
  <2> QED BY <1>0, <1>3a, <1>4, <1>7, <2>2, <2>7, <2>8, <2>9, TailFine
<1>9. Fine(c, c.putsToAck, 1..Len(c.putsToAck), Tail(down), served, node, applied, overtaken)
  BY <1>4, <1>8
<1>9a. ~c.reread
  BY <1>4 DEF SameQueue, Honoured
<1>10. CASE c.unackedListens = 0
  <2>1. client' = ackPuts(c) /\ c.putsToAck \in Seq(AckOf)
    BY <1>0, <1>3, <1>4, <1>10
  <2>2. Fine(client', client'.putsToAck, 1..Len(client'.putsToAck), Tail(down), served, node,
             applied, overtaken)
    BY <1>0, <1>6, <1>7, <1>9, <1>9a, <2>1, ReleaseFine
  <2> QED BY <1>1, <2>2, HandledFine
<1>11. CASE c.unackedListens # 0
  <2>1. client' = c
    BY <1>3, <1>11
  <2> QED BY <1>1, <1>9, <2>1, HandledFine
<1> QED BY <1>10, <1>11

(***************************************************************************)
(* So does handling the answer to a put: an acceptance finds a cache that  *)
(* does not contradict it, and is passed on or held back.                  *)
(***************************************************************************)
LEMMA OnPutReplyFine ==
    ASSUME Honoured, down # <<>>, onPutReply(Head(down)) PROVE FineNow' /\ Counting'
<1>0. /\ client \in Clients /\ client.putsToAck \in Seq(AckOf) /\ client.puts \in Seq(Outstanding)
      /\ Sound(client, client.puts, client.putsToAck, 1..Len(client.putsToAck), applied)
      /\ Conn(client, down, served, applied, breaks)
      /\ down \in Seq(DownMessages) /\ breaks \in Nat
  BY Now DEF Honoured
<1> DEFINE m == Head(down)
           p == m.to.put
           s == m.status
           a == client.putsToAck
           b == Append(a, [put |-> p, status |-> s])
           c == Forgotten(client, p)
           K == 1..Len(a)
           J == 1..Len(b)
<1>1. Handled /\ overtaken' = overtaken /\ IsPutReply(m)
  BY DEF onPutReply, Received, Handled, server, IsPutReply
<1>2. m \in DownMessages /\ m = down[1] /\ 1 \in 1..Len(down)
  BY <1>0, TailFacts
<1>3. p \in Puts /\ s \in Replies /\ s \in Statuses
  BY <1>1, <1>2 DEF IsPutReply, DownMessages, UpMessages, Statuses
<1>4. Out(client, p) /\ Honest(p, s, applied)
  BY <1>0, <1>1, <1>2 DEF Conn, Wire
<1>5. PICK i0 \in 1..Len(client.puts) : client.puts[i0].put = p
  BY <1>4 DEF Out
<1>6. client' = IF client.unackedListens = 0 THEN putAnswered(c, p, s) ELSE Held(c, b)
  <2>1. ~ \A i \in DOMAIN client.puts : client.puts[i].put # p
    BY <1>0, <1>5
  <2>2. [client EXCEPT !.puts = Only(@, {o \in ToSet(@) : o.put # p})] = c
    BY <1>0 DEF Forgotten, Removed, Clients
  <2>3. c.putsToAck = a
    BY <1>0 DEF Forgotten, Clients
  <2>4. [c EXCEPT !.putsToAck = Append(@, [put |-> p, status |-> s])] = Held(c, b)
    BY <2>3 DEF Held
  <2>5. client' = IF client.unackedListens = 0 THEN putAnswered(c, p, s)
                  ELSE [c EXCEPT !.putsToAck = Append(@, [put |-> p, status |-> s])]
    BY <2>1, <2>2 DEF onPutReply
  <2> QED BY <2>4, <2>5
<1>6a. b \in Seq(Acks)
  <2>1. [put |-> p, status |-> s] \in Acks /\ a \in Seq(Acks)
    BY <1>0, <1>3 DEF Acks, Clients
  <2> QED BY <2>1
<1>6b. Fine(client, a, K, down, served, node, applied, overtaken)
  BY DEF Honoured, FineNow
<1>6c. ~IsNews(m) /\ m # Refusal /\ (IsOk(m) <=> p.hashed /\ s = "ok")
  BY <1>1 DEF IsNews, Refusal, Reply, Listen, IsPutReply, IsOk
<1> HIDE DEF m, p, s, a, b, c
<1>7. b \in Seq(AckOf) /\ Added(b, a, p, s)
  <2>1. Standing(client, client.puts, a, 1..Len(a)) /\ a \in Seq(AckOf)
    BY <1>0 DEF Sound, a
  <2>2. p = client.puts[i0].put /\ b = Append(a, [put |-> p, status |-> s])
    BY <1>5 DEF b
  <2> QED BY <1>0, <1>3, <2>1, <2>2, Moved
<1>8. Sound(client, Removed(client.puts, p), b, 1..Len(b), applied)
  <2>1. Sound(client, client.puts, a, 1..Len(a), applied) /\ a \in Seq(AckOf)
    BY <1>0 DEF a
  <2>2. p = client.puts[i0].put /\ b = Append(a, [put |-> p, status |-> s])
    BY <1>5 DEF b
  <2> QED BY <1>0, <1>3, <1>4, <2>1, <2>2, MovedSound
<1>9. /\ c \in Clients /\ SameQueue(client, c) /\ c.puts = Removed(client.puts, p)
      /\ c.up = client.up /\ c.putsToAck = client.putsToAck /\ c.state = client.state
      /\ c.result = client.result /\ c.unackedListens = client.unackedListens
      /\ c.listens = client.listens /\ c.over = client.over /\ c.cache = client.cache
  BY <1>0, ForgottenFields DEF c
<1>10. Sound(c, c.puts, b, J, applied)
  <2> DEFINE P == Removed(client.puts, p)
  <2>1. Sound(client, P, b, J, applied)
    BY <1>8
  <2> HIDE DEF P, J
  <2>2. Sound(c, P, b, J, applied)
    BY <1>9, <2>1, SoundSame
  <2> QED BY <1>9, <2>2 DEF P
<1>11. Conn(c, Tail(down), served, applied, breaks)
  <2>1. p = Head(down).to.put /\ IsPutReply(Head(down))
    BY <1>1 DEF p, m
  <2> QED BY <1>0, <1>9, <2>1, ForgottenConn
<1>12. /\ Len(b) = Len(a) + 1 /\ Len(a) \in Nat /\ a \in Seq(AckOf)
       /\ \A i \in 1..Len(a) : b[i] = a[i]
       /\ b[Len(b)].put = p /\ b[Len(b)].status = s
  BY <1>0, <1>7 DEF Added, a
<1>13. Fine(c, b, J, Tail(down), served, node, applied, overtaken)
  <2> HIDE DEF K, J
  <2>1. Fine(client, a, K, Tail(down), served, node, applied, overtaken)
    BY <1>0, <1>2, <1>6b, <1>6c, PlainFine
  <2>2. \A i \in 1..Len(c.puts) : \E k \in 1..Len(client.puts) : c.puts[i] = client.puts[k]
    <3> DEFINE P == client.puts
               Q == Removed(P, p)
    <3>1. P \in Seq(Outstanding)
      BY <1>0
    <3>2. Thinned(Q, P, p) /\ c.puts = Q
      BY <1>9, <3>1, RemovedFacts
    <3> HIDE DEF P, Q
    <3>3. \A i \in 1..Len(Q) : \E k \in 1..Len(P) : Q[i] = P[k]
      BY <3>2 DEF Thinned
    <3> QED BY <3>2, <3>3 DEF P
  <2>3. Fine(c, a, K, Tail(down), served, node, applied, overtaken)
    BY <1>0, <1>9, <2>1, <2>2, FineAlike
  <2>4. ASSUME ~overtaken, p.hashed, s = "ok" PROVE Near(c.cache, p.val)
    <3>1. IsOk(down[1])
      BY <1>2, <1>6c, <2>4
    <3>2. AllHeard(client.cache, down)
      BY <1>6b, <2>4 DEF Fine, Valued
    <3>3. Near(client.cache, down[1].to.put.val)
      BY <1>0, <3>1, <3>2, HeadHeard
    <3> QED BY <1>2, <1>9, <3>3 DEF p
  <2>5. ~overtaken => \A i \in J : \/ i \in K /\ b[i] = a[i]
                                   \/ b[i].put.hashed /\ b[i].status = "ok" =>
                                        Near(c.cache, b[i].put.val)
    <3>1. \A i \in J : i \in K \/ i = Len(b)
      BY <1>12 DEF J, K
    <3>2. \A i \in K : b[i] = a[i]
      BY <1>12 DEF K
    <3> QED BY <1>12, <2>4, <3>1, <3>2
  <2> QED BY <2>3, <2>5, FineWithin
<1>14. CASE client.unackedListens = 0
  <2>1. client' = putAnswered(c, p, s) /\ a \in Seq(AckOf)
    BY <1>0, <1>6, <1>14 DEF a
  <2>2. Follows(c, client', c.puts, client'.puts, b[Len(b)], applied)
    BY <1>0, <1>7, <1>10, <1>11, <2>1, PassedOn
  <2>3. client'.putsToAck = a
    BY <1>9, <2>2 DEF Follows, SameConn, a
  <2> DEFINE j == Len(b)
  <2>4. j \in J /\ b[j] \in AckOf /\ J \ {j} = K
    BY <1>7, <1>12
  <2>5. Follows(c, client', c.puts, client'.puts, b[j], applied)
    BY <2>2
  <2> HIDE DEF J, K, j
  <2>5a. ~c.reread
    BY <1>9 DEF SameQueue, Honoured
  <2>6. Fine(client', b, J \ {j}, Tail(down), served, node, applied, overtaken)
    BY <1>10, <1>13, <2>4, <2>5, <2>5a, FineAnswered
  <2>7. \A i \in K : i \in J \ {j} /\ a[i] = b[i]
    BY <1>12, <2>4 DEF K
  <2>8. Fine(client', a, K, Tail(down), served, node, applied, overtaken)
    BY <2>6, <2>7, FineWithin
  <2> QED BY <1>1, <2>3, <2>8, HandledFine DEF K
<1>15. CASE client.unackedListens # 0
  <2>1. client' = Held(c, b)
    BY <1>6, <1>15
  <2>2. /\ client'.puts = c.puts /\ client'.up = c.up /\ client'.putsToAck = b
        /\ client'.state = c.state /\ client'.listens = c.listens /\ client'.cache = c.cache
    BY <1>6a, <1>9, <2>1, HeldFields
  <2> HIDE DEF J
  <2>3. \A i \in 1..Len(client'.puts) : \E k \in 1..Len(c.puts) : client'.puts[i] = c.puts[k]
    BY <2>2
  <2>4. Fine(client', b, J, Tail(down), served, node, applied, overtaken)
    BY <1>9, <1>13, <2>2, <2>3, FineAlike
  <2> QED BY <1>1, <2>2, <2>4, HandledFine DEF J
<1> QED BY <1>14, <1>15

(***************************************************************************)
(* So does handling any message of the server.                             *)
(***************************************************************************)
LEMMA OnDataMessageFine ==
    ASSUME Honoured, onDataMessage, ~client'.reread PROVE FineNow' /\ Counting'
BY OnAuthFine, OnDataFine, OnListenReplyFine, OnPutReplyFine DEF onDataMessage

-----------------------------------------------------------------------------
(***************************************************************************)
(* What else taking a message of the client leaves alone.                  *)
(***************************************************************************)
LEMMA TakenCache ==
    ASSUME Inv, NEW m, Taken(m)
    PROVE  client'.cache = client.cache /\ foreign' = foreign /\ overtaken' = overtaken
<1>0. client \in Clients
  BY Now
<1> DEFINE up == Tail(client.up)
<1>1. client' = [client EXCEPT !.up = up] /\ foreign' = foreign /\ overtaken' = overtaken
  BY DEF Taken
<1> HIDE DEF up
<1> QED BY <1>0, <1>1 DEF Clients

(***************************************************************************)
(* While there is no node, news only tell that.                            *)
(***************************************************************************)
LEMMA MissingAppend ==
    ASSUME NEW c, NEW dn \in Seq(DownMessages), NEW m \in DownMessages, NEW nd, NEW ap,
           Missing(c, dn, nd, ap), IsNews(m) /\ nd = <<>> => m.node = <<>>
    PROVE  Missing(c, Append(dn, m), nd, ap)
<1> DEFINE en == Append(dn, m)
<1>1. /\ Len(en) = Len(dn) + 1 /\ Len(dn) \in Nat
      /\ \A i \in 1..Len(dn) : en[i] = dn[i]
      /\ en[Len(dn) + 1] = m
  BY AppendLast
<1>2. \A i \in 1..Len(en) : i \in 1..Len(dn) \/ i = Len(dn) + 1
  BY <1>1
<1> HIDE DEF en
<1>3. Missing(c, en, nd, ap)
  BY <1>1, <1>2 DEF Missing
<1> QED BY <1>3 DEF en

(***************************************************************************)
(* What is to be shown of a step of the server.                            *)
(***************************************************************************)
LEMMA TakenFine ==
    ASSUME Honoured, NEW m, Taken(m), NEW en, NEW tv, NEW nd, NEW ap,
           down' = en, served' = tv, node' = nd, applied' = ap,
           Missing(client, en, nd, ap),
           m = Listen(Counter) => Known(client.cache, en, tv),
           m # Unlisten(Counter) /\ Known(client.cache, down, served)
                => Known(client.cache, en, tv),
           ~overtaken => AllHeard(client.cache, en) /\ AllGood(client.puts, nd)
    PROVE  FineNow'
<1>0. client \in Clients /\ Inv
  BY Now DEF Honoured
<1> DEFINE d == client'
           a == client.putsToAck
           K == 1..Len(a)
<1>1. /\ client.up # <<>> /\ m = client.up[1] /\ Taking(client, d)
      /\ d.listens = client.listens /\ d.putsToAck = a
  BY <1>0, TakenFields
<1>2. d.cache = client.cache /\ overtaken' = overtaken
  BY <1>0, TakenCache
<1>3. /\ d.up = Tail(client.up) /\ d.state = client.state /\ d.puts = client.puts
  BY <1>1 DEF Taking
<1>4. Fine(client, a, K, down, served, node, applied, overtaken)
  BY DEF Honoured, FineNow
<1>4a. FineNow' <=> Fine(d, d.putsToAck, 1..Len(d.putsToAck), en, tv, nd, ap, overtaken')
  BY DEF FineNow
<1> HIDE DEF d, a, K
<1>5. Asks(d, en, tv)
  <2>1. Asks(client, down, served)
    BY <1>4 DEF Fine
  <2> QED BY <1>0, <1>1, <1>2, <1>3, <2>1, TakenAsks
<1>6. Missing(d, en, nd, ap)
  BY <1>1, <1>2 DEF Missing
<1>7. ASSUME ~overtaken PROVE Valued(d, a, K, en, nd)
  BY <1>2, <1>3, <1>4, <1>7 DEF Fine, Valued
<1>8. Fine(d, a, K, en, tv, nd, ap, overtaken)
  BY <1>5, <1>6, <1>7 DEF Fine
<1> QED BY <1>1, <1>2, <1>4a, <1>8 DEF K

(***************************************************************************)
(* The server takes a message and answers it; an acceptance of             *)
(* transactions only if the client will have heard of the value.           *)
(***************************************************************************)
LEMMA AnsweredFine ==
    ASSUME Honoured, NEW m, Taken(m), NEW dn \in Seq(DownMessages), NEW s \in Replies,
           down' = Append(dn, Reply(m, s)),
           NEW tv, NEW nd, NEW ap, served' = tv, node' = nd, applied' = ap,
           Missing(client, dn, nd, ap),
           m = Listen(Counter) => s = "denied" \/ Counter \in tv,
           m # Listen(Counter) /\ Known(client.cache, down, served)
                => Known(client.cache, dn, tv),
           ~overtaken => AllHeard(client.cache, dn) /\ AllGood(client.puts, nd),
           ~overtaken /\ IsOk(Reply(m, s)) => Heard(client.cache, dn, Len(dn) + 1, m.put.val)
    PROVE  FineNow'
<1>0. Inv
  BY DEF Honoured
<1> DEFINE r == Reply(m, s)
           en == Append(dn, r)
<1>1. m \in UpMessages
  BY <1>0, TakenFields
<1>2. r \in DownMessages /\ r.to = m
  BY <1>1, ReplyFacts
<1>3. ~IsNews(r)
  BY DEF Reply, IsNews
<1>4. m = Listen(Counter) /\ s = "denied" => r = Refusal
  BY DEF Refusal
<1> HIDE DEF r
<1>5. Missing(client, en, nd, ap)
  BY <1>2, <1>3, MissingAppend
<1>6. m = Listen(Counter) => Known(client.cache, en, tv)
  <2>1. CASE s = "denied"
    BY <1>2, <1>4, <2>1, KnownRefusal
  <2>2. CASE Counter \in tv
    BY <2>2 DEF Known
  <2> QED BY <2>1, <2>2
<1>7. m # Unlisten(Counter) /\ Known(client.cache, down, served) => Known(client.cache, en, tv)
  BY <1>2, <1>3, <1>6, KnownAppend
<1>8. ~overtaken => AllHeard(client.cache, en) /\ AllGood(client.puts, nd)
  BY <1>2, AllHeardAppend DEF r
<1>9. down' = en
  BY DEF r
<1> HIDE DEF en
<1> QED BY <1>5, <1>6, <1>7, <1>8, <1>9, TakenFine

(***************************************************************************)
(* The state from which the server answers.                                *)
(***************************************************************************)
LEMMA ReadyFine ==
    ASSUME Honoured
    PROVE  /\ down \in Seq(DownMessages) /\ client \in Clients /\ node \in Nodes
           /\ served \in SUBSET Queries /\ Inv
           /\ Missing(client, down, node, applied) /\ Asks(client, down, served)
           /\ ~overtaken => /\ AllHeard(client.cache, down) /\ AllGood(client.puts, node)
                            /\ Valued(client, client.putsToAck, 1..Len(client.putsToAck), down, node)
BY Ready DEF Honoured, FineNow, Fine, Valued

(***************************************************************************)
(* What a message of each kind is.                                         *)
(***************************************************************************)
LEMMA ListenIs ==
    ASSUME NEW m \in UpMessages
    PROVE  /\ m.kind = "listen" => m.query \in Queries /\ m = Listen(m.query)
           /\ m.kind = "unlisten" => m.query \in Queries /\ m = Unlisten(m.query)
           /\ m.kind # "listen" => m # Listen(Counter)
           /\ m.kind # "unlisten" => m # Unlisten(Counter)
           /\ m.kind # "put" => \A s : ~IsOk(Reply(m, s))
<1>1. m.kind = "listen" => m.query \in Queries /\ m = Listen(m.query)
  BY DEF UpMessages, Listen
<1>2. m.kind = "unlisten" => m.query \in Queries /\ m = Unlisten(m.query)
  BY DEF UpMessages, Unlisten
<1>3. /\ m.kind # "listen" => m # Listen(Counter)
      /\ m.kind # "unlisten" => m # Unlisten(Counter)
  BY DEF Listen, Unlisten
<1>4. m.kind # "put" => \A s : ~IsOk(Reply(m, s))
  BY DEF IsOk, IsPutReply, Reply
<1> QED BY <1>1, <1>2, <1>3, <1>4

(***************************************************************************)
(* Answering the authentication keeps the strengthening.                   *)
(***************************************************************************)
LEMMA ServeAuthFine ==
    ASSUME Honoured, NEW m, ServeAuth(m) PROVE FineNow' /\ Counting'
<1>0. /\ down \in Seq(DownMessages) /\ Inv /\ Missing(client, down, node, applied)
      /\ ~overtaken => AllHeard(client.cache, down) /\ AllGood(client.puts, node)
  BY ReadyFine
<1>1. /\ m.kind = "auth" /\ served' = served /\ node' = node /\ applied' = applied
      /\ \/ Accepted(m) /\ down' = Append(down, Reply(m, "ok"))
         \/ Denied(m)
  BY DEF ServeAuth
<1>2. PICK s \in Replies : Taken(m) /\ down' = Append(down, Reply(m, s))
  <2>1. "ok" \in Replies /\ "denied" \in Replies
    BY DEF Replies
  <2> QED BY <1>1, <2>1 DEF Accepted, Denied
<1>3. m # Listen(Counter) /\ ~IsOk(Reply(m, s))
  <2>1. m \in UpMessages
    BY <1>0, <1>2, TakenFields
  <2>2. m.kind # "listen" /\ m.kind # "put"
    BY <1>1
  <2> QED BY <2>1, <2>2, ListenIs
<1>4. FineNow'
  BY <1>0, <1>1, <1>2, <1>3, AnsweredFine
<1>5. foreign' = foreign /\ overtaken' = overtaken
  BY <1>0, <1>2, TakenCache
<1> QED BY <1>1, <1>4, <1>5, SameCounting DEF Honoured

(***************************************************************************)
(* So does answering a listen: with the news, and from then on with every  *)
(* change, or with the refusal that makes the client forget.               *)
(***************************************************************************)
LEMMA ServeListenFine ==
    ASSUME Honoured, NEW m, ServeListen(m) PROVE FineNow' /\ Counting'
<1>0. /\ down \in Seq(DownMessages) /\ Inv /\ Missing(client, down, node, applied)
      /\ node \in Nodes
      /\ ~overtaken => AllHeard(client.cache, down) /\ AllGood(client.puts, node)
  BY ReadyFine
<1>1. /\ m.kind = "listen" /\ node' = node /\ applied' = applied
      /\ \/ /\ Accepted(m) /\ served' = served \cup {m.query}
            /\ down' = down \o <<Data(m.query, node), Reply(m, "ok")>>
         \/ Denied(m) /\ served' = served \ {m.query}
  BY DEF ServeListen
<1>2. Taken(m) /\ "ok" \in Replies /\ "denied" \in Replies
  BY <1>1 DEF Accepted, Denied, Replies
<1>3. m \in UpMessages
  BY <1>0, <1>2, TakenFields
<1>4. m.query \in Queries /\ m = Listen(m.query) /\ \A s : ~IsOk(Reply(m, s))
  <2>1. m.kind # "put"
    BY <1>1
  <2> QED BY <1>1, <1>3, <2>1, ListenIs
<1>4a. m = Listen(Counter) => m.query = Counter
  BY DEF Listen
<1>5. ASSUME served' = served \cup {m.query},
             down' = down \o <<Data(m.query, node), Reply(m, "ok")>>
      PROVE  FineNow'
  <2> DEFINE x == Data(m.query, node)
             dn == Append(down, x)
             r == Reply(m, "ok")
  <2>1. x \in DownMessages /\ x.kind = "data" /\ x.node = node /\ x.query = m.query
    BY <1>0, <1>4, DataFacts DEF Data
  <2>2. r \in DownMessages
    BY <1>2, <1>3, ReplyFacts
  <2>3. dn \in Seq(DownMessages) /\ down' = Append(dn, r)
    BY <1>0, <1>5, <2>1, <2>2, ConcatOne
  <2>4. ~IsOk(x) /\ (IsNews(x) => m.query = Counter)
    BY <2>1 DEF IsOk, IsPutReply, IsNews
  <2>5. m.query = Counter => Counter \in served'
    BY <1>5
  <2>5a. Counter \in served => Counter \in served'
    BY <1>5
  <2> DEFINE tv == served'
  <2> HIDE DEF x, tv
  <2>6. Missing(client, dn, node, applied)
    BY <1>0, <2>1, MissingAppend
  <2>7. Known(client.cache, down, served) => Known(client.cache, dn, tv)
    BY <1>0, <2>1, <2>4, <2>5, <2>5a, KnownAppend DEF tv
  <2>8. ~overtaken => AllHeard(client.cache, dn) /\ AllGood(client.puts, node)
    BY <1>0, <2>1, <2>4, AllHeardAppend
  <2>9. m = Listen(Counter) => Counter \in tv
    BY <1>4a, <2>5 DEF tv
  <2>10. served' = tv /\ down' = Append(dn, Reply(m, "ok"))
    BY <2>3 DEF tv
  <2> HIDE DEF dn
  <2> QED BY <1>1, <1>2, <1>4, <2>3, <2>6, <2>7, <2>8, <2>9, <2>10, AnsweredFine
<1>6. ASSUME Denied(m), served' = served \ {m.query} PROVE FineNow'
  <2>1. down' = Append(down, Reply(m, "denied"))
    BY <1>6 DEF Denied
  <2> DEFINE tv == served'
  <2>2. m # Listen(Counter) => (Counter \in served => Counter \in tv)
    BY <1>4, <1>6
  <2>3. served' = tv
    OBVIOUS
  <2> HIDE DEF tv
  <2>4. m # Listen(Counter) /\ Known(client.cache, down, served) => Known(client.cache, down, tv)
    BY <2>2 DEF Known
  <2> QED BY <1>0, <1>1, <1>2, <1>4, <2>1, <2>3, <2>4, AnsweredFine
<1>7. FineNow'
  BY <1>1, <1>5, <1>6
<1>8. foreign' = foreign /\ overtaken' = overtaken
  BY <1>0, <1>2, TakenCache
<1> QED BY <1>1, <1>7, <1>8, SameCounting DEF Honoured

(***************************************************************************)
(* So does ending a listen.                                                *)
(***************************************************************************)
LEMMA ServeUnlistenFine ==
    ASSUME Honoured, NEW m, ServeUnlisten(m) PROVE FineNow' /\ Counting'
<1>0. /\ down \in Seq(DownMessages) /\ Inv /\ Missing(client, down, node, applied)
      /\ ~overtaken => AllHeard(client.cache, down) /\ AllGood(client.puts, node)
  BY ReadyFine
<1>1. /\ m.kind = "unlisten" /\ node' = node /\ applied' = applied /\ down' = down
      /\ Taken(m) /\ served' = served \ {m.query}
  BY DEF ServeUnlisten, Accepted
<1>2. m \in UpMessages
  BY <1>0, <1>1, TakenFields
<1>3. m = Unlisten(m.query) /\ m # Listen(Counter)
  <2>1. m.kind # "listen"
    BY <1>1
  <2> QED BY <1>1, <1>2, <2>1, ListenIs
<1> DEFINE tv == served'
<1>4. m # Unlisten(Counter) => (Counter \in served => Counter \in tv)
  BY <1>1, <1>3
<1>5. served' = tv
  OBVIOUS
<1> HIDE DEF tv
<1>6. m # Unlisten(Counter) /\ Known(client.cache, down, served) => Known(client.cache, down, tv)
  BY <1>4 DEF Known
<1>7. FineNow'
  BY <1>0, <1>1, <1>3, <1>5, <1>6, TakenFine
<1>8. foreign' = foreign /\ overtaken' = overtaken
  BY <1>0, <1>1, TakenCache
<1> QED BY <1>1, <1>7, <1>8, SameCounting DEF Honoured

(***************************************************************************)
(* Once there is a node, there is one.                                     *)
(***************************************************************************)
LEMMA GoodStays ==
    ASSUME NEW P, NEW nd, NEW ne, ne # <<>>, AllGood(P, nd) PROVE AllGood(P, ne)
BY DEF AllGood, Good

(***************************************************************************)
(* News of a value that the server sends, to a client that listens.        *)
(***************************************************************************)
LEMMA ToldFine ==
    ASSUME Honoured, NEW v \in Int, NEW dn, dn = down \o Told(Counter, <<v>>), NEW ap
    PROVE  /\ dn \in Seq(DownMessages) /\ Missing(client, dn, <<v>>, ap)
           /\ Known(client.cache, down, served) => Known(client.cache, dn, served)
           /\ ~overtaken => AllHeard(client.cache, dn) /\ AllGood(client.puts, <<v>>)
<1>0. /\ down \in Seq(DownMessages) /\ Missing(client, down, node, applied)
      /\ ~overtaken => AllHeard(client.cache, down) /\ AllGood(client.puts, node)
  BY ReadyFine
<1> DEFINE nd == <<v>>
           x == Data(Counter, nd)
<1>1. nd \in Nodes /\ nd # <<>> /\ Counter \in Queries
  BY DEF Nodes, Queries
<1>2. x \in DownMessages /\ x.kind = "data"
  BY <1>1, DataFacts
<1>3. ~IsOk(x)
  BY <1>2 DEF IsOk, IsPutReply
<1>4. (dn = Append(down, x) /\ Counter \in served) \/ dn = down
  BY <1>0, <1>2, ConcatOne DEF Told
<1> HIDE DEF nd, x
<1>5. Missing(client, dn, nd, ap)
  BY <1>0, <1>1 DEF Missing
<1>6. ~overtaken => AllGood(client.puts, nd)
  BY <1>0, <1>1, GoodStays
<1>7. CASE dn = Append(down, x) /\ Counter \in served
  <2>1. dn \in Seq(DownMessages)
    BY <1>0, <1>2, <1>7, AppendLast
  <2>2. Known(client.cache, dn, served)
    BY <1>7 DEF Known
  <2>3. ~overtaken => AllHeard(client.cache, dn)
    BY <1>0, <1>2, <1>3, <1>7, AllHeardAppend
  <2> QED BY <1>5, <1>6, <2>1, <2>2, <2>3 DEF nd
<1>8. CASE dn = down
  BY <1>0, <1>5, <1>6, <1>8 DEF nd
<1> QED BY <1>4, <1>7, <1>8

(***************************************************************************)
(* A change by another device keeps the strengthening: counter and count   *)
(* change alike.                                                           *)
(***************************************************************************)
LEMMA ForeignFine ==
    ASSUME Honoured, NEW d \in {1, -1}, ForeignChange(d) PROVE FineNow' /\ Counting'
<1>0. /\ client \in Clients /\ node \in Nodes /\ Asks(client, down, served)
      /\ ~overtaken => Valued(client, client.putsToAck, 1..Len(client.putsToAck), down, node)
  BY ReadyFine
<1> DEFINE v == Val(node) + d
           dn == down \o Told(Counter, <<v>>)
           a == client.putsToAck
           K == 1..Len(a)
           ap == applied
<1>1. /\ client' = client /\ served' = served /\ applied' = applied /\ overtaken' = overtaken
      /\ foreign'.sum = foreign.sum + d /\ node' = <<v>> /\ down' = dn
  BY DEF ForeignChange, Val
<1>2. Val(node) \in Int /\ v \in Int
  BY <1>0, BlockInt
<1>3. FineNow'
  <2>0. v \in Int /\ dn = down \o Told(Counter, <<v>>)
    BY <1>2
  <2> HIDE DEF v, dn
  <2>1. /\ Missing(client, dn, <<v>>, ap)
        /\ Known(client.cache, down, served) => Known(client.cache, dn, served)
        /\ ~overtaken => AllHeard(client.cache, dn) /\ AllGood(client.puts, <<v>>)
    BY <2>0, ToldFine
  <2>2. Asks(client, dn, served)
    <3>1. \A i \in 1..Len(client.puts) : \E k \in 1..Len(client.puts) :
             client.puts[i] = client.puts[k]
      OBVIOUS
    <3> QED BY <1>0, <2>1, <3>1, SameAsks
  <2>3. ~overtaken => Valued(client, a, K, dn, <<v>>)
    BY <1>0, <2>1 DEF Valued
  <2>4. Fine(client, a, K, dn, served, <<v>>, ap, overtaken)
    BY <2>1, <2>2, <2>3 DEF Fine
  <2> QED BY <1>1, <2>4 DEF FineNow
<1>4. Counting'
  <2> DEFINE S == {t \in Txns : applied[t] > 0}
             k == Cardinality(S)
             f == foreign.sum
  <2>1. f \in Int /\ IsFiniteSet(S) /\ (~overtaken => Val(node) = f + k)
    BY DEF Honoured, Counting, NothingOverwritten, Counted, Val
  <2>2. k \in Int
    BY <2>1, FS_CardinalityType
  <2>3. Counting' <=> /\ foreign'.sum \in Int /\ IsFiniteSet(S)
                      /\ ~overtaken => Val(node') = foreign'.sum + k
    BY <1>1 DEF Counting, NothingOverwritten, Counted, Val
  <2>4. Val(node') = v
    BY <1>1 DEF Val
  <2> DEFINE w == Val(node)
  <2>5. v = w + d /\ w \in Int /\ foreign'.sum = f + d /\ (~overtaken => w = f + k)
    BY <1>1, <1>2, <2>1
  <2> HIDE DEF S, k, f, v, w
  <2>6. f + d \in Int /\ (~overtaken => v = (f + d) + k)
    BY <2>1, <2>2, <2>5
  <2> QED BY <2>1, <2>3, <2>4, <2>5, <2>6
<1> QED BY <1>3, <1>4

-----------------------------------------------------------------------------
(***************************************************************************)
(* A sequence without repetitions has as many elements as places.          *)
(***************************************************************************)
LEMMA CountOf ==
    ASSUME NEW S, NEW s \in Seq(S), Injective(s)
    PROVE  IsFiniteSet(ToSet(s)) /\ Cardinality(ToSet(s)) = Len(s)
<1> DEFINE I == 1..Len(s)
           R == ToSet(s)
           f == [i \in I |-> s[i]]
<1>1. Len(s) \in Nat /\ IsFiniteSet(I) /\ Cardinality(I) = Len(s)
  <2>1. Len(s) \in Nat
    OBVIOUS
  <2>2. 1 \in Int /\ Len(s) \in Int /\ (Len(s) - 1) + 1 = Len(s) /\ (Len(s) < 1 => Len(s) = 0)
    BY <2>1
  <2> QED BY <2>1, <2>2, FS_Interval
<1>2. R = {s[i] : i \in I}
  BY DEF ToSet
<1>3. f \in Bijection(I, R)
  <2>1. f \in [I -> R]
    BY <1>2
  <2>2. \A i, j \in I : f[i] = f[j] => i = j
    BY DEF Injective
  <2>3. \A x \in R : \E i \in I : f[i] = x
    BY <1>2
  <2> QED BY <2>1, <2>2, <2>3 DEF Bijection, Injection, Surjection, IsInjective
<1>4. ExistsBijection(I, R)
  BY <1>3 DEF ExistsBijection
<1> HIDE DEF I, R
<1>5. IsFiniteSet(R) /\ Cardinality(R) = Cardinality(I)
  BY <1>1, <1>4, FS_Bijection
<1> QED BY <1>1, <1>5 DEF R

(***************************************************************************)
(* A put of transactions carries as many transactions as it has places.    *)
(***************************************************************************)
LEMMA OpsCount ==
    ASSUME NEW c \in Clients, Queued(c), NEW p \in Puts, TxnFor(c, p)
    PROVE  /\ ToSet(p.ops) \in SUBSET Txns /\ IsFiniteSet(ToSet(p.ops))
           /\ Cardinality(ToSet(p.ops)) = Len(p.ops) /\ Len(p.ops) \in Nat
<1>1. p.ops \in Seq(Ops) /\ c.queue \in Seq(Txns) /\ Len(c.queue) \in Nat /\ Len(p.ops) \in Nat
  BY DEF Puts, Clients
<1>2. Injective(p.ops)
  <2>1. Injective(c.queue) /\ Len(p.ops) <= Len(c.queue)
        /\ \A i \in 1..Len(p.ops) : p.ops[i] = c.queue[i]
    BY DEF Queued, TxnFor
  <2>2. \A i \in 1..Len(p.ops) : i \in 1..Len(c.queue)
    BY <1>1, <2>1
  <2> QED BY <2>1, <2>2 DEF Injective
<1> QED BY <1>1, <1>2, CountOf, MineIsPrefix

(***************************************************************************)
(* An accepted put that carries nothing that has taken effect adds these   *)
(* to what has.                                                            *)
(***************************************************************************)
LEMMA GrowsBy ==
    ASSUME NEW p \in Puts, applied \in [Ops -> Nat],
           IsFiniteSet({t \in Txns : applied[t] > 0}),
           ToSet(p.ops) \in SUBSET Txns, IsFiniteSet(ToSet(p.ops)),
           Unapplied(p, applied), NEW ap, ap = Bumped(applied, p)
    PROVE  /\ IsFiniteSet({t \in Txns : ap[t] > 0})
           /\ Cardinality({t \in Txns : ap[t] > 0})
                = Cardinality({t \in Txns : applied[t] > 0}) + Cardinality(ToSet(p.ops))
<1> DEFINE A == {t \in Txns : applied[t] > 0}
           B == ToSet(p.ops)
           N == {t \in Txns : ap[t] > 0}
<1>1. \A t \in Txns : /\ applied[t] \in Nat
                      /\ ap[t] = applied[t] + IF t \in B THEN 1 ELSE 0
  BY DEF Bumped, Ops
<1>2. \A t \in Txns : ap[t] > 0 <=> (applied[t] > 0 \/ t \in B)
  <2>1. ASSUME NEW t \in Txns PROVE ap[t] > 0 <=> (applied[t] > 0 \/ t \in B)
    <3> DEFINE x == applied[t]
               y == ap[t]
    <3>1. x \in Nat /\ y = x + IF t \in B THEN 1 ELSE 0
      BY <1>1
    <3> HIDE DEF x, y, B
    <3>2. y > 0 <=> (x > 0 \/ t \in B)
      <4>1. CASE t \in B
        BY <3>1, <4>1
      <4>2. CASE t \notin B
        BY <3>1, <4>2
      <4> QED BY <4>1, <4>2
    <3> QED BY <3>2 DEF x, y
  <2> QED BY <2>1
<1>3. N = A \cup B
  BY <1>2
<1>4. A \cap B = {}
  <2>1. \A t \in B : applied[t] = 0
    BY DEF Unapplied
  <2>2. \A t \in A : applied[t] > 0
    OBVIOUS
  <2>3. ~(0 > 0)
    OBVIOUS
  <2> QED BY <2>1, <2>2, <2>3
<1>5. IsFiniteSet(A) /\ IsFiniteSet(B)
  OBVIOUS
<1>6. /\ IsFiniteSet(A \cup B)
      /\ Cardinality(A \cup B) = Cardinality(A) + Cardinality(B) - Cardinality(A \cap B)
  <2> HIDE DEF A, B
  <2> QED BY <1>5, FS_Union
<1> DEFINE a == Cardinality(A)
           b == Cardinality(B)
           z == Cardinality(A \cap B)
           n == Cardinality(N)
<1>7. z = 0 /\ a \in Nat /\ b \in Nat
  <2>1. z = 0
    BY <1>4, FS_EmptySet
  <2> HIDE DEF A, B
  <2> QED BY <1>5, <2>1, FS_CardinalityType
<1>8. n = a + b - z
  BY <1>3, <1>6
<1> HIDE DEF a, b, z, n
<1>9. n = a + b
  BY <1>7, <1>8
<1> QED BY <1>3, <1>6, <1>9 DEF n, a, b

(***************************************************************************)
(* The news of an accepted put precede its answer; or, for a client that   *)
(* the server does not tell of changes, nothing that is on its way         *)
(* contradicts the put.                                                    *)
(***************************************************************************)
LEMMA PutHeard ==
    ASSUME Honoured, client.up # <<>>, IsPut(client.up[1]), client.up[1].put.hashed,
           client.up[1].put.hash = node, NEW v \in Int,
           NEW dn, dn = down \o Told(Counter, <<v>>)
    PROVE  Heard(client.cache, dn, Len(dn) + 1, v)
<1>0. /\ down \in Seq(DownMessages) /\ client \in Clients
      /\ Missing(client, down, node, applied) /\ Asks(client, down, served)
  BY ReadyFine
<1> DEFINE p == client.up[1].put
           x == client.cache
           n == Len(down)
<1>0a. n \in Nat
  BY <1>0
<1>1. CASE Counter \in served
  <2> DEFINE m == Data(Counter, <<v>>)
  <2>1. m \in DownMessages
    <3>1. <<v>> \in Nodes /\ Counter \in Queries
      BY DEF Nodes, Queries
    <3> QED BY <3>1, DataFacts
  <2>2. dn = Append(down, m)
    BY <1>0, <1>1, <2>1, ConcatOne DEF Told
  <2>3. Tells(m, v)
    BY DEF Tells
  <2> HIDE DEF m
  <2>4. Len(dn) = n + 1 /\ dn[n + 1] = m
    BY <1>0, <2>1, <2>2, AppendLast
  <2>5. n + 1 \in 1..(Len(dn) + 1)-1 /\ Calm(dn, n + 1, Len(dn) + 1, v)
    BY <1>0a, <2>4 DEF Calm
  <2> QED BY <2>3, <2>4, <2>5 DEF Heard
<1>2. CASE Counter \notin served
  <2>1. dn = down
    BY <1>0, <1>2 DEF Told
  <2>2. ASSUME NEW j \in Nat, Silent(down, j) PROVE Calm(down, j, n + 1, v)
    <3>1. \A i \in j+1..(n + 1)-1 : i \in j+1..Len(down)
      BY <1>0a
    <3> QED BY <2>2, <3>1 DEF Silent, Calm
  <2>3. CASE p.hash # <<>>
    <3>1. 1 \in 1..Len(client.up)
      <4>1. client.up \in Seq(UpMessages)
        BY <1>0 DEF Clients
      <4> QED BY <4>1, TailFacts
    <3>2. Asked(client.up, 1, x, down, served)
      BY <1>0, <2>3, <3>1 DEF Asks, UpAsked, Bearing
    <3>3. \A j \in 1..1-1 : FALSE
      OBVIOUS
    <3>4. Quiet(x, down)
      BY <1>2, <3>2, <3>3 DEF Asked, Known
    <3>5. CASE \E j \in 1..Len(down) : down[j] = Refusal /\ Silent(down, j)
      <4>1. PICK j \in 1..Len(down) : down[j] = Refusal /\ Silent(down, j)
        BY <3>5
      <4>2. j \in Nat /\ j \in 1..(n + 1)-1
        BY <1>0a
      <4>3. Calm(down, j, n + 1, v) /\ Tells(down[j], v)
        BY <2>2, <4>1, <4>2 DEF Tells
      <4> QED BY <2>1, <4>2, <4>3 DEF Heard
    <3>6. CASE x = <<>> /\ Silent(down, 0)
      <4>1. Calm(down, 0, n + 1, v) /\ Near(x, v)
        BY <2>2, <3>6 DEF Near
      <4> QED BY <2>1, <4>1 DEF Heard
    <3> QED BY <3>4, <3>5, <3>6 DEF Quiet
  <2>4. CASE p.hash = <<>>
    <3>1. /\ x = <<>>
          /\ \A i \in 1..Len(down) : IsNews(down[i]) => down[i].node = <<>>
      BY <1>0, <2>4 DEF Missing
    <3>2. \A i \in 0+1..(n + 1)-1 : i \in 1..Len(down)
      BY <1>0a
    <3>3. Calm(down, 0, n + 1, v) /\ Near(x, v)
      BY <3>1, <3>2 DEF Calm, Near
    <3> QED BY <2>1, <3>3 DEF Heard
  <2> QED BY <2>3, <2>4
<1> QED BY <1>1, <1>2

(***************************************************************************)
(* An accepted put of transactions leaves the counter at the count: its    *)
(* hash was the counter, so its value is the counter plus the number of    *)
(* its transactions, all of which take effect for the first time.          *)
(***************************************************************************)
LEMMA PutCounts ==
    ASSUME Honoured, NEW p \in Puts, TxnFor(client, p), Unapplied(p, applied), p.hash = node,
           ~overtaken => Good(p, node), Queued(client),
           node' = <<p.val>>, applied' = Bumped(applied, p), foreign' = foreign,
           overtaken' = overtaken
    PROVE  Counting'
<1>0. node \in Nodes /\ client \in Clients /\ applied \in [Ops -> Nat]
  BY Now DEF Honoured
<1> DEFINE ap == Bumped(applied, p)
           A == {t \in Txns : applied[t] > 0}
           N == {t \in Txns : ap[t] > 0}
           a == Cardinality(A)
           k == Cardinality(N)
           f == foreign.sum
           w == Val(node)
           l == Len(p.ops)
<1>1. f \in Int /\ IsFiniteSet(A) /\ (~overtaken => w = f + a)
  BY DEF Honoured, Counting, NothingOverwritten, Counted, Val
<1>2. /\ ToSet(p.ops) \in SUBSET Txns /\ IsFiniteSet(ToSet(p.ops))
      /\ Cardinality(ToSet(p.ops)) = l /\ l \in Nat
  BY <1>0, OpsCount
<1>3. IsFiniteSet(N) /\ k = a + l
  <2>1. ap = Bumped(applied, p)
    OBVIOUS
  <2> HIDE DEF ap
  <2> QED BY <1>0, <1>1, <1>2, <2>1, GrowsBy
<1>4. ~overtaken => p.val = w + l
  BY DEF Good
<1>5. Val(node') = p.val
  BY DEF Val
<1>6. Counting' <=> f \in Int /\ IsFiniteSet(N) /\ (~overtaken => Val(node') = f + k)
  BY DEF Counting, NothingOverwritten, Counted, Val
<1>7. a \in Int /\ w \in Int /\ p.val \in Int
  BY <1>0, <1>1, BlockInt, FS_CardinalityType DEF Puts
<1> DEFINE v == p.val
<1>8. Val(node') = v /\ (~overtaken => v = w + l)
  BY <1>4, <1>5
<1> HIDE DEF A, N, a, k, f, w, l, v
<1>9. ~overtaken => v = f + k
  BY <1>1, <1>2, <1>3, <1>7, <1>8
<1> QED BY <1>1, <1>3, <1>6, <1>8, <1>9

(***************************************************************************)
(* The put that the server takes: it is outstanding; one of transactions   *)
(* stands for the head of the queue and none of them has taken effect.     *)
(***************************************************************************)
LEMMA PutTakenFine ==
    ASSUME Honoured, NEW m, Taken(m), m.kind = "put"
    PROVE  /\ m \in UpMessages /\ m.put \in Puts /\ client.up # <<>> /\ m = client.up[1]
           /\ m # Listen(Counter)
           /\ \E i \in 1..Len(client.puts) : client.puts[i].put = m.put
           /\ m.put.hashed => TxnFor(client, m.put) /\ Unapplied(m.put, applied)
           /\ ~m.put.hashed => \A t \in Txns : t \notin ToSet(m.put.ops)
           /\ Queued(client)
<1>0. /\ client.putsToAck \in Seq(AckOf) /\ Inv
      /\ Sound(client, client.puts, client.putsToAck, 1..Len(client.putsToAck), applied)
      /\ Wire(client, down, applied)
  BY Now DEF Honoured, Conn
<1> DEFINE p == m.put
<1>1. /\ m = client.up[1] /\ 1 \in 1..Len(client.up) /\ client.up # <<>> /\ m \in UpMessages
  BY <1>0, TakenFields
<1>2. IsPut(m)
  BY DEF IsPut
<1>3. /\ p \in Puts /\ Stands(client, p)
      /\ \E i \in 1..Len(client.puts) : client.puts[i].put = p /\ client.puts[i].sent
      /\ p.hashed => Unapplied(p, applied)
      /\ ~p.hashed => \E w \in Writes : p = WritePut(w) /\ client.result[w] = "pending"
  BY <1>0, <1>1, <1>2, PutTaken
<1>4. m # Listen(Counter)
  BY DEF Listen
<1>5. p.hashed => TxnFor(client, p)
  BY <1>3, WritePutType DEF Stands, WriteFor
<1>6. ~p.hashed => \A t \in Txns : t \notin ToSet(p.ops)
  <2>1. ASSUME ~p.hashed PROVE \A t \in Txns : t \notin ToSet(p.ops)
    <3>1. PICK w \in Writes : p = WritePut(w)
      BY <1>3, <2>1
    <3> QED BY <3>1, WritePutType
  <2> QED BY <2>1
<1>7. Queued(client)
  BY <1>0 DEF Sound
<1> QED BY <1>1, <1>3, <1>4, <1>5, <1>6, <1>7

(***************************************************************************)
(* Refusing a put, or finding it stale, keeps the strengthening.           *)
(***************************************************************************)
LEMMA RefusedFine ==
    ASSUME Honoured, NEW m, Taken(m), m.kind = "put", NEW s \in Replies, s # "ok",
           down' = Append(down, Reply(m, s)), served' = served, node' = node, applied' = applied
    PROVE  FineNow' /\ Counting'
<1>0. /\ down \in Seq(DownMessages) /\ Inv /\ Missing(client, down, node, applied)
      /\ ~overtaken => AllHeard(client.cache, down) /\ AllGood(client.puts, node)
  BY ReadyFine
<1>1. m # Listen(Counter) /\ m \in UpMessages
  BY PutTakenFine
<1>2. ~IsOk(Reply(m, s))
  BY <1>1, ReplyFacts DEF IsOk
<1>3. FineNow'
  BY <1>0, <1>1, <1>2, AnsweredFine
<1>4. foreign' = foreign /\ overtaken' = overtaken
  BY <1>0, TakenCache
<1> QED BY <1>3, <1>4, SameCounting DEF Honoured

(***************************************************************************)
(* So does accepting a write.                                              *)
(***************************************************************************)
LEMMA WrittenFine ==
    ASSUME Honoured, NEW m, Taken(m), m.kind = "put", ~m.put.hashed,
           down' = Append(down, Reply(m, "ok")), served' = served, node' = node,
           applied' = Bumped(applied, m.put)
    PROVE  FineNow' /\ Counting'
<1>0. /\ down \in Seq(DownMessages) /\ Inv /\ Missing(client, down, node, applied)
      /\ ~overtaken => AllHeard(client.cache, down) /\ AllGood(client.puts, node)
      /\ applied \in [Ops -> Nat]
  BY ReadyFine, Now
<1>1. /\ m # Listen(Counter) /\ m \in UpMessages
      /\ \A t \in Txns : t \notin ToSet(m.put.ops)
  BY PutTakenFine
<1>2. "ok" \in Replies
  BY DEF Replies
<1>3. ~IsOk(Reply(m, "ok"))
  BY <1>1, <1>2, ReplyFacts DEF IsOk
<1> DEFINE ap == Bumped(applied, m.put)
<1>4. \A t \in Txns : ap[t] = applied[t]
  <2>1. \A t \in Txns : /\ ap[t] = applied[t] + IF t \in ToSet(m.put.ops) THEN 1 ELSE 0
                        /\ applied[t] \in Nat
    BY <1>0 DEF Bumped, Ops
  <2> HIDE DEF ap
  <2> QED BY <1>1, <2>1
<1>5. applied' = ap
  OBVIOUS
<1> HIDE DEF ap
<1>6. Missing(client, down, node, ap)
  BY <1>0, <1>4 DEF Missing
<1>7. FineNow'
  BY <1>0, <1>1, <1>2, <1>3, <1>5, <1>6, AnsweredFine
<1>8. foreign' = foreign /\ overtaken' = overtaken
  BY <1>0, TakenCache
<1>9. Counting'
  <2>1. {t \in Txns : ap[t] > 0} = {t \in Txns : applied[t] > 0}
    BY <1>4
  <2>2. Counting
    BY DEF Honoured
  <2> QED BY <1>5, <1>8, <2>1, <2>2 DEF Counting, NothingOverwritten, Counted
<1> QED BY <1>7, <1>9

(***************************************************************************)
(* So does accepting transactions.                                         *)
(***************************************************************************)
LEMMA CountedFine ==
    ASSUME Honoured, NEW m, Taken(m), m.kind = "put", m.put.hashed, m.put.hash = node,
           served' = served, node' = <<m.put.val>>, applied' = Bumped(applied, m.put),
           down' = (down \o Told(Counter, <<m.put.val>>)) \o <<Reply(m, "ok")>>
    PROVE  FineNow' /\ Counting'
<1>0. Inv /\ (~overtaken => AllGood(client.puts, node))
  BY ReadyFine
<1> DEFINE p == m.put
           v == p.val
           dn == down \o Told(Counter, <<v>>)
           nd == <<v>>
           ap == Bumped(applied, p)
<1>1. /\ m \in UpMessages /\ p \in Puts /\ client.up # <<>> /\ m = client.up[1]
      /\ m # Listen(Counter) /\ TxnFor(client, p) /\ Unapplied(p, applied) /\ Queued(client)
  BY PutTakenFine
<1>2. PICK i \in 1..Len(client.puts) : client.puts[i].put = p
  BY PutTakenFine
<1>3. v \in Int /\ IsPut(client.up[1]) /\ client.up[1].put = p
  BY <1>1 DEF Puts, IsPut
<1>4. ~overtaken => Good(p, node)
  BY <1>0, <1>2 DEF AllGood
<1>5. foreign' = foreign /\ overtaken' = overtaken
  BY <1>0, TakenCache
<1>6. Counting'
  BY <1>1, <1>4, <1>5, PutCounts
<1>7. /\ dn = down \o Told(Counter, <<v>>) /\ node' = nd /\ applied' = ap /\ nd = <<v>>
      /\ down' = dn \o <<Reply(m, "ok")>> /\ p.hashed /\ p.hash = node /\ p = m.put /\ v = p.val
  OBVIOUS
<1> HIDE DEF p, v, dn, nd, ap
<1>8. /\ dn \in Seq(DownMessages) /\ Missing(client, dn, nd, ap)
      /\ Known(client.cache, down, served) => Known(client.cache, dn, served)
      /\ ~overtaken => AllHeard(client.cache, dn) /\ AllGood(client.puts, nd)
  BY <1>3, <1>7, ToldFine
<1>9. Heard(client.cache, dn, Len(dn) + 1, v)
  BY <1>1, <1>3, <1>7, PutHeard
<1>10. down' = Append(dn, Reply(m, "ok")) /\ "ok" \in Replies
  <2>1. "ok" \in Replies
    BY DEF Replies
  <2>2. Reply(m, "ok") \in DownMessages
    BY <1>1, <2>1, ReplyFacts
  <2> QED BY <1>7, <1>8, <2>1, <2>2, ConcatOne
<1>11. Heard(client.cache, dn, Len(dn) + 1, m.put.val)
  BY <1>7, <1>9
<1>12. FineNow'
  <2>1. node' = nd /\ applied' = ap /\ m # Listen(Counter)
    BY <1>1, <1>7
  <2> DEFINE s == "ok"
  <2>2. down' = Append(dn, Reply(m, s)) /\ s \in Replies
    BY <1>10
  <2> HIDE DEF s
  <2> QED BY <1>8, <1>11, <2>1, <2>2, AnsweredFine
<1> QED BY <1>6, <1>12

(***************************************************************************)
(* So does answering a put.                                                *)
(***************************************************************************)
LEMMA ServePutFine ==
    ASSUME Honoured, NEW m, ServePut(m) PROVE FineNow' /\ Counting'
<1> DEFINE p == m.put
<1>0. down \in Seq(DownMessages)
  BY ReadyFine
<1>1. /\ m.kind = "put" /\ served' = served
      /\ \/ /\ p.hashed => p.hash = node
            /\ Accepted(m) /\ applied' = Bumped(applied, p)
            /\ node' = IF p.hashed THEN <<p.val>> ELSE node
            /\ down' = down \o (IF p.hashed THEN Told(Counter, node') ELSE <<>>)
                            \o <<Reply(m, "ok")>>
         \/ /\ Accepted(m) /\ down' = Append(down, Reply(m, "datastale"))
            /\ node' = node /\ applied' = applied
         \/ Denied(m) /\ node' = node /\ applied' = applied
  BY DEF ServePut, Bumped
<1>2. Taken(m) /\ "ok" \in Replies /\ "denied" \in Replies /\ "datastale" \in Replies
  BY <1>1 DEF Accepted, Denied, Replies
<1>3. CASE /\ p.hashed => p.hash = node
           /\ Accepted(m) /\ applied' = Bumped(applied, p)
           /\ node' = IF p.hashed THEN <<p.val>> ELSE node
           /\ down' = down \o (IF p.hashed THEN Told(Counter, node') ELSE <<>>)
                            \o <<Reply(m, "ok")>>
  <2>1. CASE p.hashed
    <3>1. /\ p.hash = node /\ node' = <<p.val>> /\ applied' = Bumped(applied, p)
          /\ down' = (down \o Told(Counter, <<p.val>>)) \o <<Reply(m, "ok")>>
      BY <1>3, <2>1
    <3> QED BY <1>1, <1>2, <2>1, <3>1, CountedFine
  <2>2. CASE ~p.hashed
    <3>1. /\ node' = node /\ applied' = Bumped(applied, p)
          /\ down' = (down \o <<>>) \o <<Reply(m, "ok")>>
      BY <1>3, <2>2
    <3>2. Reply(m, "ok") \in DownMessages
      <4>1. m \in UpMessages
        BY <1>1, <1>2, PutTakenFine
      <4> QED BY <1>2, <4>1, ReplyFacts
    <3>3. down' = Append(down, Reply(m, "ok"))
      BY <1>0, <3>1, <3>2, ConcatOne
    <3> QED BY <1>1, <1>2, <2>2, <3>1, <3>3, WrittenFine
  <2> QED BY <2>1, <2>2
<1>4. CASE /\ Accepted(m) /\ down' = Append(down, Reply(m, "datastale"))
           /\ node' = node /\ applied' = applied
  BY <1>1, <1>2, <1>4, RefusedFine
<1>5. CASE Denied(m) /\ node' = node /\ applied' = applied
  <2>1. down' = Append(down, Reply(m, "denied"))
    BY <1>5 DEF Denied
  <2> QED BY <1>1, <1>2, <1>5, <2>1, RefusedFine
<1> QED BY <1>1, <1>3, <1>4, <1>5

-----------------------------------------------------------------------------
(***************************************************************************)
(* No message of the server makes the client forget that a read above the  *)
(* counter has told of it.                                                 *)
(***************************************************************************)
LEMMA MessageReread ==
    ASSUME Inv, onDataMessage, client.reread PROVE client'.reread
<1> DEFINE m == Head(down)
<1>0. /\ client \in Clients /\ down \in Seq(DownMessages) /\ down # <<>>
      /\ Sound(client, client.puts, client.putsToAck, 1..Len(client.putsToAck), applied)
      /\ IsFiniteSet(client.listens) /\ Refusals
  BY Now DEF onDataMessage, Inv
<1>1. m = down[1] /\ m \in DownMessages /\ 1 \in 1..Len(down)
  BY <1>0, TailFacts
<1>2. CASE onAuth(m)
  <2>1. CASE \E order \in SetToSeqs(client.listens) : client' = restoreState(client, order)
    <3>1. PICK order \in SetToSeqs(client.listens) : client' = restoreState(client, order)
      BY <2>1
    <3> QED BY <1>0, <3>1, RestoreFields DEF SameQueue
  <2>2. CASE /\ m.status # "ok" /\ client' = Disconnected(client)
             /\ down' = <<>> /\ served' = {} /\ breaks' = breaks + 1
             /\ UNCHANGED <<node, applied, foreign, reads, denials>>
    <3>1. IsAuthReply(m)
      BY <1>2 DEF onAuth, IsAuthReply
    <3>2. breaks < MaxBreaks
      BY <1>0, <1>1, <2>2, <3>1 DEF Refusals
    <3>3. Breaks
      BY <2>2, <3>2 DEF Breaks
    <3> QED BY <3>3, BreakFacts DEF Cut
  <2> QED BY <1>2, <2>1, <2>2 DEF onAuth
<1>3. CASE onData(m)
  <2>1. client' \in DataUpdate(client, m.query, m.node) /\ m.kind = "data"
    BY <1>3 DEF onData
  <2>2. m.query \in Queries /\ m.node \in Nodes
    BY <1>1, <2>1 DEF DownMessages
  <2> DEFINE a == client.putsToAck
             K == 1..Len(a)
             O == client.over \cup {m.query}
  <2>3. Sound(client, client.puts, a, K, applied)
    BY <1>0
  <2> HIDE DEF a, K, m
  <2>4. \/ client' = client
        \/ client' = [client EXCEPT !.cache = m.node]
        \/ client' = [client EXCEPT !.over = O]
        \/ m.query \in Reads /\ client' \in Taught(client, m.query, m.node)
    BY <1>0, <2>1, <2>2, DataUpdateIs
  <2>5. m.query \in Reads /\ client' \in Taught(client, m.query, m.node) => client'.reread
    BY <2>2, <2>3, TaughtFields
  <2> HIDE DEF O
  <2>6. client' = [client EXCEPT !.cache = m.node] => client'.reread
    BY <1>0 DEF Clients
  <2>7. client' = [client EXCEPT !.over = O] => client'.reread
    BY <1>0 DEF Clients
  <2> QED BY <2>4, <2>5, <2>6, <2>7
<1>4. CASE onListenReply(m)
  BY <1>0, <1>4, OnListenReplyStep
<1>5. CASE onPutReply(m)
  BY <1>0, <1>5, OnPutReplyStep
<1> QED BY <1>2, <1>3, <1>4, <1>5 DEF onDataMessage

(***************************************************************************)
(* Nor does any other step.                                                *)
(***************************************************************************)
LEMMA RereadStays ==
    ASSUME Inv, [Next]_vars, client.reread PROVE client'.reread
<1>0. client \in Clients /\ IsFiniteSet(client.listens)
  BY Now
<1>1. CASE \E w \in Writes : setValue(w)
  BY <1>1, SetValueStep
<1>2. CASE \E t \in Txns : startTransaction(t)
  BY <1>2, StartTransactionStep
<1>3. ASSUME NEW q \in Reads, observeSingleEvent(q) PROVE client'.reread
  <2>1. client' = listen(client, q) /\ q \in Queries
    BY <1>3 DEF observeSingleEvent, Queries
  <2> QED BY <1>0, <2>1, ListenFields DEF SameBut, SameQueue
<1>4. ASSUME NEW q \in Queries, removeObserver(q) PROVE client'.reread
  <2> DEFINE n == IF Lost(client, q) THEN <<>> ELSE client.cache
  <2>1. q \in client.listens /\ client' = Unobserved(client, q, n)
    BY <1>0, <1>4 DEF removeObserver, Unobserved, unlisten, Send, Clients
  <2>2. n \in Nodes
    <3>1. client.cache \in Nodes /\ <<>> \in Nodes
      BY <1>0 DEF Clients, Nodes
    <3> QED BY <3>1
  <2> HIDE DEF n
  <2> QED BY <1>0, <2>1, <2>2, UnlistenFields DEF SameQueue
<1>5. CASE tryScheduleReconnect
  BY <1>0, <1>5 DEF tryScheduleReconnect, Clients
<1>6. CASE onReady
  <2>1. CASE client' = Send([client EXCEPT !.state = "authenticating"], Auth)
    <3> DEFINE up == Append(client.up, Auth)
    <3>1. client' = [client EXCEPT !.state = "authenticating", !.up = up]
      BY <1>0, <2>1 DEF Send, Clients
    <3> HIDE DEF up
    <3> QED BY <1>0, <3>1 DEF Clients
  <2>2. CASE \E order \in SetToSeqs(client.listens) : client' = restoreState(client, order)
    <3>1. PICK order \in SetToSeqs(client.listens) : client' = restoreState(client, order)
      BY <2>2
    <3> QED BY <1>0, <3>1, RestoreFields DEF SameQueue
  <2> QED BY <1>6, <2>1, <2>2 DEF onReady
<1>7. CASE onDisconnect
  <2>1. Breaks
    BY <1>7 DEF onDisconnect, Breaks
  <2> QED BY <2>1, BreakFacts DEF Cut
<1>8. CASE onDataMessage
  BY <1>8, MessageReread
<1>9. CASE ServerStep
  <2>1. \E m : Taken(m)
    BY <1>9 DEF ServerStep, ServeAuth, ServeListen, ServeUnlisten, ServePut, Accepted, Denied
  <2>2. PICK m : Taken(m)
    BY <2>1
  <2> QED BY <2>2, TakenFields DEF SameQueue
<1>10. CASE \E d \in {1, -1} : ForeignChange(d)
  BY <1>10 DEF ForeignChange
<1>11. CASE UNCHANGED vars
  BY <1>11 DEF vars
<1> QED BY <1>1, <1>2, <1>3, <1>4, <1>5, <1>6, <1>7, <1>8, <1>9, <1>10, <1>11 DEF Next

(***************************************************************************)
(* Every step that is no read above the counter keeps Honoured.            *)
(***************************************************************************)
LEMMA HonouredStep ==
    ASSUME Honoured, [Next]_vars, ~client'.reread PROVE Honoured'
<1>0. Inv' /\ ~client'.reread
  BY InvStep DEF Honoured
<1>1. CASE \E w \in Writes : setValue(w)
  BY <1>0, <1>1, SetValueFine DEF Honoured
<1>2. CASE \E t \in Txns : startTransaction(t)
  BY <1>0, <1>2, StartTransactionFine DEF Honoured
<1>3. CASE \E q \in Reads : observeSingleEvent(q)
  BY <1>0, <1>3, ObserveFine DEF Honoured
<1>4. CASE \E q \in Queries : removeObserver(q)
  BY <1>0, <1>4, RemoveObserverFine DEF Honoured
<1>5. CASE tryScheduleReconnect
  BY <1>0, <1>5, ReconnectFine DEF Honoured
<1>6. CASE onReady
  BY <1>0, <1>6, OnReadyFine DEF Honoured
<1>7. CASE onDisconnect
  BY <1>0, <1>7, OnDisconnectFine DEF Honoured
<1>8. CASE onDataMessage
  BY <1>0, <1>8, OnDataMessageFine DEF Honoured
<1>9. CASE ServerStep
  <2>1. FineNow' /\ Counting'
    BY <1>9, ServeAuthFine, ServeListenFine, ServeUnlistenFine, ServePutFine DEF ServerStep
  <2> QED BY <1>0, <2>1 DEF Honoured
<1>10. CASE \E d \in {1, -1} : ForeignChange(d)
  BY <1>0, <1>10, ForeignFine DEF Honoured
<1>11. CASE UNCHANGED vars
  <2>1. FineNow' /\ Counting'
    BY <1>11 DEF vars, Honoured, FineNow, Counting, NothingOverwritten, Counted
  <2> QED BY <1>0, <2>1 DEF Honoured
<1> QED BY <1>1, <1>2, <1>3, <1>4, <1>5, <1>6, <1>7, <1>8, <1>9, <1>10, <1>11 DEF Next

(***************************************************************************)
(* Every step keeps the inductive invariant.                               *)
(***************************************************************************)
LEMMA KeptStep ==
    ASSUME Kept, [Next]_vars PROVE Kept'
<1>1. Inv /\ Inv'
  BY InvStep DEF Kept
<1>2. ASSUME ~client'.reread PROVE Honoured'
  <2>1. ~client.reread
    BY <1>1, <1>2, RereadStays
  <2>2. Honoured
    BY <2>1 DEF Kept
  <2> QED BY <1>2, <2>2, HonouredStep
<1> QED BY <1>1, <1>2 DEF Kept

(***************************************************************************)
(* What runTransactionBlock promises can be broken in two ways only: news  *)
(* of the counter overtake an acceptance that is held back for a listen    *)
(* (ackPuts in FPersistentConnection), or a read above the counter is      *)
(* answered while it is watched and re-runs what waits behind a            *)
(* transaction that is out (onDataUpdate in FRepo).  Until one of them     *)
(* happens the counter is what the transactions of this client that took   *)
(* effect and the changes of other devices add up to: nothing of either is *)
(* overwritten, through breaks, stale data, retries and refusals.          *)
(***************************************************************************)
THEOREM Overwriting == Spec => []OverwrittenOnlyWhenOvertaken
<1>1. Init => Kept
  <2>1. Init => ~client.reread
    BY DEF Init
  <2> QED BY <2>1, InvInit, HonouredInit DEF Kept, Honoured
<1>2. Kept /\ [Next]_vars => Kept'
  BY KeptStep
<1>3. Kept => OverwrittenOnlyWhenOvertaken
  BY DEF Kept, Honoured, Counting, OverwrittenOnlyWhenOvertaken
<1> QED BY <1>1, <1>2, <1>3, PTL DEF Spec
=============================================================================
