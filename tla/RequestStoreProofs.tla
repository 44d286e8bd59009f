-------------------------- MODULE RequestStoreProofs ------------------------
(***************************************************************************)
(* Proofs about RequestStore, for every set of requests, statuses,         *)
(* languages and row identities: the cache holds no request twice, or      *)
(* heals; it mirrors what was fetched; its badges and its locale tell the  *)
(* truth; and it implements ShownRequests.  Each of these groups has an    *)
(* inductive invariant of its own, on top of the first, IInv.              *)
(***************************************************************************)
EXTENDS RequestStoreRefinement, FiniteSetTheorems, TLAPS

(***************************************************************************)
(* Facts about tables and lists that the actions need.                     *)
(***************************************************************************)
LEMMA TableFacts ==
    /\ NoRows \in Table
    /\ NoRequests \in RequestList
    /\ \A t \in Table, x \in Objs : t[x] # Absent => t[x] \in Row
    /\ \A t \in Table, x \in Objs : [t EXCEPT ![x] = Absent] \in Table
    /\ \A t \in Table, x \in Objs, r \in Row : [t EXCEPT ![x] = r] \in Table
    /\ \A l \in RequestList, i \in Ids :
           [l EXCEPT ![i] = Absent] \in RequestList
  BY DEF NoRows, NoRequests, Table, RequestList

(***************************************************************************)
(* Clearing isNew of a present row leaves a row with the same id, status   *)
(* and language.                                                           *)
(***************************************************************************)
LEMMA MarkOld ==
    ASSUME NEW t \in Table, NEW x \in Present(t),
           NEW u, u = [t EXCEPT ![x].isNew = FALSE]
    PROVE  /\ u \in Table
           /\ Present(u) = Present(t)
           /\ \A y \in Present(t) : /\ u[y].id = t[y].id
                                    /\ u[y].status = t[y].status
                                    /\ u[y].lang = t[y].lang
  <1> DEFINE r == [t[x] EXCEPT !.isNew = FALSE]
  <1>1. x \in Objs /\ t[x] \in Row
    BY DEF Present, Table
  <1>2. /\ r \in Row
        /\ r.id = t[x].id /\ r.status = t[x].status /\ r.lang = t[x].lang
    BY <1>1 DEF Row
  <1>3. u = [t EXCEPT ![x] = r]
    OBVIOUS
  <1>4. r # Absent
    BY <1>2, AbsentAssumption
  <1>5. /\ u \in Table /\ u[x] = r
        /\ \A y \in Objs \ {x} : u[y] = t[y]
    BY <1>1, <1>2, <1>3 DEF Table
  <1>6. Present(u) = Present(t)
    BY <1>4, <1>5, <1>1 DEF Present
  <1> HIDE DEF r
  <1>7. \A y \in Present(t) : /\ u[y].id = t[y].id
                              /\ u[y].status = t[y].status
                              /\ u[y].lang = t[y].lang
    BY <1>2, <1>5 DEF Present
  <1> QED
    BY <1>5, <1>6, <1>7

-----------------------------------------------------------------------------
(***************************************************************************)
(* What each helper of CDHandler does to the types.                        *)
(***************************************************************************)
LEMMA SaveType ==
    ASSUME TypeOK, NEW i \in Ids, NEW s \in Statuses, saveRequest(i, s)
    PROVE  ctx' \in Table /\ disk' \in Table
  <1>1. PICK x \in Objs : ctx' = [ctx EXCEPT ![x] =
            [id |-> i, status |-> s, isNew |-> TRUE, lang |-> locale]]
    BY DEF saveRequest
  <1>2. [id |-> i, status |-> s, isNew |-> TRUE, lang |-> locale] \in Row
    BY DEF Row, TypeOK
  <1>3. ctx' \in Table
    BY <1>1, <1>2, TableFacts DEF TypeOK
  <1> QED
    BY <1>3 DEF saveRequest, ContextSave, TypeOK

LEMMA DeleteType ==
    ASSUME TypeOK, NEW i \in Ids, deleteRequest(i)
    PROVE  /\ ctx' \in Table /\ disk' \in Table
           /\ fetchErrors' \in Nat
  <1>1. ctx' \in Table
    BY TableFacts DEF deleteRequest, FetchById, Present, TypeOK
  <1> QED
    BY <1>1 DEF deleteRequest, ContextSave, FetchReturns, FetchThrows, TypeOK

LEMMA MarkType ==
    ASSUME TypeOK, NEW i \in Ids, markRequestAsOld(i)
    PROVE  /\ ctx' \in Table /\ disk' \in Table
           /\ fetchErrors' \in Nat
  <1>1. ctx' \in Table
    <2>1. \A x \in FetchById(i) : [ctx EXCEPT ![x].isNew = FALSE] \in Table
      BY MarkOld DEF FetchById, TypeOK
    <2> QED
      BY <2>1 DEF markRequestAsOld, TypeOK
  <1> QED
    BY <1>1 DEF markRequestAsOld, ContextSave, FetchReturns, FetchThrows,
                TypeOK

(***************************************************************************)
(* Every step keeps the types.                                             *)
(***************************************************************************)
LEMMA TypeInductive == TypeOK /\ [Next]_vars => TypeOK'
  <1> SUFFICES ASSUME TypeOK, [Next]_vars PROVE TypeOK'
    OBVIOUS
  <1>1. ASSUME NEW l \in Locales, Launch(l) PROVE TypeOK'
    BY <1>1, TableFacts
    DEF Launch, loadAllRequests, FetchReturns, FetchThrows, TypeOK
  <1>2. ASSUME NEW f \in RequestList, BeginUpdate(f) PROVE TypeOK'
    BY <1>2, TableFacts
    DEF BeginUpdate, loadAllRequests, FetchReturns, FetchThrows, TypeOK,
        Healths
  <1>3. ASSUME NEW x \in Objs, LeaveMatching(x) PROVE TypeOK'
    <2>1. oldRequests[x].id \in Ids
      BY <1>3, TableFacts DEF LeaveMatching, TypeOK, Row
    <2>2. ctx' \in Table /\ disk' \in Table /\ fetchErrors' \in Nat
      BY <1>3, <2>1, MarkType DEF LeaveMatching, TypeOK
    <2> QED
      BY <1>3, <2>1, <2>2, TableFacts
      DEF LeaveMatching, NoteFetch, TypeOK, Healths
  <1>4. ASSUME NEW x \in Objs, DeleteOld(x) PROVE TypeOK'
    <2>1. oldRequests[x].id \in Ids
      BY <1>4, TableFacts DEF DeleteOld, TypeOK, Row
    <2>2. ctx' \in Table /\ disk' \in Table /\ fetchErrors' \in Nat
      BY <1>4, <2>1, DeleteType DEF DeleteOld
    <2> QED
      BY <1>4, <2>2, TableFacts DEF DeleteOld, NoteFetch, TypeOK, Healths
  <1>5. ASSUME NEW i \in Ids, SaveNew(i) PROVE TypeOK'
    <2>1. newRequests[i] \in Statuses
      BY <1>5 DEF SaveNew, TypeOK, RequestList
    <2>2. ctx' \in Table /\ disk' \in Table
      BY <1>5, <2>1, SaveType DEF SaveNew
    <2> QED
      BY <1>5, <2>2, TableFacts DEF SaveNew, TypeOK
  <1>6. CASE FinishUpdate
    <2>1. tainted' \in BOOLEAN
      BY <1>6 DEF FinishUpdate, TypeOK
    <2> QED
      BY <1>6, <2>1, TableFacts
      DEF FinishUpdate, loadAllRequests, FetchReturns, FetchThrows, TypeOK,
          Healths
  <1>7. CASE Crash
    BY <1>7, TableFacts DEF Crash, TypeOK, Healths
  <1>8. CASE UNCHANGED vars
    BY <1>8 DEF vars, TypeOK
  <1> QED
    BY <1>1, <1>2, <1>3, <1>4, <1>5, <1>6, <1>7, <1>8 DEF Next, UpdateStep

(***************************************************************************)
(* The initial state has the types.                                        *)
(***************************************************************************)
LEMMA TypeInit == Init => TypeOK
  <1> SUFFICES ASSUME Init PROVE TypeOK
    OBVIOUS
  <1>1. changedLocale \in BOOLEAN /\ tainted \in BOOLEAN
    BY Zenon DEF Init
  <1> QED
    BY <1>1, TableFacts DEF Init, TypeOK, Healths

(***************************************************************************)
(* Type correctness: every step of the cache keeps every row a well formed *)
(* row and every list a list, whatever fetches and saves throw.            *)
(***************************************************************************)
THEOREM TypeCorrect == Spec => []TypeOK
  BY TypeInit, TypeInductive, PTL DEF Spec

-----------------------------------------------------------------------------
(***************************************************************************)
(* The inductive invariant.  Healthy: since the last fetch that threw, an  *)
(* update has run to its end without a throw.                              *)
(***************************************************************************)
Healthy == health \in {"unique", "exact"}

(***************************************************************************)
(* The rows whose id is i.                                                 *)
(***************************************************************************)
RowsOf(t, i) == {x \in Present(t) : t[x].id = i}

(***************************************************************************)
(* Uniqueness: in the context while healthy, on disk while no fetch has    *)
(* thrown or the process is down and healthy.                              *)
(***************************************************************************)
Uniqueness ==
    /\ fetchErrors = 0 => health = "exact" /\ UniqueIds(disk)
    /\ Healthy => UniqueIds(ctx)
    /\ pc = "off" /\ Healthy => UniqueIds(disk)

(***************************************************************************)
(* During a healthy update: an unprocessed old request is still a row, and *)
(* only an unprocessed row has the id of a request that is still to save.  *)
(***************************************************************************)
OldAreRows ==
    \A x \in Present(oldRequests) :
        /\ x \in Present(ctx)
        /\ ctx[x].id = oldRequests[x].id
        /\ ctx[x].status = oldRequests[x].status

NewAreUnsaved ==
    \A x \in Present(ctx) :
        newRequests[ctx[x].id] # Absent => oldRequests[x] # Absent

(***************************************************************************)
(* During a healthy update: a processed row is as fetched, what is left to *)
(* save is as fetched, and the rest of the fetched list has its rows.      *)
(***************************************************************************)
DoneAsFetched ==
    \A x \in Present(ctx) :
        oldRequests[x] = Absent => fetched[ctx[x].id] = ctx[x].status

NewAsFetched ==
    \A i \in Ids : newRequests[i] # Absent => newRequests[i] = fetched[i]

FetchedCovered ==
    \A i \in Ids :
        fetched[i] # Absent /\ newRequests[i] = Absent =>
            \E x \in Present(ctx) : ctx[x].id = i /\ oldRequests[x] = Absent

HealthyUpdate ==
    /\ OldAreRows
    /\ NewAreUnsaved
    /\ DoneAsFetched
    /\ NewAsFetched
    /\ FetchedCovered

(***************************************************************************)
(* During a healing update rows may be duplicated, but they are counted:   *)
(* a request has one row per unprocessed old copy of it, plus one if it    *)
(* has been matched or saved.                                              *)
(***************************************************************************)
HealingUpdate ==
    \A i \in Ids :
        Cardinality(RowsOf(ctx, i)) =
            Cardinality(RowsOf(oldRequests, i))
            + IF fetched[i] # Absent /\ newRequests[i] = Absent THEN 1 ELSE 0

IInv ==
    /\ TypeOK
    /\ Uniqueness
    /\ pc = "update" /\ Healthy => HealthyUpdate
    /\ pc = "update" /\ health = "suspect" => NewAsFetched /\ HealingUpdate
    /\ pc = "synced" /\ health = "exact" => Mirrors(ctx, fetched)
    /\ pc = "synced" => \/ userRequests = ctx
                        \/ fetchErrors > 0 /\ userRequests = NoRows

-----------------------------------------------------------------------------
(***************************************************************************)
(* What the helpers do to the context and the disk.                        *)
(***************************************************************************)
LEMMA MarkEffect ==
    ASSUME TypeOK, NEW i \in Ids, markRequestAsOld(i)
    PROVE  /\ Present(ctx') = Present(ctx)
           /\ \A x \in Present(ctx) : /\ ctx'[x].id = ctx[x].id
                                      /\ ctx'[x].status = ctx[x].status
           /\ disk' = ctx' \/ disk' = disk
  <1>1. CASE ctx' = ctx
    BY <1>1 DEF markRequestAsOld, ContextSave
  <1>2. CASE \E x \in FetchById(i) : ctx' = [ctx EXCEPT ![x].isNew = FALSE]
    <2>1. PICK x \in Present(ctx) : ctx' = [ctx EXCEPT ![x].isNew = FALSE]
      BY <1>2 DEF FetchById
    <2> DEFINE w == [ctx EXCEPT ![x].isNew = FALSE]
    <2>2. ctx \in Table
      BY DEF TypeOK
    <2>3. disk' = ctx' \/ disk' = disk
      BY DEF markRequestAsOld, ContextSave
    <2>4. /\ Present(w) = Present(ctx)
          /\ \A y \in Present(ctx) : /\ w[y].id = ctx[y].id
                                     /\ w[y].status = ctx[y].status
      BY <2>2, MarkOld
    <2>5. ctx' = w
      BY <2>1
    <2> HIDE DEF w
    <2> QED
      BY <2>3, <2>4, <2>5
  <1> QED
    BY <1>1, <1>2 DEF markRequestAsOld

LEMMA DeleteEffect ==
    ASSUME TypeOK, NEW i \in Ids, deleteRequest(i), fetchErrors' = fetchErrors
    PROVE  /\ \/ RowsOf(ctx, i) = {} /\ ctx' = ctx
              \/ \E x \in RowsOf(ctx, i) : ctx' = [ctx EXCEPT ![x] = Absent]
           /\ disk' = ctx' \/ disk' = disk
  <1>1. ~FetchThrows
    BY DEF FetchThrows, TypeOK
  <1> QED
    BY <1>1 DEF deleteRequest, ContextSave, FetchById, RowsOf

(***************************************************************************)
(* A table without one of its rows, and with one row more.                 *)
(***************************************************************************)
LEMMA WithoutRow ==
    \A t \in Table : \A x \in Present(t) :
        /\ Present([t EXCEPT ![x] = Absent]) = Present(t) \ {x}
        /\ \A y \in Present(t) \ {x} : [t EXCEPT ![x] = Absent][y] = t[y]
        /\ UniqueIds(t) => UniqueIds([t EXCEPT ![x] = Absent])
        /\ \A i : RowsOf([t EXCEPT ![x] = Absent], i) = RowsOf(t, i) \ {x}
  <1> SUFFICES ASSUME NEW t \in Table, NEW x \in Present(t),
                      NEW u, u = [t EXCEPT ![x] = Absent]
               PROVE  /\ Present(u) = Present(t) \ {x}
                      /\ \A y \in Present(t) \ {x} : u[y] = t[y]
                      /\ UniqueIds(t) => UniqueIds(u)
                      /\ \A i : RowsOf(u, i) = RowsOf(t, i) \ {x}
    BY Zenon
  <1>1. x \in Objs /\ u[x] = Absent /\ \A y \in Objs \ {x} : u[y] = t[y]
    BY DEF Present, Table
  <1>2. Present(u) = Present(t) \ {x}
    BY <1>1 DEF Present
  <1>3. \A y \in Present(t) \ {x} : u[y] = t[y]
    BY <1>1, <1>2 DEF Present
  <1>4. UniqueIds(t) => UniqueIds(u)
    BY <1>2, <1>3 DEF UniqueIds
  <1>5. \A i : RowsOf(u, i) = RowsOf(t, i) \ {x}
    BY <1>2, <1>3 DEF RowsOf
  <1> QED
    BY <1>2, <1>3, <1>4, <1>5

LEMMA WithRow ==
    \A t \in Table, x \in Objs, r \in Row :
        t[x] = Absent =>
            /\ Present([t EXCEPT ![x] = r]) = Present(t) \cup {x}
            /\ [t EXCEPT ![x] = r][x] = r
            /\ \A y \in Present(t) : [t EXCEPT ![x] = r][y] = t[y]
  <1>1. \A r \in Row : r # Absent
    BY AbsentAssumption
  <1> QED
    BY <1>1 DEF Present, Table

(***************************************************************************)
(* One step of each action keeps the invariant.                            *)
(***************************************************************************)
LEMMA LaunchStep ==
    ASSUME IInv, NEW l \in Locales, Launch(l)
    PROVE  IInv'
  <1>1. TypeOK'
    BY TypeInductive DEF IInv, Next
  <1>2. Uniqueness'
    <2>1. fetchErrors' = 0 => fetchErrors = 0
      BY DEF IInv, TypeOK, Launch, loadAllRequests, FetchReturns, FetchThrows
    <2> QED
      BY <2>1 DEF IInv, Uniqueness, Healthy, Launch, UniqueIds, Present
  <1> QED
    BY <1>1, <1>2 DEF IInv, Launch

LEMMA BeginStep ==
    ASSUME IInv, NEW f \in RequestList, BeginUpdate(f)
    PROVE  IInv'
  <1>1. TypeOK'
    BY TypeInductive DEF IInv, Next
  <1>2. /\ ctx' = ctx /\ disk' = disk /\ pc' = "update" /\ pc # "off"
        /\ newRequests' = f /\ fetched' = f
    BY DEF BeginUpdate
  <1>3. /\ fetchErrors' = 0 => fetchErrors = 0
        /\ health' \in {"unique", "exact", "suspect"} =>
               fetchErrors' = fetchErrors /\ oldRequests' = ctx
        /\ Healthy' => Healthy
        /\ fetchErrors' = fetchErrors /\ health = "exact" => health' = "exact"
    <2>1. fetchErrors \in Nat /\ health \in Healths
      BY DEF IInv, TypeOK
    <2>2. CASE fetchErrors' = fetchErrors
      <3>1. oldRequests' = ctx
        BY <2>1, <2>2 DEF BeginUpdate, loadAllRequests, FetchThrows
      <3>2. health' = IF health = "failed" THEN "suspect" ELSE health
        BY <2>2 DEF BeginUpdate
      <3> QED
        BY <2>1, <2>2, <3>1, <3>2 DEF Healths, Healthy
    <2>3. CASE fetchErrors' # fetchErrors
      <3>1. fetchErrors' = fetchErrors + 1 /\ health' = "failed"
        BY <2>1, <2>3 DEF BeginUpdate, loadAllRequests, FetchThrows,
           FetchReturns
      <3> QED
        BY <2>1, <2>3, <3>1 DEF Healthy
    <2> QED
      BY <2>2, <2>3
  <1>4. Uniqueness'
    BY <1>2, <1>3 DEF IInv, Uniqueness, UniqueIds, Present, TypeOK,
       BeginUpdate, loadAllRequests, FetchReturns, FetchThrows
  <1>5. ASSUME Healthy' PROVE HealthyUpdate'
    <2>1. oldRequests' = ctx
      BY <1>3, <1>5 DEF Healthy
    <2> QED
      BY <1>2, <2>1 DEF HealthyUpdate, OldAreRows, NewAreUnsaved,
         DoneAsFetched, NewAsFetched, FetchedCovered, Present
  <1>6. ASSUME health' = "suspect" PROVE (NewAsFetched /\ HealingUpdate)'
    <2>1. oldRequests' = ctx
      BY <1>3, <1>6
    <2>2. \A i \in Ids : Cardinality(RowsOf(ctx, i)) \in Nat
      <3> TAKE i \in Ids
      <3>1. RowsOf(ctx, i) \subseteq Objs
        BY DEF RowsOf, Present
      <3> QED
        BY <3>1, ObjsAssumption, FS_Subset, FS_CardinalityType
    <2> QED
      BY <1>2, <2>1, <2>2 DEF NewAsFetched, HealingUpdate, RowsOf, Present
  <1> QED
    BY <1>1, <1>2, <1>4, <1>5, <1>6 DEF IInv

(***************************************************************************)
(* The sets counted in HealingUpdate are finite.                           *)
(***************************************************************************)
LEMMA RowsFinite ==
    ASSUME NEW t, NEW i
    PROVE  IsFiniteSet(RowsOf(t, i)) /\ Cardinality(RowsOf(t, i)) \in Nat
  <1>1. RowsOf(t, i) \subseteq Objs
    BY DEF RowsOf, Present
  <1> QED
    BY <1>1, ObjsAssumption, FS_Subset, FS_CardinalityType

LEMMA LeaveStep ==
    ASSUME IInv, NEW x \in Objs, LeaveMatching(x)
    PROVE  IInv'
  <1> DEFINE i == oldRequests[x].id
  <1>1. TypeOK /\ TypeOK'
    BY TypeInductive DEF IInv, Next, UpdateStep
  <1>2. /\ i \in Ids /\ oldRequests[x].status \in Statuses
        /\ x \in Present(oldRequests)
    BY <1>1, TableFacts DEF LeaveMatching, TypeOK, Row, Present
  <1>3. /\ Present(ctx') = Present(ctx)
        /\ \A y \in Present(ctx) : /\ ctx'[y].id = ctx[y].id
                                   /\ ctx'[y].status = ctx[y].status
        /\ disk' = ctx' \/ disk' = disk
    <2>1. CASE markRequestAsOld(i)
      BY <1>1, <1>2, <2>1, MarkEffect
    <2>2. CASE UNCHANGED <<ctx, disk>>
      BY <2>2
    <2> QED
      BY <2>1, <2>2 DEF LeaveMatching
  <1>4. /\ Present(oldRequests') = Present(oldRequests) \ {x}
        /\ \A y \in Present(oldRequests') : oldRequests'[y] = oldRequests[y]
        /\ \A j : RowsOf(oldRequests', j) = RowsOf(oldRequests, j) \ {x}
    <2> DEFINE w == [oldRequests EXCEPT ![x] = Absent]
    <2>1. /\ Present(w) = Present(oldRequests) \ {x}
          /\ \A y \in Present(oldRequests) \ {x} : w[y] = oldRequests[y]
          /\ \A j : RowsOf(w, j) = RowsOf(oldRequests, j) \ {x}
      BY <1>1, <1>2, WithoutRow DEF TypeOK
    <2>2. oldRequests' = w
      BY DEF LeaveMatching
    <2> HIDE DEF w
    <2> QED
      BY <2>1, <2>2
  <1>5. /\ newRequests[i] = oldRequests[x].status /\ newRequests[i] # Absent
        /\ newRequests'[i] = Absent
        /\ \A j \in Ids \ {i} : newRequests'[j] = newRequests[j]
        /\ fetched' = fetched /\ pc' = "update" /\ pc = "update"
    BY <1>1, <1>2, AbsentAssumption
    DEF LeaveMatching, HasMatch, TypeOK, RequestList
  <1>6. /\ fetchErrors' = fetchErrors => health' = health
        /\ fetchErrors' # fetchErrors => health' = "failed" /\ fetchErrors' # 0
    BY <1>1 DEF LeaveMatching, NoteFetch, markRequestAsOld, FetchReturns,
                FetchThrows, TypeOK
  <1> HIDE DEF i
  <1>7. Uniqueness'
    <2>1. UniqueIds(ctx) => UniqueIds(ctx')
      BY <1>3 DEF UniqueIds
    <2> QED
      BY <1>3, <1>5, <1>6, <2>1 DEF IInv, Uniqueness, Healthy
  <1>8. ASSUME Healthy' PROVE HealthyUpdate'
    <2>1. HealthyUpdate /\ UniqueIds(ctx)
      BY <1>5, <1>6, <1>8 DEF IInv, Healthy, Uniqueness
    <2>2. x \in Present(ctx) /\ ctx[x].id = i
          /\ ctx[x].status = oldRequests[x].status
      BY <1>2, <2>1 DEF HealthyUpdate, OldAreRows, i
    <2>3. \A y \in Present(ctx) : ctx[y].id \in Ids
      BY <1>1, TableFacts DEF TypeOK, Present, Row
    <2>4. \A y \in Objs : y # x => oldRequests'[y] = oldRequests[y]
      BY <1>1 DEF LeaveMatching, TypeOK, Table
    <2>5. oldRequests'[x] = Absent
      BY <1>1 DEF LeaveMatching, TypeOK, Table
    <2>6. OldAreRows'
      BY <1>3, <1>4, <2>1 DEF HealthyUpdate, OldAreRows
    <2>7. NewAreUnsaved'
      BY <1>3, <1>5, <2>1, <2>2, <2>3, <2>4
      DEF HealthyUpdate, NewAreUnsaved, Present
    <2>8. DoneAsFetched'
      BY <1>2, <1>3, <1>5, <2>1, <2>2, <2>4
      DEF HealthyUpdate, DoneAsFetched, NewAsFetched, Present
    <2>9. NewAsFetched'
      BY <1>5, <2>1, <1>2 DEF HealthyUpdate, NewAsFetched
    <2>10. FetchedCovered'
      <3> SUFFICES ASSUME NEW j \in Ids, fetched[j] # Absent,
                          newRequests'[j] = Absent
                   PROVE  \E y \in Present(ctx) :
                              ctx'[y].id = j /\ oldRequests'[y] = Absent
        BY <1>3, <1>5 DEF FetchedCovered
      <3>1. CASE j = i
        BY <3>1, <1>3, <2>2, <2>5
      <3>2. CASE j # i
        <4>1. PICK y \in Present(ctx) : ctx[y].id = j /\ oldRequests[y] = Absent
          BY <3>2, <1>5, <2>1 DEF HealthyUpdate, FetchedCovered
        <4> QED
          BY <4>1, <1>3, <2>4, <2>5 DEF Present
      <3> QED
        BY <3>1, <3>2
    <2> QED
      BY <2>6, <2>7, <2>8, <2>9, <2>10 DEF HealthyUpdate
  <1>9. ASSUME health' = "suspect" PROVE (NewAsFetched /\ HealingUpdate)'
    <2>1. NewAsFetched /\ HealingUpdate
      BY <1>5, <1>6, <1>9 DEF IInv
    <2>2. NewAsFetched'
      BY <1>5, <2>1, <1>2 DEF NewAsFetched
    <2>3. ASSUME NEW j \in Ids
          PROVE  RowsOf(ctx', j) = RowsOf(ctx, j)
      BY <1>3 DEF RowsOf
    <2>4. fetched[i] # Absent
      BY <1>2, <1>5, <2>1 DEF NewAsFetched
    <2>5. Cardinality(RowsOf(oldRequests', i)) =
              Cardinality(RowsOf(oldRequests, i)) - 1
      <3>1. x \in RowsOf(oldRequests, i)
        BY <1>2 DEF RowsOf, i
      <3> QED
        BY <1>4, <3>1, RowsFinite, FS_RemoveElement
    <2>6. \A j \in Ids \ {i} : RowsOf(oldRequests', j) = RowsOf(oldRequests, j)
      BY <1>4 DEF RowsOf, i
    <2>7. ASSUME NEW j \in Ids
          PROVE  Cardinality(RowsOf(ctx', j)) =
                     Cardinality(RowsOf(oldRequests', j))
                     + IF fetched'[j] # Absent /\ newRequests'[j] = Absent
                       THEN 1 ELSE 0
      <3>1. CASE j = i
        BY <1>2, <1>5, <2>1, <2>3, <2>4, <2>5, <3>1, RowsFinite
        DEF HealingUpdate
      <3>2. CASE j # i
        BY <1>5, <2>1, <2>3, <2>6, <3>2 DEF HealingUpdate
      <3> QED
        BY <3>1, <3>2
    <2> QED
      BY <2>2, <2>7 DEF HealingUpdate
  <1> QED
    BY <1>1, <1>5, <1>7, <1>8, <1>9 DEF IInv

LEMMA DeleteStep ==
    ASSUME IInv, NEW x \in Objs, DeleteOld(x)
    PROVE  IInv'
  <1> DEFINE i == oldRequests[x].id
             w == [oldRequests EXCEPT ![x] = Absent]
  <1>1. TypeOK /\ TypeOK'
    BY TypeInductive DEF IInv, Next, UpdateStep
  <1>2. i \in Ids /\ x \in Present(oldRequests)
    BY <1>1, TableFacts DEF DeleteOld, TypeOK, Row, Present
  <1>3. /\ fetchErrors' = fetchErrors => health' = health
        /\ fetchErrors' # fetchErrors => health' = "failed" /\ fetchErrors' # 0
    BY <1>1 DEF DeleteOld, NoteFetch, deleteRequest, FetchReturns,
                FetchThrows, TypeOK
  <1>4. /\ pc = "update" /\ pc' = "update" /\ fetched' = fetched
        /\ newRequests' = newRequests /\ deleteRequest(i)
    BY DEF DeleteOld
  <1>5. /\ Present(w) = Present(oldRequests) \ {x}
        /\ \A y \in Present(oldRequests) \ {x} : w[y] = oldRequests[y]
        /\ \A j : RowsOf(w, j) = RowsOf(oldRequests, j) \ {x}
    BY <1>1, <1>2, WithoutRow DEF TypeOK
  <1>6. oldRequests' = w
    BY DEF DeleteOld
  <1>7. \A y \in Objs : oldRequests'[y] = IF y = x THEN Absent
                                                   ELSE oldRequests[y]
    BY <1>1 DEF DeleteOld, TypeOK, Table
  <1>8. x \in RowsOf(oldRequests, i)
    BY <1>2 DEF RowsOf
  <1> HIDE DEF i, w
  <1>9. CASE fetchErrors' # fetchErrors
    BY <1>1, <1>3, <1>4, <1>9 DEF IInv, Uniqueness, Healthy
  <1>10. CASE fetchErrors' = fetchErrors /\ health = "failed"
    BY <1>1, <1>3, <1>4, <1>10 DEF IInv, Uniqueness, Healthy
  <1>11. CASE fetchErrors' = fetchErrors /\ health # "failed"
    <2>1. /\ \/ RowsOf(ctx, i) = {}
             \/ \E z \in RowsOf(ctx, i) : ctx' = [ctx EXCEPT ![z] = Absent]
          /\ disk' = ctx' \/ disk' = disk
      BY <1>1, <1>2, <1>4, <1>11, DeleteEffect
    <2>2. RowsOf(ctx, i) # {}
      <3>1. CASE Healthy
        BY <3>1, <1>2, <1>4 DEF IInv, HealthyUpdate, OldAreRows, RowsOf, i
      <3>2. CASE health = "suspect"
        <4>1. Cardinality(RowsOf(oldRequests, i)) # 0
          BY <1>8, RowsFinite, FS_EmptySet
        <4>2. Cardinality(RowsOf(ctx, i)) # 0
          BY <3>2, <1>2, <1>4, <4>1, RowsFinite DEF IInv, HealingUpdate
        <4> QED
          BY <4>2, FS_EmptySet
      <3> QED
        BY <1>1, <1>11, <3>1, <3>2 DEF TypeOK, Healths, Healthy
    <2>3. PICK z \in RowsOf(ctx, i) : ctx' = [ctx EXCEPT ![z] = Absent]
      BY <2>1, <2>2
    <2> DEFINE v == [ctx EXCEPT ![z] = Absent]
    <2>4. z \in Present(ctx) /\ ctx[z].id = i
      BY DEF RowsOf
    <2>5. /\ Present(v) = Present(ctx) \ {z}
          /\ \A y \in Present(ctx) \ {z} : v[y] = ctx[y]
          /\ UniqueIds(ctx) => UniqueIds(v)
          /\ \A j : RowsOf(v, j) = RowsOf(ctx, j) \ {z}
      BY <1>1, <2>4, WithoutRow DEF TypeOK
    <2>6. ctx' = v
      BY <2>3
    <2> HIDE DEF v
    <2>7. Uniqueness'
      BY <1>3, <1>4, <1>11, <2>1, <2>5, <2>6 DEF IInv, Uniqueness, Healthy
    <2>8. ASSUME Healthy' PROVE HealthyUpdate'
      <3>1. HealthyUpdate /\ UniqueIds(ctx)
        BY <1>3, <1>4, <1>11, <2>8 DEF IInv, Healthy, Uniqueness
      <3>2. z = x
        BY <1>2, <2>4, <3>1 DEF HealthyUpdate, OldAreRows, UniqueIds, i
      <3>3. OldAreRows'
        BY <1>5, <1>6, <2>5, <2>6, <3>1, <3>2 DEF HealthyUpdate, OldAreRows
      <3>4. NewAreUnsaved'
        BY <1>4, <1>7, <2>5, <2>6, <3>1, <3>2
        DEF HealthyUpdate, NewAreUnsaved, Present
      <3>5. DoneAsFetched'
        BY <1>4, <1>7, <2>5, <2>6, <3>1, <3>2
        DEF HealthyUpdate, DoneAsFetched, Present
      <3>6. NewAsFetched'
        BY <1>4, <3>1 DEF HealthyUpdate, NewAsFetched
      <3>7. FetchedCovered'
        <4> SUFFICES ASSUME NEW j \in Ids, fetched[j] # Absent,
                            newRequests[j] = Absent
                     PROVE  \E y \in Present(v) :
                                v[y].id = j /\ oldRequests'[y] = Absent
          BY <1>4, <2>6 DEF FetchedCovered
        <4>1. PICK y \in Present(ctx) : ctx[y].id = j /\ oldRequests[y] = Absent
          BY <3>1 DEF HealthyUpdate, FetchedCovered
        <4>2. y # x
          BY <4>1, <1>2 DEF Present
        <4> QED
          BY <4>1, <4>2, <1>7, <2>5, <3>2 DEF Present
      <3> QED
        BY <3>3, <3>4, <3>5, <3>6, <3>7 DEF HealthyUpdate
    <2>9. ASSUME health' = "suspect" PROVE (NewAsFetched /\ HealingUpdate)'
      <3>1. NewAsFetched /\ HealingUpdate
        BY <1>3, <1>4, <1>11, <2>9 DEF IInv
      <3>2. NewAsFetched'
        BY <1>4, <3>1 DEF NewAsFetched
      <3>3. /\ Cardinality(RowsOf(w, i)) =
                   Cardinality(RowsOf(oldRequests, i)) - 1
            /\ Cardinality(RowsOf(v, i)) = Cardinality(RowsOf(ctx, i)) - 1
        BY <1>5, <1>8, <2>5, RowsFinite, FS_RemoveElement
      <3>4. \A j \in Ids \ {i} : /\ RowsOf(w, j) = RowsOf(oldRequests, j)
                                 /\ RowsOf(v, j) = RowsOf(ctx, j)
        BY <1>5, <1>8, <2>4, <2>5 DEF RowsOf
      <3>5. ASSUME NEW j \in Ids
            PROVE  Cardinality(RowsOf(v, j)) =
                       Cardinality(RowsOf(w, j))
                       + IF fetched[j] # Absent /\ newRequests[j] = Absent
                         THEN 1 ELSE 0
        <4>1. CASE j = i
          BY <1>2, <3>1, <3>3, <4>1, RowsFinite DEF HealingUpdate
        <4>2. CASE j # i
          BY <3>1, <3>4, <4>2 DEF HealingUpdate
        <4> QED
          BY <4>1, <4>2
      <3> QED
        BY <1>4, <1>6, <2>6, <3>2, <3>5 DEF HealingUpdate
    <2> QED
      BY <1>1, <1>4, <2>7, <2>8, <2>9 DEF IInv
  <1> QED
    BY <1>9, <1>10, <1>11

LEMMA SaveStep ==
    ASSUME IInv, NEW i \in Ids, SaveNew(i)
    PROVE  IInv'
  <1> DEFINE r == [id |-> i, status |-> newRequests[i], isNew |-> TRUE,
                   lang |-> locale]
  <1>1. TypeOK /\ TypeOK'
    BY TypeInductive DEF IInv, Next, UpdateStep
  <1>2. /\ newRequests[i] # Absent /\ newRequests'[i] = Absent
        /\ \A j \in Ids \ {i} : newRequests'[j] = newRequests[j]
        /\ fetched' = fetched /\ pc' = "update" /\ pc = "update"
        /\ fetchErrors' = fetchErrors /\ health' = health
        /\ oldRequests' = oldRequests /\ Present(oldRequests) = {}
        /\ disk' = ctx' \/ disk' = disk
    BY <1>1 DEF SaveNew, saveRequest, ContextSave, TypeOK, RequestList
  <1>3. r \in Row /\ r.id = i /\ r.status = newRequests[i]
    BY <1>1, <1>2 DEF Row, TypeOK, RequestList
  <1>4. PICK x \in Objs : ctx[x] = Absent /\ ctx' = [ctx EXCEPT ![x] = r]
    BY DEF SaveNew, saveRequest
  <1> HIDE DEF r
  <1> DEFINE v == [ctx EXCEPT ![x] = r]
  <1>5. /\ Present(v) = Present(ctx) \cup {x} /\ v[x] = r
        /\ \A y \in Present(ctx) : v[y] = ctx[y]
        /\ x \notin Present(ctx)
    BY <1>1, <1>3, <1>4, WithRow DEF TypeOK, Present
  <1>6. ctx' = v
    BY <1>4
  <1> HIDE DEF v
  <1>7. ASSUME Healthy PROVE \A y \in Present(ctx) : ctx[y].id # i
    BY <1>2, <1>7 DEF IInv, HealthyUpdate, NewAreUnsaved, Present
  <1>8. Uniqueness'
    <2>1. Healthy => UniqueIds(v)
      BY <1>3, <1>5, <1>7 DEF IInv, Uniqueness, UniqueIds
    <2> QED
      BY <1>2, <1>6, <2>1 DEF IInv, Uniqueness, Healthy
  <1>9. ASSUME Healthy' PROVE HealthyUpdate'
    <2>1. HealthyUpdate
      BY <1>2, <1>9 DEF IInv, Healthy
    <2>2. \A y \in Objs : oldRequests[y] = Absent
      BY <1>2 DEF Present
    <2>3. \A y \in Present(ctx) : ctx[y].id \in Ids
      BY <1>1, TableFacts DEF TypeOK, Present, Row
    <2>4. OldAreRows'
      BY <1>2 DEF OldAreRows
    <2>5. NewAreUnsaved'
      BY <1>2, <1>3, <1>5, <1>6, <2>1, <2>3 DEF HealthyUpdate, NewAreUnsaved
    <2>6. DoneAsFetched'
      BY <1>2, <1>3, <1>5, <1>6, <2>1
      DEF HealthyUpdate, DoneAsFetched, NewAsFetched
    <2>7. NewAsFetched'
      BY <1>2, <2>1 DEF HealthyUpdate, NewAsFetched
    <2>8. FetchedCovered'
      <3> SUFFICES ASSUME NEW j \in Ids, fetched[j] # Absent,
                          newRequests'[j] = Absent
                   PROVE  \E y \in Present(v) :
                              v[y].id = j /\ oldRequests[y] = Absent
        BY <1>2, <1>6 DEF FetchedCovered
      <3>1. CASE j = i
        BY <3>1, <1>3, <1>5, <2>2
      <3>2. CASE j # i
        BY <3>2, <1>2, <1>5, <2>1 DEF HealthyUpdate, FetchedCovered
      <3> QED
        BY <3>1, <3>2
    <2> QED
      BY <2>4, <2>5, <2>6, <2>7, <2>8 DEF HealthyUpdate
  <1>10. ASSUME health' = "suspect" PROVE (NewAsFetched /\ HealingUpdate)'
    <2>1. NewAsFetched /\ HealingUpdate
      BY <1>2, <1>10 DEF IInv
    <2>2. NewAsFetched'
      BY <1>2, <2>1 DEF NewAsFetched
    <2>3. RowsOf(v, i) = RowsOf(ctx, i) \cup {x} /\ x \notin RowsOf(ctx, i)
      BY <1>3, <1>5 DEF RowsOf
    <2>4. Cardinality(RowsOf(v, i)) = Cardinality(RowsOf(ctx, i)) + 1
      BY <2>3, RowsFinite, FS_AddElement
    <2>5. \A j \in Ids \ {i} : RowsOf(v, j) = RowsOf(ctx, j)
      BY <1>3, <1>5 DEF RowsOf
    <2>6. fetched[i] # Absent
      BY <1>2, <2>1 DEF NewAsFetched
    <2>7. ASSUME NEW j \in Ids
          PROVE  Cardinality(RowsOf(v, j)) =
                     Cardinality(RowsOf(oldRequests, j))
                     + IF fetched[j] # Absent /\ newRequests'[j] = Absent
                       THEN 1 ELSE 0
      <3>1. CASE j = i
        BY <1>2, <2>1, <2>4, <2>6, <3>1, RowsFinite DEF HealingUpdate
      <3>2. CASE j # i
        BY <1>2, <2>1, <2>5, <3>2 DEF HealingUpdate
      <3> QED
        BY <3>1, <3>2
    <2> QED
      BY <1>2, <1>6, <2>2, <2>7 DEF HealingUpdate
  <1> QED
    BY <1>1, <1>2, <1>8, <1>9, <1>10 DEF IInv

LEMMA FinishStep ==
    ASSUME IInv, FinishUpdate
    PROVE  IInv'
  <1>1. TypeOK /\ TypeOK'
    BY TypeInductive DEF IInv, Next, UpdateStep
  <1>2. /\ pc = "update" /\ pc' = "synced" /\ ctx' = ctx /\ disk' = disk
        /\ fetched' = fetched
        /\ Present(oldRequests) = {} /\ Listed(newRequests) = {}
    BY DEF FinishUpdate
  <1>3. health' = IF health = "failed" THEN "failed"
                  ELSE IF health = "suspect" THEN "unique" ELSE "exact"
    BY DEF FinishUpdate
  <1>4. /\ fetchErrors' = 0 => fetchErrors = 0
        /\ \/ userRequests' = ctx
           \/ fetchErrors' > 0 /\ userRequests' = NoRows
    BY <1>1
    DEF FinishUpdate, loadAllRequests, FetchReturns, FetchThrows, TypeOK
  <1>5. Healthy' => UniqueIds(ctx)
    <2>1. CASE Healthy
      BY <2>1 DEF IInv, Uniqueness
    <2>2. CASE health = "suspect"
      <3>1. \A i \in Ids : RowsOf(oldRequests, i) = {}
        BY <1>2 DEF RowsOf
      <3>2. ASSUME NEW i \in Ids, NEW x \in RowsOf(ctx, i),
                   NEW y \in RowsOf(ctx, i)
            PROVE  x = y
        <4>1. Cardinality(RowsOf(ctx, i)) <= 1
          BY <1>2, <2>2, <3>1, FS_EmptySet DEF IInv, HealingUpdate
        <4>2. Cardinality(RowsOf(ctx, i) \ {x}) = 0
          <5>1. /\ Cardinality(RowsOf(ctx, i) \ {x}) =
                       Cardinality(RowsOf(ctx, i)) - 1
                /\ IsFiniteSet(RowsOf(ctx, i) \ {x})
            BY RowsFinite, FS_RemoveElement
          <5>2. Cardinality(RowsOf(ctx, i) \ {x}) \in Nat
            BY <5>1, FS_CardinalityType
          <5> QED
            BY <4>1, <5>1, <5>2, RowsFinite
        <4>3. RowsOf(ctx, i) \ {x} = {}
          BY <4>2, RowsFinite, FS_RemoveElement, FS_EmptySet
        <4> QED
          BY <4>3
      <3>3. \A x \in Present(ctx) : ctx[x].id \in Ids
        BY <1>1, TableFacts DEF TypeOK, Present, Row
      <3> QED
        BY <3>2, <3>3 DEF UniqueIds, RowsOf
    <2> QED
      BY <1>1, <1>3, <2>1, <2>2 DEF Healthy, TypeOK, Healths
  <1>6. Uniqueness'
    BY <1>2, <1>3, <1>4, <1>5 DEF IInv, Uniqueness, Healthy
  <1>7. ASSUME health' = "exact" PROVE Mirrors(ctx, fetched)
    <2>1. HealthyUpdate
      BY <1>1, <1>2, <1>3, <1>7 DEF IInv, Healthy, TypeOK, Healths
    <2>2. \A x \in Objs : oldRequests[x] = Absent
      BY <1>2 DEF Present
    <2>3. \A i \in Ids : newRequests[i] = Absent
      BY <1>2 DEF Listed
    <2> QED
      BY <2>1, <2>2, <2>3
      DEF HealthyUpdate, DoneAsFetched, FetchedCovered, Mirrors, Listed,
          Present
  <1> QED
    BY <1>1, <1>2, <1>4, <1>6, <1>7 DEF IInv

LEMMA CrashStep ==
    ASSUME IInv, Crash
    PROVE  IInv'
  <1>1. TypeOK /\ TypeOK'
    BY TypeInductive DEF IInv, Next
  <1>2. UniqueIds(NoRows)
    BY DEF UniqueIds, Present, NoRows
  <1>3. Uniqueness'
    BY <1>2 DEF IInv, Uniqueness, Healthy, Crash
  <1> QED
    BY <1>1, <1>3 DEF IInv, Crash

(***************************************************************************)
(* The invariant holds in every state: it starts with an empty store and   *)
(* every action keeps it.                                                  *)
(***************************************************************************)
THEOREM Inductive == Spec => []IInv
  <1>1. Init => IInv
    <2> SUFFICES ASSUME Init PROVE IInv
      OBVIOUS
    <2>1. UniqueIds(NoRows)
      BY DEF UniqueIds, Present, NoRows
    <2> QED
      BY <2>1, TypeInit DEF Init, IInv, Uniqueness, Healthy
  <1>2. IInv /\ [Next]_vars => IInv'
    <2> SUFFICES ASSUME IInv, [Next]_vars PROVE IInv'
      OBVIOUS
    <2>1. CASE UNCHANGED vars
      BY <2>1
      DEF vars, IInv, TypeOK, Uniqueness, Healthy, HealthyUpdate, OldAreRows,
          NewAreUnsaved, DoneAsFetched, NewAsFetched, FetchedCovered,
          HealingUpdate, UniqueIds, Present, RowsOf, Mirrors, Listed
    <2> QED
      BY <2>1, LaunchStep, BeginStep, LeaveStep, DeleteStep, SaveStep,
         FinishStep, CrashStep DEF Next, UpdateStep
  <1> QED
    BY <1>1, <1>2, PTL DEF Spec

(***************************************************************************)
(* No request is cached twice, in the context or on disk, as long as no    *)
(* fetch of CDHandler throws.                                              *)
(***************************************************************************)
THEOREM NoDuplicates == Spec => []NoDuplicateRequests
  <1>1. IInv => NoDuplicateRequests
    BY DEF IInv, Uniqueness, Healthy, NoDuplicateRequests
  <1> QED
    BY <1>1, Inductive, PTL

(***************************************************************************)
(* One complete refresh without a throw removes every duplicate that an    *)
(* earlier throw made, however many there are.                             *)
(***************************************************************************)
THEOREM Healing == Spec => []DuplicatesHeal
  <1>1. IInv => DuplicatesHeal
    BY DEF IInv, Uniqueness, Healthy, DuplicatesHeal
  <1> QED
    BY <1>1, Inductive, PTL

(***************************************************************************)
(* A completed refresh leaves exactly the fetched list in the cache.       *)
(***************************************************************************)
THEOREM RefreshMirrors == Spec => []SyncedMirrorsFetched
  <1>1. IInv => SyncedMirrorsFetched
    BY DEF IInv, SyncedMirrorsFetched
  <1> QED
    BY <1>1, Inductive, PTL

-----------------------------------------------------------------------------
(***************************************************************************)
(* The "new" badge.  During a healthy update in an unchanged language an   *)
(* unprocessed old request is the row it was, a processed row is flagged   *)
(* new if the rows before held no such request, and a row with the id and  *)
(* status of a request that is still to save is still to be compared.      *)
(***************************************************************************)
Known(r) ==
    \E y \in Present(before) : before[y].id = r.id /\ before[y].status = r.status

OldAsBefore ==
    \A x \in Present(oldRequests) :
        oldRequests[x] = before[x] /\ oldRequests[x] = ctx[x]

DoneAreFlagged ==
    \A x \in Present(ctx) :
        oldRequests[x] = Absent => (ctx[x].isNew <=> ~Known(ctx[x]))

UnsavedAreNews ==
    \A y \in Present(before) :
        newRequests[before[y].id] = before[y].status => oldRequests[y] # Absent

NewsUpdate == OldAsBefore /\ DoneAreFlagged /\ UnsavedAreNews

NInv ==
    /\ pc = "update" /\ Healthy /\ ~changedLocale => NewsUpdate
    /\ BadgeTellsNews

\* What the rows of a table are.
LEMMA RowFields ==
    ASSUME NEW t \in Table, NEW x \in Present(t)
    PROVE  /\ x \in Objs /\ t[x] \in Row /\ t[x] # Absent
           /\ t[x].id \in Ids /\ t[x].status \in Statuses
           /\ t[x].status # Absent /\ t[x].isNew \in BOOLEAN
  BY AbsentAssumption DEF Present, Table, Row

\* Clearing isNew of a row changes that row only.
LEMMA MarkFlag ==
    \A t \in Table : \A x \in Present(t) :
        /\ [t EXCEPT ![x].isNew = FALSE][x].isNew = FALSE
        /\ \A y \in Present(t) \ {x} : [t EXCEPT ![x].isNew = FALSE][y] = t[y]
  <1> SUFFICES ASSUME NEW t \in Table, NEW x \in Present(t)
               PROVE  /\ [t EXCEPT ![x].isNew = FALSE][x].isNew = FALSE
                      /\ \A y \in Present(t) \ {x} :
                            [t EXCEPT ![x].isNew = FALSE][y] = t[y]
    OBVIOUS
  <1>1. x \in Objs /\ t[x] \in Row
    BY DEF Present, Table
  <1>2. [t[x] EXCEPT !.isNew = FALSE].isNew = FALSE
    BY <1>1 DEF Row
  <1> QED BY <1>1, <1>2 DEF Present, Table

(***************************************************************************)
(* A match takes the flag off its row, and off no other.                   *)
(***************************************************************************)
LEMMA LeaveFlags ==
    ASSUME IInv, IInv', NInv, NEW x \in Objs, LeaveMatching(x),
           Healthy', ~changedLocale'
    PROVE  NewsUpdate'
  <1>1. TypeOK /\ TypeOK'
    BY DEF IInv
  <1>2. PICK i \in Ids : i = oldRequests[x].id
    BY <1>1, TableFacts DEF LeaveMatching, TypeOK, Row
  <1>3. /\ pc = "update" /\ changedLocale' = changedLocale /\ before' = before
        /\ newRequests' = [newRequests EXCEPT ![i] = Absent]
        /\ oldRequests' = [oldRequests EXCEPT ![x] = Absent]
        /\ x \in Present(oldRequests)
    BY <1>2 DEF LeaveMatching, Present
  <1>4. fetchErrors' = fetchErrors /\ health' = health
    BY DEF LeaveMatching, NoteFetch, Healthy
  <1>5. NewsUpdate /\ HealthyUpdate /\ UniqueIds(ctx)
    BY <1>3, <1>4 DEF NInv, IInv, Healthy, Uniqueness
  <1>6. /\ x \in Present(ctx) /\ ctx[x] = oldRequests[x] /\ ctx[x] = before[x]
        /\ ctx[x].id = i /\ x \in Present(before)
    BY <1>2, <1>3, <1>5
    DEF NewsUpdate, OldAsBefore, HealthyUpdate, OldAreRows, Present
  <1>7. /\ Present(ctx') = Present(ctx)
        /\ \A y \in Present(ctx) : /\ ctx'[y].id = ctx[y].id
                                   /\ ctx'[y].status = ctx[y].status
        /\ ctx'[x].isNew = FALSE
        /\ \A y \in Present(ctx) \ {x} : ctx'[y] = ctx[y]
    <2>1. CASE oldRequests[x].isNew
      <3>1. markRequestAsOld(i) /\ ~FetchThrows
        BY <1>1, <1>2, <1>4, <2>1 DEF LeaveMatching, FetchThrows, TypeOK
      <3>2. x \in FetchById(i) /\ \A z \in FetchById(i) : z = x
        BY <1>5, <1>6 DEF FetchById, UniqueIds
      <3>3. ctx' = [ctx EXCEPT ![x].isNew = FALSE]
        BY <3>1, <3>2 DEF markRequestAsOld
      <3>4. /\ [ctx EXCEPT ![x].isNew = FALSE][x].isNew = FALSE
            /\ \A y \in Present(ctx) \ {x} :
                    [ctx EXCEPT ![x].isNew = FALSE][y] = ctx[y]
        BY <1>1, <1>6, MarkFlag DEF TypeOK
      <3>5. /\ Present(ctx') = Present(ctx)
            /\ \A y \in Present(ctx) : /\ ctx'[y].id = ctx[y].id
                                       /\ ctx'[y].status = ctx[y].status
        BY <1>1, <3>1, MarkEffect
      <3> QED BY <3>3, <3>4, <3>5
    <2>2. CASE ~oldRequests[x].isNew
      <3>1. ctx' = ctx
        BY <2>2 DEF LeaveMatching
      <3>2. ctx[x].isNew = FALSE
        BY <1>1, <1>6, <2>2, RowFields DEF TypeOK
      <3> QED BY <3>1, <3>2
    <2> QED BY <2>1, <2>2
  <1>8. \A y \in Objs : oldRequests'[y] = IF y = x THEN Absent ELSE oldRequests[y]
    BY <1>1, <1>3 DEF TypeOK, Table
  <1>9. OldAsBefore'
    BY <1>3, <1>5, <1>7, <1>8 DEF NewsUpdate, OldAsBefore, Present
  <1>10. DoneAreFlagged'
    <2> SUFFICES ASSUME NEW y \in Present(ctx), oldRequests'[y] = Absent
                 PROVE  ctx'[y].isNew <=> ~Known(ctx[y])
      BY <1>3, <1>7 DEF DoneAreFlagged, Known
    <2>1. CASE y = x
      BY <1>6, <1>7, <2>1 DEF Known
    <2>2. CASE y # x
      BY <1>5, <1>7, <1>8, <2>2 DEF NewsUpdate, DoneAreFlagged, Present
    <2> QED BY <2>1, <2>2
  <1>11. UnsavedAreNews'
    <2> SUFFICES ASSUME NEW y \in Present(before),
                        newRequests'[before[y].id] = before[y].status
                 PROVE  oldRequests'[y] # Absent
      BY <1>3 DEF UnsavedAreNews
    <2>1. before[y].id \in Ids /\ before[y].status # Absent /\ y \in Objs
      BY <1>1, RowFields DEF TypeOK
    <2>2. before[y].id # i /\ newRequests[before[y].id] = before[y].status
      BY <1>1, <1>3, <2>1 DEF TypeOK, RequestList
    <2>3. oldRequests[y] # Absent
      BY <1>5, <2>2 DEF NewsUpdate, UnsavedAreNews
    <2> QED BY <1>6, <1>8, <2>1, <2>2, <2>3
  <1> QED BY <1>9, <1>10, <1>11 DEF NewsUpdate

(***************************************************************************)
(* A deleted row had no match, so that what is saved in its place is news. *)
(***************************************************************************)
LEMMA DeleteFlags ==
    ASSUME IInv, IInv', NInv, NEW x \in Objs, DeleteOld(x),
           Healthy', ~changedLocale'
    PROVE  NewsUpdate'
  <1>1. TypeOK /\ TypeOK'
    BY DEF IInv
  <1>2. PICK i \in Ids : i = oldRequests[x].id
    BY <1>1, TableFacts DEF DeleteOld, TypeOK, Row
  <1>3. /\ pc = "update" /\ changedLocale' = changedLocale /\ before' = before
        /\ newRequests' = newRequests
        /\ oldRequests' = [oldRequests EXCEPT ![x] = Absent]
        /\ x \in Present(oldRequests) /\ deleteRequest(i)
    BY <1>2 DEF DeleteOld, Present
  <1>4. fetchErrors' = fetchErrors /\ health' = health
    BY DEF DeleteOld, NoteFetch, Healthy
  <1>5. NewsUpdate /\ HealthyUpdate /\ UniqueIds(ctx)
    BY <1>3, <1>4 DEF NInv, IInv, Healthy, Uniqueness
  <1>6. /\ x \in Present(ctx) /\ ctx[x] = oldRequests[x] /\ ctx[x] = before[x]
        /\ ctx[x].id = i
    BY <1>2, <1>3, <1>5
    DEF NewsUpdate, OldAsBefore, HealthyUpdate, OldAreRows, Present
  <1>7. ctx' = [ctx EXCEPT ![x] = Absent]
    <2>1. \/ RowsOf(ctx, i) = {} /\ ctx' = ctx
          \/ \E z \in RowsOf(ctx, i) : ctx' = [ctx EXCEPT ![z] = Absent]
      BY <1>1, <1>3, <1>4, DeleteEffect
    <2>2. x \in RowsOf(ctx, i) /\ \A z \in RowsOf(ctx, i) : z = x
      BY <1>5, <1>6 DEF RowsOf, UniqueIds
    <2> QED BY <2>1, <2>2
  <1>8. \A y \in Objs :
            /\ oldRequests'[y] = IF y = x THEN Absent ELSE oldRequests[y]
            /\ ctx'[y] = IF y = x THEN Absent ELSE ctx[y]
    BY <1>1, <1>3, <1>7 DEF TypeOK, Table
  <1>9. OldAsBefore'
    BY <1>3, <1>5, <1>8 DEF NewsUpdate, OldAsBefore, Present
  <1>10. DoneAreFlagged'
    BY <1>3, <1>5, <1>8 DEF NewsUpdate, DoneAreFlagged, Present, Known
  <1>11. UnsavedAreNews'
    <2> SUFFICES ASSUME NEW y \in Present(before),
                        newRequests[before[y].id] = before[y].status
                 PROVE  oldRequests'[y] # Absent
      BY <1>3 DEF UnsavedAreNews
    <2>1. oldRequests[y] # Absent /\ y \in Objs
      BY <1>5 DEF NewsUpdate, UnsavedAreNews, Present
    <2>2. y # x
      BY <1>3, <1>6 DEF DeleteOld, HasMatch
    <2> QED BY <1>8, <2>1, <2>2
  <1> QED BY <1>9, <1>10, <1>11 DEF NewsUpdate

\* What is saved is flagged, and was not known before.
LEMMA SaveFlags ==
    ASSUME IInv, IInv', NInv, NEW i \in Ids, SaveNew(i),
           Healthy', ~changedLocale'
    PROVE  NewsUpdate'
  <1> DEFINE r == [id |-> i, status |-> newRequests[i], isNew |-> TRUE,
                   lang |-> locale]
  <1>1. TypeOK /\ TypeOK'
    BY DEF IInv
  <1>2. /\ newRequests[i] # Absent /\ pc = "update" /\ before' = before
        /\ newRequests' = [newRequests EXCEPT ![i] = Absent]
        /\ changedLocale' = changedLocale /\ health' = health
        /\ oldRequests' = oldRequests /\ Present(oldRequests) = {}
    BY DEF SaveNew
  <1>3. NewsUpdate
    BY <1>2 DEF NInv, Healthy
  <1>4. r \in Row /\ r.id = i /\ r.status = newRequests[i] /\ r.isNew = TRUE
    BY <1>1, <1>2 DEF Row, TypeOK, RequestList
  <1>5. PICK x \in Objs : ctx[x] = Absent /\ ctx' = [ctx EXCEPT ![x] = r]
    BY DEF SaveNew, saveRequest
  <1> HIDE DEF r
  <1>6. \A y \in Objs : oldRequests[y] = Absent
    BY <1>2 DEF Present
  <1>7. \A y \in Objs : ctx'[y] = IF y = x THEN r ELSE ctx[y]
    BY <1>1, <1>5 DEF TypeOK, Table
  <1>8. \A y \in Present(before) :
            ~(before[y].id = i /\ before[y].status = newRequests[i])
    BY <1>3, <1>6 DEF NewsUpdate, UnsavedAreNews, Present
  <1>9. OldAsBefore'
    BY <1>2 DEF OldAsBefore
  <1>10. DoneAreFlagged'
    <2> SUFFICES ASSUME NEW y \in Present(ctx')
                 PROVE  ctx'[y].isNew <=> ~\E z \in Present(before) :
                            /\ before[z].id = ctx'[y].id
                            /\ before[z].status = ctx'[y].status
      BY <1>2 DEF DoneAreFlagged, Known
    <2>1. CASE y = x
      <3>1. ctx'[y] = r
        BY <1>7, <2>1
      <3> QED BY <1>4, <1>8, <3>1
    <2>2. CASE y # x
      <3>1. y \in Present(ctx) /\ ctx'[y] = ctx[y] /\ oldRequests[y] = Absent
        BY <1>6, <1>7, <2>2 DEF Present
      <3> QED BY <1>3, <3>1 DEF NewsUpdate, DoneAreFlagged, Known
    <2> QED BY <2>1, <2>2
  <1>11. UnsavedAreNews'
    <2> SUFFICES ASSUME NEW y \in Present(before),
                        newRequests'[before[y].id] = before[y].status
                 PROVE  FALSE
      BY <1>2 DEF UnsavedAreNews
    <2>1. before[y].id \in Ids /\ before[y].status # Absent /\ y \in Objs
      BY <1>1, RowFields DEF TypeOK
    <2>2. newRequests[before[y].id] = before[y].status
      BY <1>1, <1>2, <2>1 DEF TypeOK, RequestList
    <2> QED BY <1>3, <1>6, <2>1, <2>2 DEF NewsUpdate, UnsavedAreNews
  <1> QED BY <1>9, <1>10, <1>11 DEF NewsUpdate

LEMMA NewsInductive ==
    ASSUME IInv, IInv', NInv, [Next]_vars
    PROVE  NInv'
  <1>1. TypeOK /\ TypeOK'
    BY DEF IInv
  <1>2. ASSUME NEW l \in Locales, Launch(l) PROVE NInv'
    BY <1>2 DEF Launch, NInv, BadgeTellsNews
  <1>3. ASSUME NEW f \in RequestList, BeginUpdate(f) PROVE NInv'
    <2>1. pc' = "update" /\ before' = ctx /\ ctx' = ctx
      BY <1>3 DEF BeginUpdate
    <2>2. ASSUME Healthy' PROVE NewsUpdate'
      <3>1. fetchErrors' = fetchErrors /\ ~FetchThrows
        BY <1>1, <1>3, <2>2 DEF BeginUpdate, Healthy, FetchThrows, TypeOK
      <3>2. oldRequests' = ctx
        BY <1>3, <3>1 DEF BeginUpdate, loadAllRequests
      <3> QED BY <2>1, <3>2
          DEF NewsUpdate, OldAsBefore, DoneAreFlagged, UnsavedAreNews, Present
    <2> QED BY <2>1, <2>2 DEF NInv, BadgeTellsNews
  <1>4. ASSUME NEW x \in Objs, LeaveMatching(x) PROVE NInv'
    <2>1. pc' = "update"
      BY <1>4 DEF LeaveMatching
    <2> QED BY <1>4, <2>1, LeaveFlags DEF NInv, BadgeTellsNews
  <1>5. ASSUME NEW x \in Objs, DeleteOld(x) PROVE NInv'
    <2>1. pc' = "update"
      BY <1>5 DEF DeleteOld
    <2> QED BY <1>5, <2>1, DeleteFlags DEF NInv, BadgeTellsNews
  <1>6. ASSUME NEW i \in Ids, SaveNew(i) PROVE NInv'
    <2>1. pc' = "update"
      BY <1>6 DEF SaveNew
    <2> QED BY <1>6, <2>1, SaveFlags DEF NInv, BadgeTellsNews
  <1>7. CASE FinishUpdate
    <2>1. /\ pc = "update" /\ pc' = "synced" /\ Present(oldRequests) = {}
          /\ UNCHANGED <<ctx, before, changedLocale>>
      BY <1>7 DEF FinishUpdate
    <2>2. ASSUME ~changedLocale, health' = "exact" PROVE BadgeTellsNews'
      <3>1. Healthy
        BY <1>1, <1>7, <2>2 DEF FinishUpdate, Healthy, TypeOK, Healths
      <3>2. DoneAreFlagged
        BY <2>1, <2>2, <3>1 DEF NInv, NewsUpdate
      <3>3. \A x \in Present(ctx) : oldRequests[x] = Absent
        BY <2>1 DEF Present
      <3>4. \A x \in Present(ctx) : ctx[x].isNew <=> ~Known(ctx[x])
        BY <3>2, <3>3 DEF DoneAreFlagged
      <3> QED BY <2>1, <3>4 DEF BadgeTellsNews, Known, Present
    <2>3. BadgeTellsNews'
      BY <2>1, <2>2 DEF BadgeTellsNews
    <2> QED BY <2>1, <2>3 DEF NInv
  <1>8. CASE Crash
    BY <1>8 DEF Crash, NInv, BadgeTellsNews
  <1>9. CASE UNCHANGED vars
    BY <1>9 DEF vars, NInv, BadgeTellsNews, Healthy, NewsUpdate, OldAsBefore,
                DoneAreFlagged, UnsavedAreNews, Known, Present
  <1> QED BY <1>2, <1>3, <1>4, <1>5, <1>6, <1>7, <1>8, <1>9 DEF Next, UpdateStep

(***************************************************************************)
(* The badge of a request tells news: after a complete refresh in the same *)
(* language a row is flagged new exactly if the cache held no row with its *)
(* id and status before.                                                   *)
(***************************************************************************)
THEOREM BadgeIsNews == Spec => []BadgeTellsNews
  <1>1. Init => NInv
    BY DEF Init, NInv, BadgeTellsNews
  <1>2. IInv /\ IInv' /\ NInv /\ [Next]_vars => NInv'
    BY NewsInductive
  <1>3. NInv => BadgeTellsNews
    BY DEF NInv
  <1> QED BY <1>1, <1>2, <1>3, Inductive, PTL DEF Spec

-----------------------------------------------------------------------------
(***************************************************************************)
(* The language of the rows.  In a switch of language nothing matches, so  *)
(* that every old row is deleted, one for each old request, before the     *)
(* first row in the new language is saved.                                 *)
(***************************************************************************)
SwitchUpdate ==
    /\ Present(oldRequests) # {} => newRequests = fetched
    /\ Present(oldRequests) = {} => InLanguage(ctx, locale)

LInv ==
    /\ SavedLocaleTellsTruth
    /\ pc = "update" => (changedLocale <=> currLocale # locale)
    /\ pc = "update" /\ ~changedLocale /\ ~tainted =>
        InLanguage(ctx, locale) /\ InLanguage(disk, locale)
    /\ pc = "update" /\ changedLocale /\ health # "failed" => SwitchUpdate

(***************************************************************************)
(* When the last old row has been processed without a throw and nothing    *)
(* matched, the context is empty.                                          *)
(***************************************************************************)
LEMMA AllDeleted ==
    ASSUME TypeOK', IInv', pc' = "update", health' # "failed",
           Present(oldRequests') = {}, newRequests' = fetched'
    PROVE  Present(ctx') = {}
  <1> SUFFICES ASSUME NEW x \in Present(ctx') PROVE FALSE
    OBVIOUS
  <1>1. PICK i \in Ids : ctx'[x].id = i /\ ctx'[x].status # Absent
    BY RowFields DEF TypeOK
  <1>2. CASE Healthy'
    <2>1. HealthyUpdate'
      BY <1>2 DEF IInv
    <2>2. oldRequests'[x] = Absent
      BY DEF Present
    <2>3. newRequests'[i] = Absent
      BY <1>1, <2>1, <2>2 DEF HealthyUpdate, NewAreUnsaved
    <2>4. fetched'[i] = ctx'[x].status
      BY <1>1, <2>1, <2>2 DEF HealthyUpdate, DoneAsFetched
    <2> QED BY <1>1, <2>3, <2>4
  <1>3. CASE health' = "suspect"
    <2>1. HealingUpdate'
      BY <1>3 DEF IInv
    <2>2. RowsOf(oldRequests', i) = {} /\ x \in RowsOf(ctx', i)
      BY <1>1 DEF RowsOf
    <2>3. Cardinality(RowsOf(ctx', i)) =
            Cardinality(RowsOf(oldRequests', i))
            + IF fetched'[i] # Absent /\ newRequests'[i] = Absent THEN 1 ELSE 0
      BY <2>1 DEF HealingUpdate
    <2>4. Cardinality(RowsOf(ctx', i)) = 0
      BY <2>2, <2>3, FS_EmptySet
    <2> QED BY <2>2, <2>4, RowsFinite, FS_EmptySet
  <1> QED BY <1>2, <1>3 DEF TypeOK, Healths, Healthy

\* What the writes of an update do to the languages of the rows.
LEMMA Languages ==
    ASSUME TypeOK, NEW l,
           \/ \E x \in Objs : LeaveMatching(x) \/ DeleteOld(x)
           \/ l = locale /\ \E i \in Ids : SaveNew(i)
    PROVE  /\ InLanguage(ctx, l) => InLanguage(ctx', l)
           /\ InLanguage(ctx, l) /\ InLanguage(disk, l) => InLanguage(disk', l)
  <1>1. disk' = ctx' \/ disk' = disk
    BY DEF LeaveMatching, DeleteOld, SaveNew, markRequestAsOld, deleteRequest,
           saveRequest, ContextSave
  <1>2. InLanguage(ctx, l) => InLanguage(ctx', l)
    <2>1. CASE ctx' = ctx
      BY <2>1
    <2>2. CASE \E x \in Present(ctx) : ctx' = [ctx EXCEPT ![x].isNew = FALSE]
      <3>1. PICK x \in Present(ctx) : ctx' = [ctx EXCEPT ![x].isNew = FALSE]
        BY <2>2
      <3> DEFINE w == [ctx EXCEPT ![x].isNew = FALSE]
      <3>2. /\ Present(w) = Present(ctx)
            /\ \A y \in Present(ctx) : w[y].lang = ctx[y].lang
        BY MarkOld DEF TypeOK
      <3>3. ctx' = w
        BY <3>1
      <3> HIDE DEF w
      <3> QED BY <3>2, <3>3 DEF InLanguage
    <2>3. CASE \E x \in Present(ctx) : ctx' = [ctx EXCEPT ![x] = Absent]
      <3>1. PICK x \in Present(ctx) : ctx' = [ctx EXCEPT ![x] = Absent]
        BY <2>3
      <3>2. \A y \in Objs : ctx'[y] = IF y = x THEN Absent ELSE ctx[y]
        BY <3>1 DEF TypeOK, Table
      <3> QED BY <3>2 DEF InLanguage, Present
    <2>4. CASE l = locale /\ \E i \in Ids : SaveNew(i)
      <3>1. PICK i \in Ids : SaveNew(i)
        BY <2>4
      <3>2. PICK x \in Objs : ctx' = [ctx EXCEPT ![x] =
                [id |-> i, status |-> newRequests[i], isNew |-> TRUE,
                 lang |-> locale]]
        BY <3>1 DEF SaveNew, saveRequest
      <3>3. /\ ctx'[x].lang = locale
            /\ \A y \in Objs \ {x} : ctx'[y] = ctx[y]
        BY <3>2 DEF TypeOK, Table
      <3> QED BY <2>4, <3>3 DEF InLanguage, Present
    <2> QED BY <2>1, <2>2, <2>3, <2>4
        DEF LeaveMatching, DeleteOld, markRequestAsOld, deleteRequest, FetchById
  <1> QED BY <1>1, <1>2

LEMMA LanguageInductive ==
    ASSUME IInv, IInv', LInv, [Next]_vars
    PROVE  LInv'
  <1>1. TypeOK /\ TypeOK'
    BY DEF IInv
  <1>2. ASSUME NEW l \in Locales, Launch(l) PROVE LInv'
    <2>1. /\ pc = "off" /\ pc' = "loaded" /\ ctx' = disk /\ disk' = disk
          /\ tainted' = tainted
          /\ currLocale' = IF currLocale = Absent THEN l ELSE currLocale
      BY <1>2 DEF Launch
    <2>2. ASSUME ~tainted PROVE InLanguage(disk, currLocale')
      <3>1. InLanguage(disk, currLocale)
        BY <2>1, <2>2 DEF LInv, SavedLocaleTellsTruth
      <3>2. \A x \in Present(disk) : disk[x].lang \in Locales
        BY <1>1 DEF TypeOK, Present, Table, Row
      <3> QED BY <2>1, <3>1, <3>2, AbsentAssumption DEF InLanguage
    <2> QED BY <2>1, <2>2 DEF LInv, SavedLocaleTellsTruth
  <1>3. ASSUME NEW f \in RequestList, BeginUpdate(f) PROVE LInv'
    <2>1. /\ pc # "update" /\ pc' = "update" /\ newRequests' = f
          /\ fetched' = f /\ changedLocale' = (currLocale # locale)
          /\ UNCHANGED <<ctx, disk, currLocale, locale, tainted>>
      BY <1>3 DEF BeginUpdate
    <2>2. ASSUME ~tainted', ~changedLocale'
          PROVE  InLanguage(ctx', locale') /\ InLanguage(disk', locale')
      BY <2>1, <2>2 DEF LInv, SavedLocaleTellsTruth
    <2>3. ASSUME health' # "failed" PROVE SwitchUpdate'
      <3>1. Present(oldRequests') = {} => Present(ctx') = {}
        BY <1>1, <2>1, <2>3, AllDeleted
      <3> QED BY <2>1, <3>1 DEF SwitchUpdate, InLanguage
    <2> QED BY <2>1, <2>2, <2>3 DEF LInv, SavedLocaleTellsTruth
  <1>4. ASSUME NEW x \in Objs, LeaveMatching(x) PROVE LInv'
    <2>1. /\ pc = "update" /\ pc' = "update" /\ ~changedLocale
          /\ UNCHANGED <<currLocale, locale, changedLocale, tainted>>
      BY <1>4 DEF LeaveMatching, HasMatch
    <2>2. ~tainted => InLanguage(ctx', locale) /\ InLanguage(disk', locale)
      BY <1>1, <1>4, <2>1, Languages DEF LInv
    <2> QED BY <2>1, <2>2 DEF LInv, SavedLocaleTellsTruth
  <1>5. ASSUME NEW x \in Objs, DeleteOld(x) PROVE LInv'
    <2>1. /\ pc = "update" /\ pc' = "update"
          /\ UNCHANGED <<currLocale, locale, changedLocale, tainted,
                         newRequests, fetched>>
          /\ Present(oldRequests) # {}
      BY <1>5 DEF DeleteOld, Present
    <2>2. ~changedLocale /\ ~tainted =>
            InLanguage(ctx', locale) /\ InLanguage(disk', locale)
      BY <1>1, <1>5, <2>1, Languages DEF LInv
    <2>3. ASSUME changedLocale, health' # "failed" PROVE SwitchUpdate'
      <3>1. health # "failed"
        BY <1>5, <2>3 DEF DeleteOld, NoteFetch
      <3>2. newRequests' = fetched'
        BY <2>1, <2>3, <3>1 DEF LInv, SwitchUpdate
      <3>3. Present(oldRequests') = {} => Present(ctx') = {}
        BY <1>1, <2>1, <2>3, <3>2, AllDeleted
      <3> QED BY <3>2, <3>3 DEF SwitchUpdate, InLanguage
    <2> QED BY <2>1, <2>2, <2>3 DEF LInv, SavedLocaleTellsTruth
  <1>6. ASSUME NEW i \in Ids, SaveNew(i) PROVE LInv'
    <2>1. /\ pc = "update" /\ pc' = "update"
          /\ UNCHANGED <<currLocale, locale, changedLocale, tainted,
                         oldRequests, health>>
          /\ Present(oldRequests) = {}
      BY <1>6 DEF SaveNew
    <2>2. /\ InLanguage(ctx, locale) => InLanguage(ctx', locale)
          /\ InLanguage(ctx, locale) /\ InLanguage(disk, locale) =>
                InLanguage(disk', locale)
      BY <1>1, <1>6, Languages
    <2>3. changedLocale /\ health # "failed" => SwitchUpdate'
      BY <2>1, <2>2 DEF LInv, SwitchUpdate
    <2> QED BY <2>1, <2>2, <2>3 DEF LInv, SavedLocaleTellsTruth
  <1>7. CASE FinishUpdate
    <2>1. /\ pc = "update" /\ pc' = "synced" /\ Present(oldRequests) = {}
          /\ UNCHANGED <<ctx, disk, locale>>
          /\ currLocale' = IF changedLocale THEN locale ELSE currLocale
          /\ tainted' = IF changedLocale THEN disk # ctx \/ health = "failed"
                                         ELSE tainted
      BY <1>7 DEF FinishUpdate
    <2>2. currLocale' = locale
      BY <2>1 DEF LInv
    <2>3. ASSUME ~tainted' PROVE InLanguage(ctx, locale) /\ InLanguage(disk, locale)
      <3>1. CASE changedLocale
        <4>1. disk = ctx /\ health # "failed"
          BY <2>1, <2>3, <3>1
        <4> QED BY <2>1, <3>1, <4>1 DEF LInv, SwitchUpdate
      <3>2. CASE ~changedLocale
        BY <2>1, <2>3, <3>2 DEF LInv
      <3> QED BY <3>1, <3>2
    <2> QED BY <2>1, <2>2, <2>3 DEF LInv, SavedLocaleTellsTruth
  <1>8. CASE Crash
    <2>1. /\ pc' = "off" /\ ctx' = NoRows
          /\ tainted' = (tainted \/ (pc = "update" /\ changedLocale))
          /\ UNCHANGED <<disk, currLocale, locale>>
      BY <1>8 DEF Crash
    <2>2. ASSUME ~tainted' PROVE InLanguage(disk, currLocale)
      BY <2>1, <2>2 DEF LInv, SavedLocaleTellsTruth
    <2>3. InLanguage(NoRows, currLocale)
      BY DEF InLanguage, NoRows, Present
    <2> QED BY <2>1, <2>2, <2>3 DEF LInv, SavedLocaleTellsTruth
  <1>9. CASE UNCHANGED vars
    BY <1>9 DEF vars, LInv, SavedLocaleTellsTruth, SwitchUpdate, InLanguage,
                Present
  <1> QED BY <1>2, <1>3, <1>4, <1>5, <1>6, <1>7, <1>8, <1>9 DEF Next, UpdateStep

(***************************************************************************)
(* The saved locale tells the language of every row at rest, in memory and *)
(* on disk, unless a switch of language was cut short: however many copies *)
(* of a request an earlier throw left, the switch replaces all of them.    *)
(***************************************************************************)
THEOREM LocaleIsTrue == Spec => []SavedLocaleTellsTruth
  <1>1. Init => LInv
    <2>1. \A l : InLanguage(NoRows, l)
      BY DEF InLanguage, NoRows, Present
    <2> QED BY <2>1 DEF Init, LInv, SavedLocaleTellsTruth
  <1>2. IInv /\ IInv' /\ LInv /\ [Next]_vars => LInv'
    BY LanguageInductive
  <1>3. LInv => SavedLocaleTellsTruth
    BY DEF LInv
  <1> QED BY <1>1, <1>2, <1>3, Inductive, PTL DEF Spec

-----------------------------------------------------------------------------
(***************************************************************************)
(* The cache implements ShownRequests while no fetch throws.  What is      *)
(* shown after a relaunch is what an update left on disk: each row was     *)
(* sent by the server at some time.                                        *)
(***************************************************************************)
FromServer(t) ==
    \A x \in Present(t) : <<t[x].id, t[x].status>> \in served

SInv ==
    /\ fetchErrors = 0
    /\ FromServer(ctx) /\ FromServer(disk)
    /\ Sent(fetched) \subseteq served

LEMMA ServedInductive ==
    ASSUME MaxFetchErrors = 0, IInv, SInv, [HNext]_<<vars, served>>
    PROVE  SInv'
  <1>1. TypeOK /\ ~FetchThrows
    BY DEF IInv, SInv, FetchThrows
  <1>2. CASE UNCHANGED <<vars, served>>
    BY <1>2 DEF vars, SInv, FromServer, Present, Sent, Listed
  <1> SUFFICES ASSUME Next, served' = served \cup Sent(fetched') PROVE SInv'
    BY <1>2 DEF HNext
  <1>3. ASSUME NEW t, FromServer(t)
        PROVE  \A x \in Present(t) : <<t[x].id, t[x].status>> \in served'
    BY <1>3 DEF FromServer
  <1>4. Sent(fetched') \subseteq served'
    OBVIOUS
  <1>5. ASSUME UNCHANGED <<ctx, disk, fetchErrors>> PROVE SInv'
    BY <1>3, <1>4, <1>5 DEF SInv, FromServer, Present, Sent, Listed
  <1>6. ASSUME NEW l \in Locales, Launch(l) PROVE SInv'
    <2>1. ctx' = disk /\ disk' = disk /\ fetchErrors' = fetchErrors
      BY <1>1, <1>6 DEF Launch, loadAllRequests, FetchReturns
    <2> QED BY <1>3, <1>4, <2>1 DEF SInv, FromServer, Present, Sent, Listed
  <1>7. ASSUME NEW f \in RequestList, BeginUpdate(f) PROVE SInv'
    BY <1>1, <1>5, <1>7 DEF BeginUpdate, loadAllRequests, FetchReturns
  <1>8. ASSUME fetchErrors' = fetchErrors, disk' = ctx' \/ disk' = disk,
               \A x \in Present(ctx') :
                    <<ctx'[x].id, ctx'[x].status>> \in served'
        PROVE  SInv'
    <2>1. \A x \in Present(disk') : <<disk'[x].id, disk'[x].status>> \in served'
      <3>1. CASE disk' = ctx'
        BY <1>8, <3>1
      <3>2. CASE disk' = disk
        BY <1>3, <3>2 DEF SInv
      <3> QED BY <1>8, <3>1, <3>2
    <2>2. FromServer(ctx)' /\ FromServer(disk)'
      BY <1>8, <2>1 DEF FromServer, Present
    <2> QED BY <1>4, <1>8, <2>2 DEF SInv, Sent, Listed
  <1>9. ASSUME NEW x \in Objs, LeaveMatching(x) PROVE SInv'
    <2>1. CASE oldRequests[x].isNew
      <3>1. oldRequests[x].id \in Ids
        BY <1>1, <1>9, TableFacts DEF LeaveMatching, TypeOK, Row
      <3>2. markRequestAsOld(oldRequests[x].id)
        BY <1>9, <2>1 DEF LeaveMatching
      <3>3. /\ Present(ctx') = Present(ctx)
            /\ \A y \in Present(ctx) : /\ ctx'[y].id = ctx[y].id
                                       /\ ctx'[y].status = ctx[y].status
            /\ disk' = ctx' \/ disk' = disk
        BY <1>1, <3>1, <3>2, MarkEffect
      <3>4. fetchErrors' = fetchErrors
        BY <1>1, <3>2 DEF markRequestAsOld, FetchReturns
      <3>5. \A y \in Present(ctx) : <<ctx[y].id, ctx[y].status>> \in served'
        BY <1>3 DEF SInv
      <3> QED BY <1>8, <3>3, <3>4, <3>5
    <2>2. CASE ~oldRequests[x].isNew
      BY <1>5, <1>9, <2>2 DEF LeaveMatching
    <2> QED BY <2>1, <2>2
  <1>10. ASSUME NEW x \in Objs, DeleteOld(x) PROVE SInv'
    <2>1. PICK i \in Ids : deleteRequest(i)
      BY <1>1, <1>10, TableFacts DEF DeleteOld, TypeOK, Row
    <2>2. fetchErrors' = fetchErrors
      BY <1>1, <2>1 DEF deleteRequest, FetchReturns
    <2>3. disk' = ctx' \/ disk' = disk
      BY <1>1, <2>1, <2>2, DeleteEffect
    <2>4. \A y \in Present(ctx') : y \in Present(ctx) /\ ctx'[y] = ctx[y]
      <3>1. CASE ctx' = ctx
        BY <3>1
      <3>2. CASE \E z \in Present(ctx) : ctx' = [ctx EXCEPT ![z] = Absent]
        <4>1. PICK z \in Present(ctx) : ctx' = [ctx EXCEPT ![z] = Absent]
          BY <3>2
        <4>2. \A y \in Objs : ctx'[y] = IF y = z THEN Absent ELSE ctx[y]
          BY <1>1, <4>1 DEF TypeOK, Table
        <4> QED BY <4>2 DEF Present
      <3> QED BY <1>1, <2>1, <2>2, <3>1, <3>2, DeleteEffect DEF RowsOf
    <2>5. \A y \in Present(ctx) : <<ctx[y].id, ctx[y].status>> \in served'
      BY <1>3 DEF SInv
    <2> QED BY <1>8, <2>2, <2>3, <2>4, <2>5
  <1>11. ASSUME NEW i \in Ids, SaveNew(i) PROVE SInv'
    <2> DEFINE r == [id |-> i, status |-> newRequests[i], isNew |-> TRUE,
                     lang |-> locale]
    <2>1. /\ pc = "update" /\ newRequests[i] # Absent /\ fetched' = fetched
          /\ fetchErrors' = fetchErrors
          /\ disk' = ctx' \/ disk' = disk
      BY <1>11 DEF SaveNew, saveRequest, ContextSave
    <2>2. newRequests[i] = fetched[i]
      <3>1. Healthy
        BY DEF IInv, SInv, Uniqueness, Healthy
      <3> QED BY <2>1, <3>1 DEF IInv, HealthyUpdate, NewAsFetched
    <2>3. <<i, newRequests[i]>> \in served'
      BY <2>1, <2>2 DEF Sent, Listed
    <2>4. PICK x \in Objs : ctx' = [ctx EXCEPT ![x] = r]
      BY <1>11 DEF SaveNew, saveRequest
    <2>5. \A y \in Objs : ctx'[y] = IF y = x THEN r ELSE ctx[y]
      BY <1>1, <2>4 DEF TypeOK, Table
    <2>6. r.id = i /\ r.status = newRequests[i]
      OBVIOUS
    <2> HIDE DEF r
    <2>7. \A y \in Present(ctx) : <<ctx[y].id, ctx[y].status>> \in served'
      BY <1>3 DEF SInv
    <2>8. \A y \in Present(ctx') : <<ctx'[y].id, ctx'[y].status>> \in served'
      BY <2>3, <2>5, <2>6, <2>7 DEF Present
    <2> QED BY <1>8, <2>1, <2>8
  <1>12. CASE FinishUpdate
    BY <1>1, <1>5, <1>12 DEF FinishUpdate, loadAllRequests, FetchReturns
  <1>13. CASE Crash
    <2>1. ctx' = NoRows /\ disk' = disk /\ fetchErrors' = fetchErrors
      BY <1>13 DEF Crash
    <2>2. Present(ctx') = {}
      BY <2>1 DEF Present, NoRows
    <2> QED BY <1>8, <2>1, <2>2
  <1> QED BY <1>6, <1>7, <1>9, <1>10, <1>11, <1>12, <1>13 DEF Next, UpdateStep

\* The list a table shows, and what it has to do with the fetched list.
LEMMA ShownList ==
    /\ ListOf(NoRows) = Shown!Empty
    /\ \A t \in Table : ListOf(t) \in Shown!Lists
    /\ \A t \in Table : FromServer(t) => Shown!Pairs(ListOf(t)) \subseteq served
    /\ \A t \in Table, l \in RequestList : Mirrors(t, l) => ListOf(t) = l
  <1>1. ListOf(NoRows) = Shown!Empty
    BY DEF ListOf, NoRows, Present, Shown!Empty
  <1> SUFFICES ASSUME NEW t \in Table
               PROVE  /\ ListOf(t) \in Shown!Lists
                      /\ FromServer(t) => Shown!Pairs(ListOf(t)) \subseteq served
                      /\ \A l \in RequestList : Mirrors(t, l) => ListOf(t) = l
    BY <1>1
  <1>2. ASSUME NEW i \in Ids
        PROVE  \/ /\ \A x \in Present(t) : t[x].id # i
                  /\ ListOf(t)[i] = Absent
               \/ \E x \in Present(t) :
                    t[x].id = i /\ ListOf(t)[i] = t[x].status
    <2>1. CASE \A x \in Present(t) : t[x].id # i
      BY <2>1 DEF ListOf
    <2>2. CASE \E x \in Present(t) : t[x].id = i
      <3> DEFINE c == CHOOSE x \in Present(t) : t[x].id = i
      <3>1. c \in Present(t) /\ t[c].id = i
        BY <2>2
      <3>2. ListOf(t)[i] = t[c].status
        BY <2>2 DEF ListOf
      <3> HIDE DEF c
      <3> QED BY <3>1, <3>2
    <2> QED BY <2>1, <2>2
  <1>3. \A x \in Present(t) : t[x].id \in Ids /\ t[x].status \in Statuses
    BY RowFields
  <1>4. ListOf(t) = [i \in Ids |-> ListOf(t)[i]]
    BY DEF ListOf
  <1>5. ListOf(t) \in Shown!Lists
    BY <1>2, <1>3, <1>4 DEF Shown!Lists
  <1>6. ASSUME FromServer(t) PROVE Shown!Pairs(ListOf(t)) \subseteq served
    <2> SUFFICES ASSUME NEW i \in Ids, ListOf(t)[i] # Absent
                 PROVE  <<i, ListOf(t)[i]>> \in served
      BY DEF Shown!Pairs
    <2>1. PICK x \in Present(t) : t[x].id = i /\ ListOf(t)[i] = t[x].status
      BY <1>2
    <2> QED BY <1>6, <2>1 DEF FromServer
  <1>7. ASSUME NEW l \in RequestList, Mirrors(t, l) PROVE ListOf(t) = l
    <2>1. ASSUME NEW i \in Ids PROVE ListOf(t)[i] = l[i]
      <3>1. CASE \E x \in Present(t) : t[x].id = i /\ ListOf(t)[i] = t[x].status
        BY <1>7, <3>1 DEF Mirrors
      <3>2. CASE ListOf(t)[i] = Absent /\ \A x \in Present(t) : t[x].id # i
        BY <1>7, <3>2 DEF Mirrors, Listed
      <3> QED BY <1>2, <3>1, <3>2
    <2>2. l = [i \in Ids |-> l[i]]
      BY DEF RequestList
    <2> QED BY <1>4, <2>1, <2>2
  <1> QED BY <1>5, <1>6, <1>7

(***************************************************************************)
(* Every step of the cache is a step of ShownRequests, or changes nothing  *)
(* that is shown.                                                          *)
(***************************************************************************)
LEMMA StepRefines ==
    ASSUME MaxFetchErrors = 0, IInv, IInv', SInv, [HNext]_<<vars, served>>
    PROVE  [Shown!Next]_(Shown!vars)
  <1>1. TypeOK /\ TypeOK' /\ ~FetchThrows
    BY DEF IInv, SInv, FetchThrows
  <1>2. CASE UNCHANGED <<vars, served>>
    BY <1>2 DEF vars, Shown!vars, ListOf, Present
  <1> SUFFICES ASSUME Next, served' = served \cup Sent(fetched')
               PROVE  [Shown!Next]_(Shown!vars)
    BY <1>2 DEF HNext
  <1>3. fetched' = fetched => served' = served
    BY DEF SInv, Sent, Listed
  <1>4. ASSUME NEW l \in Locales, Launch(l) PROVE Shown!Next
    <2>1. /\ pc = "off" /\ pc' = "loaded" /\ userRequests' = disk
          /\ fetched' = fetched
      BY <1>1, <1>4 DEF Launch, loadAllRequests
    <2>2. disk \in Table /\ FromServer(disk)
      BY <1>1 DEF TypeOK, SInv
    <2>3. ListOf(userRequests)' = ListOf(disk)
      BY <2>1 DEF ListOf, Present
    <2>4. Shown!Reopen(ListOf(disk))
      BY <1>3, <2>1, <2>2, <2>3, ShownList DEF Shown!Reopen
    <2> QED BY <2>2, <2>4, ShownList DEF Shown!Next
  <1>5. ASSUME NEW f \in RequestList, BeginUpdate(f) PROVE Shown!Next
    <2>1. /\ pc # "off" /\ pc' # "off" /\ userRequests' = userRequests
          /\ fetched' = f
      BY <1>5 DEF BeginUpdate
    <2>2. ListOf(userRequests)' = ListOf(userRequests)
      BY <2>1 DEF ListOf, Present
    <2>3. served' = served \cup Shown!Pairs(f)
      BY <2>1 DEF Sent, Listed, Shown!Pairs
    <2>4. Shown!Receive(f)
      BY <2>1, <2>2, <2>3 DEF Shown!Receive
    <2> QED BY <2>4 DEF Shown!Next, Shown!Lists, RequestList
  <1>6. ASSUME \/ \E x \in Objs : LeaveMatching(x) \/ DeleteOld(x)
               \/ \E i \in Ids : SaveNew(i)
        PROVE  UNCHANGED Shown!vars
    <2>1. pc' = pc /\ userRequests' = userRequests /\ fetched' = fetched
      BY <1>6 DEF LeaveMatching, DeleteOld, SaveNew
    <2>2. ListOf(userRequests)' = ListOf(userRequests)
      BY <2>1 DEF ListOf, Present
    <2> QED BY <1>3, <2>1, <2>2 DEF Shown!vars
  <1>7. CASE FinishUpdate
    <2>1. /\ pc # "off" /\ pc' = "synced" /\ userRequests' = ctx /\ ctx' = ctx
          /\ fetched' = fetched /\ fetchErrors' = fetchErrors
      BY <1>1, <1>7 DEF FinishUpdate, loadAllRequests, FetchReturns
    <2>2. Mirrors(ctx, fetched)
      <3>1. health' = "exact"
        BY <2>1 DEF SInv, IInv, Uniqueness
      <3> QED BY <2>1, <3>1 DEF IInv, Mirrors, Present, Listed
    <2>3. ListOf(ctx) = fetched
      BY <1>1, <2>2, ShownList DEF TypeOK
    <2>4. ListOf(userRequests)' = ListOf(ctx)
      BY <2>1 DEF ListOf, Present
    <2>5. Shown!Apply
      BY <1>3, <2>1, <2>3, <2>4 DEF Shown!Apply
    <2> QED BY <2>5 DEF Shown!Next
  <1>8. CASE Crash
    <2>1. /\ pc # "off" /\ pc' = "off" /\ userRequests' = NoRows
          /\ fetched' = NoRequests
      BY <1>8 DEF Crash
    <2>2. ListOf(userRequests)' = Shown!Empty
      <3>1. ListOf(userRequests)' = ListOf(NoRows)
        BY <2>1 DEF ListOf, Present
      <3> QED BY <3>1, ShownList
    <2>3. fetched' = Shown!Empty /\ served' = served
      BY <2>1 DEF NoRequests, Shown!Empty, Sent, Listed
    <2>4. Shown!Close
      BY <2>1, <2>2, <2>3 DEF Shown!Close
    <2> QED BY <2>4 DEF Shown!Next
  <1> QED BY <1>4, <1>5, <1>6, <1>7, <1>8 DEF Next, UpdateStep

(***************************************************************************)
(* To the user, an update with the reload after it is one replacement of   *)
(* the shown list by the fetched one, and a relaunch shows only what the   *)
(* server has sent: the cache implements ShownRequests as long as no fetch *)
(* throws, wherever it is killed and whatever saves fail.                  *)
(***************************************************************************)
THEOREM CacheImplementsShown ==
    ASSUME MaxFetchErrors = 0
    PROVE  HSpec => ImplementsShownRequests
  <1>1. HInit => Init
    BY DEF HInit
  <1>2. [HNext]_<<vars, served>> => [Next]_vars
    BY DEF HNext
  <1>3. HInit => SInv
    BY DEF HInit, Init, SInv, FromServer, Present, NoRows, Sent, Listed,
           NoRequests
  <1>4. IInv /\ SInv /\ [HNext]_<<vars, served>> => SInv'
    BY ServedInductive
  <1>5. HInit => Shown!Init
    <2> SUFFICES ASSUME HInit PROVE Shown!Init
      OBVIOUS
    <2>1. ListOf(userRequests) = Shown!Empty
      BY ShownList DEF HInit, Init
    <2> QED BY <2>1 DEF HInit, Init, Shown!Init, Shown!Empty, NoRequests
  <1>6. IInv /\ IInv' /\ SInv /\ [HNext]_<<vars, served>> =>
            [Shown!Next]_(Shown!vars)
    BY StepRefines
  <1> QED BY <1>1, <1>2, <1>3, <1>4, <1>5, <1>6, Inductive, PTL
      DEF HSpec, Spec, ImplementsShownRequests, Shown!Spec
=============================================================================
