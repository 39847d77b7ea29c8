--------------------------- MODULE StorageProofs ----------------------------
(*****************************************************************************)
(* Proofs about the tiers: the exports never show what DuckDB does not have, *)
(* however operations overlap and fail; and while they do not overlap, what  *)
(* add_submission() answered for is kept, and rows only improve.             *)
(*****************************************************************************)
EXTENDS Storage, TLAPS

TypeInv == TypeOK /\ JobInv

-----------------------------------------------------------------------------
\* The keys of an id, with an account's suffix or without.
LEMMA KeysOfIds ==
    ASSUME NEW i \in Ids, NEW a \in Accounts
    PROVE  i \in Keys /\ <<i, a>> \in Keys /\ <<i, a>> \notin Ids
BY StorageAssumption DEF StorageAssumption, Keys

\* Resolving a key of an account's gives a key of the account's.
LEMMA ResolveOwn ==
    ASSUME NEW a \in Accounts, NEW k,
           k \in Ids \/ \E i \in Ids : k = <<i, a>>
    PROVE  /\ Resolve(k, a) \in Keys
           /\ Resolve(k, a) \in Ids \/ \E i \in Ids : Resolve(k, a) = <<i, a>>
BY KeysOfIds DEF Resolve

\* The aggregates that the operations build are aggregates.
LEMMA ScopedTyped ==
    ASSUME NEW f \in Aggregate PROVE Scoped(f) \in Aggregate
BY DEF Scoped, Aggregate

LEMMA UpsertedTyped ==
    ASSUME rows \in Aggregate, agg \in [Threads -> Aggregate], NEW t \in Threads, NEW S
    PROVE  Upserted(t, S) \in Aggregate
<1>1. agg[t] \in Aggregate
  OBVIOUS
<1> QED BY <1>1 DEF Upserted, Aggregate

LEMMA EmptyTyped == Empty \in Aggregate
BY DEF Empty, Aggregate

-----------------------------------------------------------------------------
\* Types, and the key a storing thread is about, are kept by every step.
LEMMA TypeStep == TypeInv /\ [Next]_vars => TypeInv'
<1> SUFFICES ASSUME TypeInv, [Next]_vars PROVE TypeInv'
  OBVIOUS
<1> USE EmptyTyped, StorageAssumption
    DEF TypeInv, TypeOK, JobInv, Storing, Saving, tiers, past, Goto
<1>1. ASSUME NEW t \in Threads, NEW i \in Ids, NEW a \in Accounts,
             PublicRecord(t, i, a)
      PROVE TypeInv'
  <2>1. [key |-> i, account |-> a, code |-> FALSE] \in Job
    BY KeysOfIds DEF Job
  <2> QED BY <1>1, <2>1 DEF PublicRecord, Begin, StorageAssumption, NoJob
<1>2. ASSUME NEW t \in Threads, NEW i \in Ids, NEW a \in Accounts,
             AuthRecord(t, i, a)
      PROVE TypeInv'
  <2>1. [key |-> Resolve(i, a), account |-> a, code |-> FALSE] \in Job
    BY ResolveOwn DEF Job
  <2>2. Resolve(i, a) \in Ids \/ \E j \in Ids : Resolve(i, a) = <<j, a>>
    BY ResolveOwn
  <2> QED BY <1>2, <2>1, <2>2 DEF AuthRecord, Begin, StorageAssumption, NoJob
<1>3. ASSUME NEW t \in Threads, Note(t) PROVE TypeInv'
  BY <1>3, ScopedTyped DEF Note, Begin, SaveThen
<1>4. ASSUME NEW t \in Threads, Review(t) PROVE TypeInv'
  BY <1>4 DEF Review, Begin, SaveThen
<1>5. ASSUME NEW t \in Threads, AuthLook(t) PROVE TypeInv'
  <2>1. PICK fetched \in BOOLEAN :
          /\ job' = [job EXCEPT ![t].code = fetched]
          /\ \E p \in {"problem", "enrich", "skip"} : pc' = [pc EXCEPT ![t] = p]
    BY <1>5 DEF AuthLook
  <2>2. pc[t] = "look" /\ job[t] \in Job
    BY <1>5 DEF AuthLook
  <2>3. /\ job' = [job EXCEPT ![t] = [job[t] EXCEPT !.code = fetched]]
        /\ [job[t] EXCEPT !.code = fetched] \in Job
        /\ [job[t] EXCEPT !.code = fetched].key = job[t].key
        /\ [job[t] EXCEPT !.code = fetched].account = job[t].account
    BY <2>1, <2>2 DEF Job
  <2> QED BY SMTT(30), <1>5, <2>1, <2>2, <2>3 DEF AuthLook, StorageAssumption, NoJob
<1>6. ASSUME NEW t \in Threads, AuthSkip(t) PROVE TypeInv'
  BY <1>6 DEF AuthSkip, Return
<1>7. ASSUME NEW t \in Threads, AuthProblem(t) PROVE TypeInv'
  BY <1>7 DEF AuthProblem
<1>8. ASSUME NEW t \in Threads, AuthEnrich(t) PROVE TypeInv'
  <2>1. job[t].key \in Keys /\ rows[job[t].key] \in Row
    BY <1>8 DEF AuthEnrich, Job, Aggregate
  <2>2. [rows EXCEPT ![job[t].key] = [@ EXCEPT !.code = TRUE]] \in Aggregate
    BY <2>1 DEF Aggregate, Row
  <2> QED BY <1>8, <2>2 DEF AuthEnrich, SaveThen
<1>9. ASSUME NEW t \in Threads, CreateProblem(t) PROVE TypeInv'
  BY <1>9 DEF CreateProblem
<1>10. ASSUME NEW t \in Threads, AddRead(t) PROVE TypeInv'
  BY <1>10 DEF AddRead
<1>11. ASSUME NEW t \in Threads, AddResolve(t) PROVE TypeInv'
  <2>1. pc[t] = "resolve" /\ job[t] \in Job /\ job[t].account \in Accounts
    BY <1>11 DEF AddResolve, Job
  <2> DEFINE k == Resolve(job[t].key, job[t].account)
             j == [job[t] EXCEPT !.key = k]
  <2>2. k \in Keys /\ (k \in Ids \/ \E i \in Ids : k = <<i, job[t].account>>)
    BY <2>1, ResolveOwn
  <2>3. j \in Job /\ j.key = k /\ j.account = job[t].account
    BY <2>1, <2>2 DEF Job
  <2>4. job' = [job EXCEPT ![t] = j]
    BY <1>11 DEF AddResolve
  <2>5. j.key \in Ids \/ \E i \in Ids : j.key = <<i, j.account>>
    BY <2>2, <2>3
  <2> HIDE DEF j
  <2>6. /\ job'[t] \in Job
        /\ job'[t].key \in Ids \/ \E i \in Ids : job'[t].key = <<i, job'[t].account>>
        /\ job' \in [Threads -> Job \cup {NoJob}]
        /\ \A u \in Threads \ {t} : job'[u] = job[u]
    BY <2>3, <2>4, <2>5
  <2> QED BY <1>11, <2>6 DEF AddResolve, StorageAssumption, NoJob
<1>12. ASSUME NEW t \in Threads, AddExisting(t) PROVE TypeInv'
  <2>1. <<job[t].key, job[t].account>> \in Keys \X Accounts
    BY <1>12 DEF AddExisting, Job
  <2> QED BY <1>12, <2>1 DEF AddExisting, Answer, Return
<1>13. ASSUME NEW t \in Threads, AddNew(t) PROVE TypeInv'
  <2>1. NewRow(t) \in Row
    BY <1>13 DEF AddNew, NewRow, Row, Job
  <2>2. [agg[t] EXCEPT ![job[t].key] = NewRow(t)] \in Aggregate
    BY <2>1 DEF Aggregate
  <2> QED BY <1>13, <2>2 DEF AddNew, SaveThen
<1>14. ASSUME NEW t \in Threads, SaveDuck(t) PROVE TypeInv'
  BY <1>14, UpsertedTyped DEF SaveDuck
<1>15. ASSUME NEW t \in Threads, SaveTree(t) PROVE TypeInv'
  BY <1>15 DEF SaveTree
<1>16. ASSUME NEW t \in Threads, SaveList(t) PROVE TypeInv'
  BY <1>16 DEF SaveList
<1>17. ASSUME NEW t \in Threads, SaveParquet(t) PROVE TypeInv'
  <2>1. parquet' \in Aggregate /\ pc[t] = "parquet"
        /\ UNCHANGED <<exists, rows, tree, serial, broken, narrowed>>
    BY <1>17 DEF SaveParquet
  <2>2. CASE then[t] = "idle"
    BY <1>17, <2>1, <2>2 DEF SaveParquet, Return
  <2>3. CASE then[t] = "added"
    <3>1. <<job[t].key, job[t].account>> \in Keys \X Accounts
      BY <2>1, <2>3 DEF Job
    <3> QED BY <1>17, <2>1, <2>3, <3>1 DEF SaveParquet, Return, Answer
  <2>4. CASE then[t] = "read"
    BY <1>17, <2>1, <2>4 DEF SaveParquet
  <2>5. CASE then[t] = "again"
    BY <1>17, <2>1, <2>5 DEF SaveParquet, SaveThen
  <2> QED BY <2>2, <2>3, <2>4, <2>5
<1>18. ASSUME NEW t \in Threads, Fails(t) PROVE TypeInv'
  BY <1>18, UpsertedTyped DEF Fails, Return
<1>19. CASE UNCHANGED vars
  BY <1>19 DEF vars
<1> QED BY <1>1, <1>2, <1>3, <1>4, <1>5, <1>6, <1>7, <1>8, <1>9, <1>10, <1>11, <1>12,
           <1>13, <1>14, <1>15, <1>16, <1>17, <1>18, <1>19 DEF Next, Begins, Step

LEMMA TypeInit == Init => TypeInv
BY EmptyTyped
   DEF Init, TypeInv, TypeOK, JobInv, Storing, Saving, Empty

\* Every variable stays within the values the code can give it, and a thread
\* that stores a submission does so under a key of its own account.
THEOREM TypeCorrect == Spec => [](TypeOK /\ JobInv)
<1>1. Spec => []TypeInv
  BY TypeInit, TypeStep, PTL DEF Spec
<1> QED BY <1>1, PTL DEF TypeInv

-----------------------------------------------------------------------------
\* What a thread saves covers what is stored, and what it is about to write to
\* the exports is stored already.
LEMMA WithinGrows ==
    ASSUME NEW f, Within(f, rows), \A k \in Keys : rows[k] # NoRow => rows'[k] # NoRow
    PROVE  Within(f, rows')
BY DEF Within

\* No step takes a row out of DuckDB.
LEMMA RowsStay ==
    TypeInv /\ [Next]_vars => \A k \in Keys : rows[k] # NoRow => rows'[k] # NoRow
<1> SUFFICES ASSUME TypeInv, [Next]_vars, NEW k \in Keys, rows[k] # NoRow
             PROVE  rows'[k] # NoRow
  OBVIOUS
<1>1. ASSUME NEW t \in Threads, NEW S, rows' = Upserted(t, S) PROVE rows'[k] # NoRow
  BY <1>1 DEF Upserted
<1>2. CASE rows' = rows
  BY <1>2
<1>3. rows' = rows \/ \E t \in Threads : \E S \in SUBSET Keys : rows' = Upserted(t, S)
  <2> USE DEF tiers
  <2>1. ASSUME NEW t \in Threads, Begins(t) PROVE rows' = rows
    BY <2>1 DEF Begins, PublicRecord, AuthRecord, Note, Review
  <2>2. ASSUME NEW t \in Threads, Step(t)
        PROVE  rows' = rows \/ \E S \in SUBSET Keys : rows' = Upserted(t, S)
    BY <2>2 DEF Step, AuthLook, AuthSkip, AuthProblem, AuthEnrich, CreateProblem,
       AddRead, AddResolve, AddExisting, AddNew, SaveDuck, SaveTree, SaveList,
       SaveParquet, Fails
  <2> QED BY <2>1, <2>2 DEF Next, vars
<1> QED BY <1>1, <1>2, <1>3

LEMMA FollowStep == TypeInv /\ FollowInv /\ [Next]_vars => FollowInv'
<1> SUFFICES ASSUME TypeInv, FollowInv, [Next]_vars PROVE FollowInv'
  OBVIOUS
<1> DEFINE Kept(t) == \A u \in Threads \ {t} : /\ agg'[u] = agg[u]
                                               /\ snap'[u] = snap[u]
                                               /\ pc'[u] = pc[u]
<1>1. \A k \in Keys : rows[k] # NoRow => rows'[k] # NoRow
  BY RowsStay
<1>2. /\ Within(tree, rows') /\ Within(parquet, rows')
      /\ \A u \in Threads : /\ Within(snap[u], rows')
                            /\ pc[u] = "tree" => Within(agg[u], rows')
  BY <1>1, WithinGrows DEF FollowInv
<1>3. Within(Empty, rows')
  BY DEF Within, Empty
<1>4. ASSUME NEW t \in Threads, Kept(t),
             Within(tree', rows'), Within(parquet', rows'), Within(snap'[t], rows'),
             pc'[t] = "tree" => Within(agg'[t], rows')
      PROVE  FollowInv'
  BY <1>2, <1>4 DEF FollowInv
<1> HIDE DEF Kept
<1> USE DEF TypeInv, TypeOK, tiers, Goto
<1>5. ASSUME NEW t \in Threads, Begins(t) PROVE FollowInv'
  <2>1. /\ UNCHANGED <<tree, parquet, snap>>
        /\ pc'[t] # "tree"
        /\ \A u \in Threads \ {t} : agg'[u] = agg[u] /\ pc'[u] = pc[u]
    BY <1>5 DEF Begins, PublicRecord, AuthRecord, Note, Review, SaveThen
  <2> QED BY <1>2, <1>4, <2>1 DEF Kept
<1>6. ASSUME NEW t \in Threads, AuthLook(t) \/ AuthSkip(t) \/ AuthProblem(t)
                 \/ AuthEnrich(t) \/ AddRead(t) \/ AddResolve(t) \/ AddExisting(t)
                 \/ AddNew(t)
      PROVE FollowInv'
  <2>1. /\ UNCHANGED <<tree, parquet>>
        /\ snap'[t] \in {snap[t], Empty}
        /\ pc'[t] # "tree"
        /\ Kept(t)
    BY <1>6 DEF AuthLook, AuthSkip, AuthProblem, AuthEnrich, AddRead, AddResolve,
       AddExisting, AddNew, SaveThen, Return, Kept
  <2> QED BY <1>2, <1>3, <1>4, <2>1
<1>7. ASSUME NEW t \in Threads, CreateProblem(t) PROVE FollowInv'
  <2>1. UNCHANGED <<tree, parquet, snap>> /\ agg'[t] = Empty /\ Kept(t)
    BY <1>7 DEF CreateProblem, Kept
  <2> QED BY <1>2, <1>3, <1>4, <2>1
<1>8. ASSUME NEW t \in Threads, SaveDuck(t) PROVE FollowInv'
  <2>1. UNCHANGED <<tree, parquet, snap, agg>> /\ Kept(t)
    BY <1>8 DEF SaveDuck, Kept
  <2>2. Within(agg[t], rows')
    BY <1>8 DEF SaveDuck, Upserted, Within
  <2> QED BY <1>2, <1>4, <2>1, <2>2
<1>9. ASSUME NEW t \in Threads, SaveTree(t) PROVE FollowInv'
  <2>1. /\ UNCHANGED <<parquet, snap>> /\ Kept(t)
        /\ tree' = agg[t] /\ pc[t] = "tree" /\ pc'[t] = "list"
    BY <1>9 DEF SaveTree, Kept
  <2> QED BY <1>2, <1>4, <2>1
<1>10. ASSUME NEW t \in Threads, SaveList(t) PROVE FollowInv'
  <2>1. /\ UNCHANGED <<tree, parquet, rows>> /\ Kept(t)
        /\ snap'[t] = rows /\ pc'[t] = "parquet"
    BY <1>10 DEF SaveList, Kept
  <2> QED BY <1>2, <1>4, <2>1 DEF Within
<1>11. ASSUME NEW t \in Threads, SaveParquet(t) PROVE FollowInv'
  <2>1. UNCHANGED tree /\ parquet' = snap[t] /\ Kept(t)
        /\ snap'[t] \in {snap[t], Empty} /\ pc'[t] # "tree"
    BY <1>11 DEF SaveParquet, Return, SaveThen, Kept
  <2> QED BY <1>2, <1>3, <1>4, <2>1
<1>12. ASSUME NEW t \in Threads, Fails(t) PROVE FollowInv'
  <2>1. /\ tree' \in {tree, Empty} /\ parquet' \in {parquet, Empty} /\ Kept(t)
        /\ snap'[t] = Empty /\ pc'[t] = "idle"
    BY <1>12 DEF Fails, Return, Kept
  <2> QED BY <1>2, <1>3, <1>4, <2>1
<1>13. CASE UNCHANGED vars
  BY <1>2, <1>13 DEF vars, FollowInv
<1> QED BY <1>5, <1>6, <1>7, <1>8, <1>9, <1>10, <1>11, <1>12, <1>13
        DEF Next, Step

\* Neither export ever shows a submission DuckDB does not have, whatever
\* overlaps, fails or crashes: what is written to them was stored before, and
\* nothing takes a row away.
THEOREM ExportsAlwaysFollow == Spec => []ExportsFollow
<1>1. Init => FollowInv
  BY DEF Init, FollowInv, Within, Empty
<1>2. FollowInv => ExportsFollow
  BY DEF FollowInv, Within, ExportsFollow
<1> QED BY <1>1, <1>2, TypeInit, TypeStep, FollowStep, PTL DEF Spec

-----------------------------------------------------------------------------
\* A suffixed key is only ever its account's: nothing else is stored under one.
LEMMA OwnStep == TypeInv /\ OwnInv /\ [Next]_vars => OwnInv'
<1> SUFFICES ASSUME TypeInv, OwnInv, [Next]_vars PROVE OwnInv'
  OBVIOUS
<1> USE DEF TypeInv, TypeOK, tiers, past
<1>1. ASSUME NEW f \in Aggregate, OwnKeys(f) PROVE OwnKeys(Scoped(f))
  BY <1>1, KeysOfIds, StorageAssumption DEF OwnKeys, Scoped, StorageAssumption
<1>2. OwnKeys(Empty)
  BY KeysOfIds DEF OwnKeys, Empty
<1>3. ASSUME NEW t \in Threads, NEW S PROVE OwnKeys(Upserted(t, S))
  BY KeysOfIds DEF OwnKeys, OwnInv, Upserted
<1>4. ASSUME NEW t \in Threads, OwnKeys(rows'), OwnKeys(agg'[t]),
             \A u \in Threads \ {t} : agg'[u] = agg[u]
      PROVE  OwnInv'
  BY <1>4 DEF OwnInv, OwnKeys
<1>5. ASSUME NEW t \in Threads, Begins(t) PROVE OwnInv'
  <2>1. /\ UNCHANGED rows
        /\ agg'[t] \in {agg[t], rows, Scoped(rows)}
        /\ \A u \in Threads \ {t} : agg'[u] = agg[u]
    BY <1>5 DEF Begins, PublicRecord, AuthRecord, Note, Review, SaveThen
  <2>2. OwnKeys(rows')
    BY <2>1 DEF OwnInv, OwnKeys
  <2> QED BY <1>1, <1>4, <2>1, <2>2 DEF OwnInv
<1>6. ASSUME NEW t \in Threads, AuthLook(t) \/ AuthSkip(t) \/ AuthProblem(t)
                 \/ CreateProblem(t) \/ AddRead(t) \/ AddResolve(t)
                 \/ AddExisting(t) \/ SaveTree(t) \/ SaveList(t) \/ SaveParquet(t)
      PROVE OwnInv'
  <2>1. /\ UNCHANGED rows
        /\ agg'[t] \in {agg[t], rows, Empty}
        /\ \A u \in Threads \ {t} : agg'[u] = agg[u]
    BY <1>6 DEF AuthLook, AuthSkip, AuthProblem, CreateProblem, AddRead, AddResolve,
       AddExisting, SaveTree, SaveList, SaveParquet, SaveThen, Return
  <2>2. OwnKeys(rows')
    BY <2>1 DEF OwnInv, OwnKeys
  <2> QED BY <1>2, <1>4, <2>1, <2>2 DEF OwnInv
<1>7. ASSUME NEW t \in Threads, AuthEnrich(t) PROVE OwnInv'
  <2>1. job[t].key \in Keys /\ rows[job[t].key] \in Row
    BY <1>7 DEF AuthEnrich, Job, Aggregate, JobInv, Storing
  <2>2. \A k \in Keys : rows[k] # NoRow => agg'[t][k].owner = rows[k].owner
    BY <1>7, <2>1 DEF AuthEnrich, SaveThen, Row, Aggregate
  <2>3. \A k \in Keys : rows[k] = NoRow => agg'[t][k] = NoRow
    BY <1>7, <2>1 DEF AuthEnrich, SaveThen, Aggregate
  <2>4. OwnKeys(agg'[t])
    BY <2>2, <2>3, KeysOfIds DEF OwnKeys, OwnInv
  <2>5. OwnKeys(rows') /\ \A u \in Threads \ {t} : agg'[u] = agg[u]
    BY <1>7 DEF AuthEnrich, SaveThen, OwnInv, OwnKeys
  <2> QED BY <1>4, <2>4, <2>5
<1>8. ASSUME NEW t \in Threads, AddNew(t) PROVE OwnInv'
  <2>1. /\ job[t].key \in Keys
        /\ job[t].key \in Ids \/ \E i \in Ids : job[t].key = <<i, job[t].account>>
    BY <1>8 DEF AddNew, JobInv, Storing, Job
  <2>2. /\ agg'[t] = [agg[t] EXCEPT ![job[t].key] = NewRow(t)]
        /\ OwnKeys(rows') /\ \A u \in Threads \ {t} : agg'[u] = agg[u]
    BY <1>8 DEF AddNew, SaveThen, OwnInv, OwnKeys
  <2>3. ASSUME NEW i \in Ids, NEW a \in Accounts, agg'[t][<<i, a>>] # NoRow
        PROVE  agg'[t][<<i, a>>].owner = a
    <3>1. CASE job[t].key = <<i, a>>
      <4>1. a = job[t].account
        BY <2>1, <3>1, KeysOfIds
      <4> QED BY <2>1, <2>2, <3>1, <4>1 DEF NewRow, Aggregate
    <3>2. CASE job[t].key # <<i, a>>
      <4>1. agg'[t][<<i, a>>] = agg[t][<<i, a>>]
        BY <2>2, <3>2, KeysOfIds DEF Aggregate
      <4> QED BY <2>3, <4>1 DEF OwnInv, OwnKeys
    <3> QED BY <3>1, <3>2
  <2> QED BY <1>4, <2>2, <2>3 DEF OwnKeys
<1>9. ASSUME NEW t \in Threads, SaveDuck(t) PROVE OwnInv'
  <2>1. OwnKeys(Upserted(t, Keys))
    BY <1>3
  <2> QED BY <1>4, <1>9, <2>1 DEF SaveDuck, OwnInv
<1>10. ASSUME NEW t \in Threads, Fails(t) PROVE OwnInv'
  <2>1. PICK S : rows' = rows \/ rows' = Upserted(t, S)
    BY <1>10 DEF Fails
  <2>2. OwnKeys(rows')
    BY <1>3, <2>1 DEF OwnInv, OwnKeys
  <2>3. agg'[t] = Empty /\ \A u \in Threads \ {t} : agg'[u] = agg[u]
    BY <1>10 DEF Fails, Return
  <2> QED BY <1>2, <1>4, <2>2, <2>3
<1>11. CASE UNCHANGED vars
  BY <1>11 DEF vars, OwnInv, OwnKeys
<1> QED BY <1>5, <1>6, <1>7, <1>8, <1>9, <1>10, <1>11 DEF Next, Step

-----------------------------------------------------------------------------
\* An aggregate every row of which is as good as the one f stores.
AsGood(g, f) ==
    \A k \in Keys : g[k] # NoRow /\ f[k] # NoRow => Improves(f[k], g[k])

\* While operations do not overlap, the copies of the others are empty.
LEMMA Alone ==
    ASSUME TypeInv, FreshInv, serial, NEW t \in Threads, pc[t] # "idle"
    PROVE  \A u \in Threads \ {t} : pc[u] = "idle" /\ agg[u] = Empty
BY DEF FreshInv

\* ... and the copy of the operation in progress is as good as what is stored.
LEMMA FreshStep == TypeInv /\ FreshInv /\ [Next]_vars => FreshInv'
<1> SUFFICES ASSUME TypeInv, FreshInv, [Next]_vars PROVE FreshInv'
  OBVIOUS
<1> USE DEF TypeInv, TypeOK, tiers, past, Goto
<1>1. ASSUME NEW t \in Threads,
             \A u \in Threads \ {t} : pc'[u] = pc[u] /\ agg'[u] = agg[u],
             pc'[t] = "idle" => agg'[t] = Empty,
             serial' => /\ \A u \in Threads \ {t} : pc[u] = "idle"
                        /\ AsGood(agg'[t], rows')
      PROVE FreshInv'
  <2>1. \A u \in Threads \ {t}, k \in Keys : serial' => agg'[u][k] = NoRow
    BY <1>1 DEF FreshInv, Empty
  <2> QED BY <1>1, <2>1 DEF FreshInv, AsGood
<1>2. AsGood(Empty, rows') /\ AsGood(rows, rows) /\ AsGood(Scoped(rows), rows)
  <2>1. \A k \in Keys : Scoped(rows)[k] \in {rows[k], NoRow}
    BY DEF Scoped
  <2> QED BY <2>1 DEF AsGood, Empty, Improves
<1>3. ASSUME NEW t \in Threads, Begins(t) PROVE FreshInv'
  <2>1. /\ UNCHANGED rows
        /\ pc[t] = "idle" /\ pc'[t] # "idle"
        /\ agg'[t] \in {agg[t], rows, Scoped(rows)}
        /\ \A u \in Threads \ {t} : agg'[u] = agg[u] /\ pc'[u] = pc[u]
        /\ serial' => \A u \in Threads \ {t} : pc[u] = "idle"
    BY <1>3 DEF Begins, PublicRecord, AuthRecord, Note, Review, SaveThen, Begin
  <2>2. agg[t] = Empty
    BY <2>1 DEF FreshInv
  <2>3. AsGood(agg'[t], rows')
    BY <1>2, <2>1, <2>2 DEF AsGood
  <2> QED BY <1>1, <2>1, <2>3
<1>4. ASSUME NEW t \in Threads, pc[t] # "idle", serial' = serial,
             \A u \in Threads \ {t} : pc'[u] = pc[u] /\ agg'[u] = agg[u],
             pc'[t] = "idle" => agg'[t] = Empty,
             serial => AsGood(agg'[t], rows')
      PROVE FreshInv'
  BY <1>1, <1>4, Alone
<1>5. \A t \in Threads : serial => AsGood(agg[t], rows)
  BY DEF FreshInv, AsGood
<1>6. ASSUME NEW t \in Threads, AuthLook(t) \/ AuthSkip(t) \/ AuthProblem(t)
                 \/ CreateProblem(t) \/ AddRead(t) \/ AddResolve(t)
                 \/ AddExisting(t) \/ SaveTree(t) \/ SaveList(t) \/ SaveParquet(t)
      PROVE FreshInv'
  <2>1. /\ UNCHANGED <<rows, serial>> /\ pc[t] # "idle"
        /\ agg'[t] \in {agg[t], rows, Empty}
        /\ pc'[t] = "idle" => agg'[t] = Empty
        /\ \A u \in Threads \ {t} : agg'[u] = agg[u] /\ pc'[u] = pc[u]
    BY <1>6 DEF AuthLook, AuthSkip, AuthProblem, CreateProblem, AddRead, AddResolve,
       AddExisting, SaveTree, SaveList, SaveParquet, SaveThen, Return
  <2>2. serial => AsGood(agg'[t], rows')
    BY <1>2, <1>5, <2>1 DEF AsGood
  <2> QED BY <1>4, <2>1, <2>2
<1>7. ASSUME NEW t \in Threads, AuthEnrich(t) PROVE FreshInv'
  <2>1. job[t].key \in Keys /\ rows[job[t].key] \in Row
    BY <1>7 DEF AuthEnrich, Job, Aggregate, JobInv, Storing
  <2>2. /\ agg'[t] = [rows EXCEPT ![job[t].key] =
                        [rows[job[t].key] EXCEPT !.code = TRUE]]
        /\ UNCHANGED <<rows, serial>> /\ pc[t] # "idle" /\ pc'[t] # "idle"
        /\ \A u \in Threads \ {t} : agg'[u] = agg[u] /\ pc'[u] = pc[u]
    BY <1>7 DEF AuthEnrich, SaveThen
  <2>3. Improves(rows[job[t].key], [rows[job[t].key] EXCEPT !.code = TRUE])
    BY <2>1 DEF Improves, Row
  <2>4. AsGood(agg'[t], rows')
    BY <2>1, <2>2, <2>3 DEF AsGood, Improves, Aggregate
  <2> QED BY <1>4, <2>2, <2>4
<1>8. ASSUME NEW t \in Threads, AddNew(t) PROVE FreshInv'
  <2>1. /\ agg'[t] = [agg[t] EXCEPT ![job[t].key] = NewRow(t)]
        /\ rows[job[t].key] = NoRow
        /\ UNCHANGED <<rows, serial>> /\ pc[t] # "idle" /\ pc'[t] # "idle"
        /\ \A u \in Threads \ {t} : agg'[u] = agg[u] /\ pc'[u] = pc[u]
    BY <1>8 DEF AddNew, SaveThen
  <2>2. serial => AsGood(agg'[t], rows')
    BY <1>5, <2>1 DEF AsGood, Aggregate
  <2> QED BY <1>4, <2>1, <2>2
<1>9. ASSUME NEW t \in Threads, SaveDuck(t) PROVE FreshInv'
  <2>1. /\ rows' = Upserted(t, Keys)
        /\ UNCHANGED <<agg, serial>> /\ pc[t] # "idle" /\ pc'[t] # "idle"
        /\ \A u \in Threads \ {t} : agg'[u] = agg[u] /\ pc'[u] = pc[u]
    BY <1>9 DEF SaveDuck
  <2>2. AsGood(agg'[t], rows')
    BY <2>1 DEF AsGood, Upserted, Improves
  <2> QED BY <1>4, <2>1, <2>2
<1>10. ASSUME NEW t \in Threads, Fails(t) PROVE FreshInv'
  <2>1. /\ agg'[t] = Empty
        /\ UNCHANGED serial /\ pc[t] # "idle"
        /\ \A u \in Threads \ {t} : agg'[u] = agg[u] /\ pc'[u] = pc[u]
    BY <1>10 DEF Fails, Return
  <2> QED BY <1>2, <1>4, <2>1
<1>11. CASE UNCHANGED vars
  BY <1>11 DEF vars, FreshInv
<1> QED BY <1>3, <1>6, <1>7, <1>8, <1>9, <1>10, <1>11 DEF Next, Step

\* While operations do not overlap, a step changes what is stored by writing
\* rows of the copy, which are as good.
LEMMA ImproveStep ==
    TypeInv /\ FreshInv /\ [Next]_vars
      => (serial' => \A k \in Keys : rows[k] # NoRow =>
            rows'[k] # NoRow /\ Improves(rows[k], rows'[k]))
<1> SUFFICES ASSUME TypeInv, FreshInv, [Next]_vars, serial', NEW k \in Keys,
                    rows[k] # NoRow
             PROVE  rows'[k] # NoRow /\ Improves(rows[k], rows'[k])
  OBVIOUS
<1> USE DEF tiers, past
<1>1. CASE rows' = rows
  BY <1>1 DEF Improves
<1>2. ASSUME NEW t \in Threads, NEW S \in SUBSET Keys, rows' = Upserted(t, S),
             serial
      PROVE  rows'[k] # NoRow /\ Improves(rows[k], rows'[k])
  BY <1>2 DEF Upserted, FreshInv, Improves
<1>3. ASSUME NEW t \in Threads, Begins(t) PROVE rows' = rows
  BY <1>3 DEF Begins, PublicRecord, AuthRecord, Note, Review
<1>4. ASSUME NEW t \in Threads, Step(t)
      PROVE  \/ rows' = rows
             \/ serial /\ \E S \in SUBSET Keys : rows' = Upserted(t, S)
  BY <1>4 DEF Step, AuthLook, AuthSkip, AuthProblem, AuthEnrich, CreateProblem,
     AddRead, AddResolve, AddExisting, AddNew, SaveDuck, SaveTree, SaveList,
     SaveParquet, Fails
<1> QED BY <1>1, <1>2, <1>3, <1>4 DEF Next, vars

LEMMA FreshInit == Init => FreshInv
BY DEF Init, FreshInv, Empty

\* No save takes a row from its owner or the source code from a row, as long as
\* operations have not overlapped.
THEOREM RowsAlwaysImprove == Spec => RowsOnlyImprove
<1>1. TypeInv /\ FreshInv /\ [Next]_vars
        => [ serial' => \A k \in Keys : rows[k] # NoRow =>
               rows'[k] # NoRow /\ Improves(rows[k], rows'[k]) ]_vars
  BY ImproveStep
<1> QED BY <1>1, TypeInit, TypeStep, FreshInit, FreshStep, PTL
        DEF Spec, RowsOnlyImprove

-----------------------------------------------------------------------------
SerialInv == TypeInv /\ OwnInv /\ FreshInv /\ AnswerInv

\* What one thread needs to answer.
AnswerOf(t) ==
    /\ pc[t] = "check" /\ rows[job[t].key] # NoRow => Answerable(rows, t)
    /\ pc[t] = "duck" /\ then[t] = "added" => Answerable(agg[t], t)
    /\ pc[t] \in {"tree", "list", "parquet"} /\ then[t] = "added" =>
         Answerable(rows, t)

\* A thread that answers for a submission has it stored, as its account's: the
\* key it resolved is free or its own, and the row it adds is saved first.
LEMMA AnswerStep == SerialInv /\ [Next]_vars => AnswerInv'
<1> SUFFICES ASSUME SerialInv, [Next]_vars, serial' PROVE AnswerInv'
  BY DEF AnswerInv
<1> USE DEF SerialInv, TypeInv, TypeOK, tiers, past, Goto
<1>1. ASSUME NEW t \in Threads, AnswerOf(t)',
             \A u \in Threads \ {t} : pc'[u] = "idle"
      PROVE AnswerInv'
  BY <1>1 DEF AnswerInv, AnswerOf
<1>2. ASSUME NEW t \in Threads, Begins(t) PROVE AnswerInv'
  <2>1. /\ pc'[t] # "check" /\ (pc'[t] \in {"tree", "list", "parquet"} => FALSE)
        /\ pc'[t] = "duck" => then'[t] # "added"
        /\ \A u \in Threads \ {t} : pc'[u] = "idle"
    BY <1>2 DEF Begins, PublicRecord, AuthRecord, Note, Review, SaveThen, Begin
  <2> QED BY <1>1, <2>1 DEF AnswerOf
<1>3. ASSUME NEW t \in Threads, pc[t] # "idle", serial' = serial,
             \A u \in Threads \ {t} : pc'[u] = pc[u], AnswerOf(t)'
      PROVE AnswerInv'
  <2>1. \A u \in Threads \ {t} : pc[u] = "idle"
    BY <1>3, Alone
  <2> QED BY <1>1, <1>3, <2>1
<1>4. \A t \in Threads : serial => AnswerOf(t)
  BY DEF AnswerInv, AnswerOf
<1>5. ASSUME NEW t \in Threads, AuthLook(t) \/ AuthSkip(t) \/ AuthProblem(t)
                 \/ AuthEnrich(t) \/ CreateProblem(t) \/ AddRead(t)
                 \/ AddExisting(t) \/ SaveParquet(t) \/ Fails(t)
      PROVE AnswerInv'
  <2>1. /\ UNCHANGED serial /\ pc[t] # "idle" /\ pc'[t] # "check"
        /\ pc'[t] \in {"tree", "list", "parquet", "duck"} => then'[t] # "added"
        /\ \A u \in Threads \ {t} : pc'[u] = pc[u]
    BY <1>5 DEF AuthLook, AuthSkip, AuthProblem, AuthEnrich, CreateProblem, AddRead,
       AddExisting, SaveParquet, Fails, SaveThen, Return
  <2> QED BY <1>3, <2>1 DEF AnswerOf
<1>6. ASSUME NEW t \in Threads, AddResolve(t) PROVE AnswerInv'
  <2> DEFINE k == Resolve(job[t].key, job[t].account)
             a == job[t].account
  <2>1. /\ UNCHANGED <<rows, serial>> /\ pc[t] = "resolve" /\ pc'[t] = "check"
        /\ \A u \in Threads \ {t} : pc'[u] = pc[u]
    BY <1>6 DEF AddResolve
  <2>2. /\ job[t] \in Job /\ a \in Accounts
        /\ job[t].key \in Ids \/ \E i \in Ids : job[t].key = <<i, a>>
    BY <2>1 DEF JobInv, Storing, Job
  <2>3. job'[t].key = k /\ job'[t].account = a
    BY <1>6, <2>2 DEF AddResolve, Job
  <2>4. ASSUME rows[k] # NoRow PROVE rows[k].owner = a
    <3>1. ASSUME NEW i \in Ids, k = <<i, a>> PROVE rows[k].owner = a
      BY <2>2, <2>4, <3>1 DEF OwnInv, OwnKeys
    <3>2. CASE job[t].key \in Ids
      BY <2>4, <3>1, <3>2 DEF Resolve
    <3>3. ASSUME NEW i \in Ids, job[t].key = <<i, a>> PROVE rows[k].owner = a
      BY <2>2, <3>1, <3>3, KeysOfIds DEF Resolve
    <3> QED BY <2>2, <3>2, <3>3
  <2> HIDE DEF k, a
  <2>5. AnswerOf(t)'
    BY <2>1, <2>3, <2>4 DEF AnswerOf, Answerable
  <2> QED BY <1>3, <2>1, <2>5
<1>7. ASSUME NEW t \in Threads, AddNew(t) PROVE AnswerInv'
  <2>1. /\ agg'[t] = [agg[t] EXCEPT ![job[t].key] = NewRow(t)]
        /\ UNCHANGED <<job, serial>> /\ pc[t] = "check" /\ pc'[t] = "duck"
        /\ \A u \in Threads \ {t} : pc'[u] = pc[u]
    BY <1>7 DEF AddNew, SaveThen
  <2>2. job[t] \in Job /\ job[t].key \in Keys
    BY <2>1 DEF JobInv, Storing, Job
  <2>3. NewRow(t) \in Row /\ NewRow(t).owner = job[t].account
    BY <2>2 DEF NewRow, Row, Job
  <2>4. agg'[t][job[t].key] = NewRow(t)
    BY <2>1, <2>2 DEF Aggregate
  <2>5. AnswerOf(t)'
    BY <2>1, <2>3, <2>4, StorageAssumption DEF AnswerOf, Answerable, StorageAssumption
  <2> QED BY <1>3, <2>1, <2>5
<1>8. ASSUME NEW t \in Threads, SaveDuck(t) PROVE AnswerInv'
  <2>1. /\ rows' = Upserted(t, Keys)
        /\ UNCHANGED <<job, then, serial>> /\ pc[t] = "duck" /\ pc'[t] = "tree"
        /\ \A u \in Threads \ {t} : pc'[u] = pc[u]
    BY <1>8 DEF SaveDuck
  <2>2. ASSUME then[t] = "added" PROVE Answerable(rows', t)
    <3>1. job[t] \in Job /\ job[t].key \in Keys
      BY <2>1, <2>2 DEF JobInv, Storing, Saving, Job
    <3> QED BY <1>4, <2>1, <2>2, <3>1 DEF AnswerOf, Answerable, Upserted
  <2>3. AnswerOf(t)'
    BY <2>1, <2>2 DEF AnswerOf, Answerable
  <2> QED BY <1>3, <2>1, <2>3
<1>9. ASSUME NEW t \in Threads, SaveTree(t) \/ SaveList(t) PROVE AnswerInv'
  <2>1. /\ UNCHANGED <<rows, job, then, serial>>
        /\ pc[t] \in {"tree", "list"} /\ pc'[t] \in {"list", "parquet"}
        /\ \A u \in Threads \ {t} : pc'[u] = pc[u]
    BY <1>9 DEF SaveTree, SaveList
  <2>2. AnswerOf(t)'
    BY <1>4, <2>1 DEF AnswerOf, Answerable
  <2> QED BY <1>3, <2>1, <2>2
<1>10. CASE UNCHANGED vars
  BY <1>10 DEF vars, AnswerInv, Answerable
<1> QED BY <1>2, <1>5, <1>6, <1>7, <1>8, <1>9, <1>10 DEF Next, Step

\* An answer that was true stays true, for rows only improve; a new one is true.
LEMMA AddedStep == SerialInv /\ AddedStored /\ [Next]_vars => AddedStored'
<1> SUFFICES ASSUME SerialInv, AddedStored, [Next]_vars, serial',
                    NEW e \in added'
             PROVE  rows'[e[1]] # NoRow /\ rows'[e[1]].owner = e[2]
  BY DEF AddedStored
<1> USE DEF SerialInv, TypeInv, TypeOK, tiers, past, Goto
<1>1. CASE serial /\ e \in added
  <2>1. e[1] \in Keys /\ rows[e[1]] # NoRow /\ rows[e[1]].owner = e[2]
    BY <1>1 DEF AddedStored
  <2> QED BY <2>1, ImproveStep DEF Improves
<1>2. ASSUME NEW t \in Threads, Begins(t) PROVE serial /\ e \in added
  BY <1>2 DEF Begins, PublicRecord, AuthRecord, Note, Review, Begin
<1>3. ASSUME NEW t \in Threads, AuthLook(t) \/ AuthSkip(t) \/ AuthProblem(t)
                 \/ AuthEnrich(t) \/ CreateProblem(t) \/ AddRead(t) \/ AddResolve(t)
                 \/ AddNew(t) \/ SaveDuck(t) \/ SaveTree(t) \/ SaveList(t) \/ Fails(t)
      PROVE serial /\ e \in added
  BY <1>3 DEF AuthLook, AuthSkip, AuthProblem, AuthEnrich, CreateProblem, AddRead,
     AddResolve, AddNew, SaveDuck, SaveTree, SaveList, Fails, SaveThen, Return
<1>4. ASSUME NEW t \in Threads, AddExisting(t) \/ SaveParquet(t)
      PROVE  \/ serial /\ e \in added
             \/ /\ UNCHANGED rows /\ e = <<job[t].key, job[t].account>>
                /\ Answerable(rows, t)
  <2>1. UNCHANGED <<rows, serial>>
    BY <1>4 DEF AddExisting, SaveParquet
  <2>2. \/ added' = added
        \/ /\ added' = added \cup {<<job[t].key, job[t].account>>}
           /\ Answerable(rows, t)
    BY <1>4, <2>1 DEF AddExisting, SaveParquet, Answer, AnswerInv, SaveThen, Return
  <2> QED BY <2>1, <2>2
<1>5. CASE UNCHANGED vars
  BY <1>1, <1>5 DEF vars
<1> QED BY <1>1, <1>2, <1>3, <1>4, <1>5 DEF Next, Step, Answerable

\* Whatever add_submission() has answered for is stored for the account that
\* asked, as long as operations have not overlapped.
THEOREM AddedAlwaysStored == Spec => []AddedStored
<1>1. Init => SerialInv /\ AddedStored
  <2>1. Init => OwnInv
    BY KeysOfIds, StorageAssumption
       DEF Init, OwnInv, OwnKeys, Empty, StorageAssumption
  <2>2. Init => AnswerInv /\ AddedStored
    BY DEF Init, AnswerInv, AddedStored
  <2> QED BY <2>1, <2>2, TypeInit, FreshInit DEF SerialInv
<1>2. SerialInv /\ [Next]_vars => SerialInv'
  BY TypeStep, OwnStep, FreshStep, AnswerStep DEF SerialInv
<1> QED BY <1>1, <1>2, AddedStep, PTL DEF Spec

-----------------------------------------------------------------------------
(* Parity                                                                    *)

\* The row of the problem is there before any row of a submission is.
LEMMA ExistsStep == TypeInv /\ ExistsInv /\ [Next]_vars => ExistsInv'
<1> SUFFICES ASSUME TypeInv, ExistsInv, [Next]_vars PROVE ExistsInv'
  OBVIOUS
<1> USE DEF TypeInv, TypeOK, tiers, past, Goto
<1> DEFINE Behind == {"read", "resolve", "check", "duck", "tree", "list", "parquet"}
<1>1. ASSUME NEW t \in Threads, exists => exists',
             \A u \in Threads \ {t} : pc'[u] = pc[u],
             pc'[t] \in Behind => exists', rows' # Empty => exists'
      PROVE ExistsInv'
  BY <1>1 DEF ExistsInv
<1>2. ASSUME NEW t \in Threads, Begins(t) PROVE ExistsInv'
  <2>1. /\ UNCHANGED tiers
        /\ pc'[t] \in Behind => exists
        /\ \A u \in Threads \ {t} : pc'[u] = pc[u]
    BY <1>2 DEF Begins, PublicRecord, AuthRecord, Note, Review, SaveThen, Begin
  <2> QED BY <1>1, <2>1 DEF ExistsInv
<1>3. ASSUME NEW t \in Threads, AuthLook(t) \/ AuthSkip(t) \/ AuthProblem(t)
                 \/ CreateProblem(t)
      PROVE ExistsInv'
  <2>1. /\ UNCHANGED rows
        /\ exists => exists'
        /\ pc'[t] \in Behind => exists'
        /\ \A u \in Threads \ {t} : pc'[u] = pc[u]
    BY <1>3 DEF AuthLook, AuthSkip, AuthProblem, CreateProblem, Return
  <2> QED BY <1>1, <2>1 DEF ExistsInv
<1>4. ASSUME NEW t \in Threads, AuthEnrich(t) PROVE ExistsInv'
  <2>1. job[t].key \in Keys /\ rows[job[t].key] # NoRow
    BY <1>4 DEF AuthEnrich, JobInv, Storing, Job
  <2>2. rows # Empty
    BY <2>1 DEF Empty
  <2>3. UNCHANGED <<rows, exists>> /\ \A u \in Threads \ {t} : pc'[u] = pc[u]
    BY <1>4 DEF AuthEnrich, SaveThen
  <2> QED BY <1>1, <2>2, <2>3 DEF ExistsInv
<1>5. ASSUME NEW t \in Threads, AddRead(t) \/ AddResolve(t) \/ AddExisting(t)
                 \/ AddNew(t) \/ SaveDuck(t) \/ SaveTree(t) \/ SaveList(t)
                 \/ SaveParquet(t)
      PROVE ExistsInv'
  <2>1. /\ UNCHANGED exists /\ pc[t] \in Behind
        /\ \A u \in Threads \ {t} : pc'[u] = pc[u]
    BY <1>5 DEF AddRead, AddResolve, AddExisting, AddNew, SaveDuck, SaveTree,
       SaveList, SaveParquet, SaveThen, Return
  <2> QED BY <1>1, <2>1 DEF ExistsInv
<1>6. ASSUME NEW t \in Threads, Fails(t) PROVE ExistsInv'
  <2>1. /\ UNCHANGED exists /\ pc'[t] = "idle"
        /\ \A u \in Threads \ {t} : pc'[u] = pc[u]
        /\ rows' = rows \/ pc[t] = "duck"
    BY <1>6 DEF Fails, Return
  <2> QED BY <1>1, <2>1 DEF ExistsInv
<1>7. CASE UNCHANGED vars
  BY <1>7 DEF vars, ExistsInv
<1> QED BY <1>2, <1>3, <1>4, <1>5, <1>6, <1>7 DEF Next, Step

WholeInv == TypeInv /\ FreshInv /\ ExistsInv

\* While nothing overlaps or fails, the one operation in progress writes the same
\* rows to one tier after the other.
LEMMA ParityStep == WholeInv /\ ParityInv /\ [Next]_vars => ParityInv'
<1> SUFFICES ASSUME WholeInv, ParityInv, [Next]_vars, Whole' PROVE ParityInv'
  BY DEF ParityInv
<1> USE DEF WholeInv, TypeInv, TypeOK, tiers, past, Goto
<1>1. ASSUME NEW t \in Threads, \A u \in Threads \ {t} : pc'[u] = "idle",
             pc'[t] = "idle" => SameTiers', pc'[t] # "idle" => ParityOf(t)'
      PROVE ParityInv'
  BY <1>1 DEF ParityInv, AllIdle
<1>2. ASSUME NEW t \in Threads, Begins(t) PROVE ParityInv'
  <2>1. /\ pc[t] = "idle" /\ serial /\ \A u \in Threads \ {t} : pc[u] = "idle"
        /\ ~broken /\ ~narrowed /\ UNCHANGED tiers
        /\ \A u \in Threads \ {t} : pc'[u] = pc[u]
    BY <1>2 DEF Begins, PublicRecord, AuthRecord, Note, Review, SaveThen, Begin, Whole
  <2>2. SameTiers /\ SameTiers'
    BY <2>1 DEF ParityInv, Whole, AllIdle, SameTiers
  <2>3. \/ pc'[t] \in {"read", "create", "look"}
        \/ pc'[t] = "duck" /\ agg'[t] = rows
    <3>1. CASE Note(t)
      <4>1. pc'[t] = "duck" /\ agg'[t] = Scoped(rows)
        BY <3>1 DEF Note, SaveThen
      <4>2. Scoped(rows) = rows
        BY <3>1 DEF Note, Whole
      <4> QED BY <4>1, <4>2
    <3>2. CASE Review(t)
      BY <3>2 DEF Review, SaveThen
    <3>3. ASSUME NEW i \in Ids, NEW a \in Accounts,
                 PublicRecord(t, i, a) \/ AuthRecord(t, i, a)
          PROVE  pc'[t] \in {"read", "create", "look"}
      BY <3>3 DEF PublicRecord, AuthRecord
    <3> QED BY <1>2, <3>1, <3>2, <3>3 DEF Begins
  <2>4. ParityOf(t)'
    BY <2>1, <2>2, <2>3 DEF ParityOf, Within
  <2> QED BY <1>1, <2>1, <2>2, <2>4
\* Any other step is the step of the one thread that is not idle.
<1>3. ASSUME NEW t \in Threads, pc[t] # "idle", UNCHANGED <<serial, narrowed>>,
             \A u \in Threads \ {t} : pc'[u] = pc[u],
             broken' = broken,
             ParityOf(t) => /\ pc'[t] = "idle" => SameTiers'
                            /\ pc'[t] # "idle" => ParityOf(t)'
      PROVE ParityInv'
  <2>1. \A u \in Threads \ {t} : pc'[u] = "idle"
    BY <1>3, Alone DEF Whole
  <2>2. ParityOf(t)
    BY <1>3 DEF ParityInv, Whole
  <2> QED BY <1>1, <1>3, <2>1, <2>2
<1>4. ASSUME NEW t \in Threads, AuthLook(t) \/ AuthSkip(t) \/ AuthProblem(t)
      PROVE ParityInv'
  <2>1. /\ pc[t] \in {"look", "skip", "problem"} /\ UNCHANGED <<tiers, past>>
        /\ pc'[t] \in {"idle", "problem", "enrich", "skip", "read", "create"}
        /\ \A u \in Threads \ {t} : pc'[u] = pc[u]
    BY <1>4 DEF AuthLook, AuthSkip, AuthProblem, Return
  <2>2. ParityOf(t) => SameTiers' /\ ParityOf(t)'
    BY <2>1 DEF ParityOf, SameTiers
  <2> QED BY <1>3, <2>1, <2>2
<1>5. ASSUME NEW t \in Threads, AuthEnrich(t) PROVE ParityInv'
  <2>1. /\ pc[t] = "enrich" /\ pc'[t] = "duck" /\ UNCHANGED <<tiers, past>>
        /\ agg'[t] = [rows EXCEPT ![job[t].key] =
                        [rows[job[t].key] EXCEPT !.code = TRUE]]
        /\ \A u \in Threads \ {t} : pc'[u] = pc[u]
    BY <1>5 DEF AuthEnrich, SaveThen
  <2>2. job[t].key \in Keys /\ rows[job[t].key] \in Row
    BY <1>5, <2>1 DEF AuthEnrich, JobInv, Storing, Job, Aggregate
  <2>3. [rows[job[t].key] EXCEPT !.code = TRUE] \in Row
    BY <2>2 DEF Row
  <2>4. Within(rows, agg'[t])
    BY <2>1, <2>3, StorageAssumption DEF Within, Aggregate, StorageAssumption
  <2>5. ParityOf(t) => ParityOf(t)'
    BY <2>1, <2>4 DEF ParityOf, SameTiers, Within
  <2> QED BY <1>3, <2>1, <2>5
<1>6. ASSUME NEW t \in Threads, CreateProblem(t) PROVE ParityInv'
  <2>1. /\ pc[t] = "create" /\ pc'[t] = "tree" /\ agg'[t] = Empty
        /\ UNCHANGED <<rows, tree, parquet, past>> /\ rows = Empty
        /\ \A u \in Threads \ {t} : pc'[u] = pc[u]
    BY <1>6 DEF CreateProblem, ExistsInv
  <2>2. ParityOf(t) => ParityOf(t)'
    BY <2>1 DEF ParityOf, SameTiers
  <2> QED BY <1>3, <2>1, <2>2
<1>7. ASSUME NEW t \in Threads, AddRead(t) \/ AddResolve(t) \/ AddExisting(t)
      PROVE ParityInv'
  <2>1. /\ UNCHANGED <<tiers, serial, broken, narrowed>>
        /\ \/ pc[t] = "read" /\ pc'[t] = "resolve" /\ agg'[t] = rows
           \/ pc[t] = "resolve" /\ pc'[t] = "check" /\ UNCHANGED agg
           \/ pc[t] = "check" /\ pc'[t] = "idle"
        /\ \A u \in Threads \ {t} : pc'[u] = pc[u]
    BY <1>7 DEF AddRead, AddResolve, AddExisting, Return
  <2>2. ParityOf(t) => SameTiers' /\ ParityOf(t)'
    BY <2>1 DEF ParityOf, SameTiers
  <2> QED BY <1>3, <2>1, <2>2
<1>8. ASSUME NEW t \in Threads, AddNew(t) PROVE ParityInv'
  <2>1. /\ pc[t] = "check" /\ pc'[t] = "duck" /\ UNCHANGED <<tiers, past>>
        /\ agg'[t] = [agg[t] EXCEPT ![job[t].key] = NewRow(t)]
        /\ rows[job[t].key] = NoRow
        /\ \A u \in Threads \ {t} : pc'[u] = pc[u]
    BY <1>8 DEF AddNew, SaveThen
  <2>2. agg[t] = rows => Within(rows, agg'[t])
    BY <2>1 DEF Within, Aggregate
  <2>3. ParityOf(t) => ParityOf(t)'
    BY <2>1, <2>2 DEF ParityOf, SameTiers, Within
  <2> QED BY <1>3, <2>1, <2>3
<1>9. ASSUME NEW t \in Threads, SaveDuck(t) PROVE ParityInv'
  <2>1. /\ pc[t] = "duck" /\ pc'[t] = "tree" /\ UNCHANGED <<agg, past>>
        /\ rows' = Upserted(t, Keys)
        /\ \A u \in Threads \ {t} : pc'[u] = pc[u]
    BY <1>9 DEF SaveDuck
  <2>2. Within(rows, agg[t]) => Upserted(t, Keys) = agg[t]
    <3>1. ASSUME Within(rows, agg[t]), NEW k \in Keys
          PROVE  Upserted(t, Keys)[k] = agg[t][k]
      BY <3>1 DEF Within, Upserted
    <3>2. agg[t] \in Aggregate /\ Upserted(t, Keys) \in Aggregate
      BY UpsertedTyped
    <3> QED BY <3>1, <3>2 DEF Aggregate
  <2>3. ParityOf(t) => ParityOf(t)'
    BY <2>1, <2>2 DEF ParityOf
  <2> QED BY <1>3, <2>1, <2>3
<1>10. ASSUME NEW t \in Threads, SaveTree(t) PROVE ParityInv'
  <2>1. /\ pc[t] = "tree" /\ pc'[t] = "list" /\ tree' = agg[t]
        /\ UNCHANGED <<rows, agg, past>> /\ \A u \in Threads \ {t} : pc'[u] = pc[u]
    BY <1>10 DEF SaveTree
  <2>2. ParityOf(t) => ParityOf(t)'
    BY <2>1 DEF ParityOf
  <2> QED BY <1>3, <2>1, <2>2
<1>11. ASSUME NEW t \in Threads, SaveList(t) PROVE ParityInv'
  <2>1. /\ pc[t] = "list" /\ pc'[t] = "parquet" /\ snap'[t] = rows
        /\ UNCHANGED <<tiers, agg, past>> /\ \A u \in Threads \ {t} : pc'[u] = pc[u]
    BY <1>11 DEF SaveList
  <2>2. ParityOf(t) => ParityOf(t)'
    BY <2>1 DEF ParityOf
  <2> QED BY <1>3, <2>1, <2>2
<1>12. ASSUME NEW t \in Threads, SaveParquet(t) PROVE ParityInv'
  <2>1. /\ pc[t] = "parquet" /\ parquet' = snap[t]
        /\ UNCHANGED <<rows, tree, serial, broken, narrowed>>
        /\ \/ pc'[t] \in {"idle", "read"}
           \/ pc'[t] = "duck" /\ agg'[t] = agg[t]
        /\ \A u \in Threads \ {t} : pc'[u] = pc[u]
    BY <1>12 DEF SaveParquet, SaveThen, Return
  <2>2. ParityOf(t) => SameTiers' /\ ParityOf(t)'
    BY <2>1 DEF ParityOf, SameTiers, Within
  <2> QED BY <1>3, <2>1, <2>2
<1>13. ASSUME NEW t \in Threads, Fails(t) PROVE ParityInv'
  <2>1. /\ pc[t] # "idle" /\ pc'[t] = "idle" /\ UNCHANGED <<serial, narrowed>>
        /\ broken' = (broken \/ (serial /\ Saving(t)))
        /\ \A u \in Threads \ {t} : pc'[u] = pc[u]
    BY <1>13 DEF Fails, Return
  <2>2. ~Saving(t) /\ broken' = broken
    BY <2>1 DEF Whole
  <2>3. UNCHANGED <<rows, tree, parquet>>
    BY <1>13, <2>2 DEF Fails, Saving
  <2>4. ParityOf(t) => SameTiers'
    BY <2>2, <2>3 DEF ParityOf, SameTiers, Saving
  <2> QED BY <1>3, <2>1, <2>2, <2>4
<1>14. CASE UNCHANGED vars
  BY <1>14 DEF vars, ParityInv, ParityOf, Whole, AllIdle, SameTiers
<1> QED BY <1>2, <1>4, <1>5, <1>6, <1>7, <1>8, <1>9, <1>10, <1>11, <1>12, <1>13,
           <1>14 DEF Next, Step

\* When operations that ran one after the other are over, none was cut short and
\* none saved a view that leaves submissions out, the three tiers show the same.
THEOREM TiersAlwaysAgree == Spec => []TiersAgreeIfWhole
<1>1. Init => ExistsInv /\ ParityInv
  BY DEF Init, ExistsInv, ParityInv, SameTiers
<1>2. ParityInv => TiersAgreeIfWhole
  BY DEF ParityInv, Whole, TiersAgreeIfWhole
<1> QED BY <1>1, <1>2, TypeInit, TypeStep, FreshInit, FreshStep, ExistsStep,
           ParityStep, PTL DEF Spec, WholeInv
=============================================================================
