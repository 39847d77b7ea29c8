------------------------------ MODULE Storage ------------------------------
(****************************************************************************)
(* CompositeStorage (storage/composite_repository.py) and the operations of *)
(* CodeMemoryService and the syncs that store a submission in it: one       *)
(* problem, the DuckDB rows of its submissions, and the Markdown tree and   *)
(* Parquet snapshot that are written after them.                            *)
(*                                                                          *)
(* A thread reads the problem as one aggregate, changes its copy and saves  *)
(* the copy: every row of it is upserted under the DuckDB lock, then the    *)
(* other tiers are written without one.  No row is ever deleted: nothing    *)
(* calls CompositeStorage.delete.                                           *)
(****************************************************************************)
CONSTANTS
    Threads,    \* request threads and sync threads
    Ids,        \* LeetCode submission ids, all of this problem
    Accounts,   \* LeetCode usernames the syncs run for
    Earlier,    \* usernames whose syncs are over
    Locals,     \* submissions imported without a provider, earlier
    Local,      \* source_provider and source_account of those: None
    NoRow       \* no row under a key

\* submissions.id: an upstream id, the same with an account's suffix, or a UUID.
Keys == Ids \cup (Ids \X Accounts) \cup Locals

\* source_account, and whether source code is stored.
Row == [owner : Accounts \cup Earlier \cup {Local}, code : BOOLEAN]

Aggregate == [Keys -> Row \cup {NoRow}]
Empty == [k \in Keys |-> NoRow]

Job == [key : Keys, account : Accounts, code : BOOLEAN]
NoJob == NoRow

ASSUME StorageAssumption ==
    /\ Ids \cap (Ids \X Accounts) = {}
    /\ Locals \cap Ids = {} /\ Locals \cap (Ids \X Accounts) = {}
    /\ Local \notin Accounts \cup Earlier /\ Accounts \cap Earlier = {}
    /\ NoRow \notin Row /\ NoRow \notin Job

VARIABLES
    exists,     \* DuckDB has the row of the problem
    rows,       \* DuckDB's rows of its submissions
    tree,       \* submissions in knowledge/<slug>/metadata.json
    parquet,    \* submissions in submissions.parquet
    pc,         \* where each thread is
    job,        \* the submission a sync thread is storing
    agg,        \* each thread's copy of the aggregate
    snap,       \* the list_all() a thread is about to write to Parquet
    then,       \* where a thread goes once its save() is done
    serial,     \* history: no two operations have overlapped
    added,      \* history, while serial: submissions add_submission() has
                \* answered for
    broken,     \* history, while serial: a save was cut short
    narrowed    \* history, while serial: a view that lacks rows was saved

tiers == <<exists, rows, tree, parquet>>
past == <<added, serial, broken, narrowed>>
vars == <<tiers, pc, job, agg, snap, then, past>>

Goto(t, point) == pc' = [pc EXCEPT ![t] = point]

\* An operation of t begins; it overlaps those still in progress.
Begin(t) ==
    /\ pc[t] = "idle"
    /\ serial' = (serial /\ \A u \in Threads \ {t} : pc[u] = "idle")
    /\ added' = IF serial' THEN added ELSE {}
    /\ broken' = (serial' /\ broken)

\* Mutant: the Markdown tree is written first, DuckDB not at all.
SaveThenTree(t, a, point) ==
    /\ agg' = [agg EXCEPT ![t] = a]
    /\ then' = [then EXCEPT ![t] = point]
    /\ Goto(t, "tree")

\* Thread t saves aggregate a, and goes on at `point` afterwards.
SaveThen(t, a, point) ==
    /\ agg' = [agg EXCEPT ![t] = a]
    /\ then' = [then EXCEPT ![t] = point]
    /\ Goto(t, "duck")

Return(t) ==
    /\ Goto(t, "idle")
    /\ job' = [job EXCEPT ![t] = NoJob]
    /\ agg' = [agg EXCEPT ![t] = Empty]
    /\ snap' = [snap EXCEPT ![t] = Empty]
    /\ then' = [then EXCEPT ![t] = "idle"]

\* A data directory with what was imported and what earlier accounts synced.
Init ==
    /\ rows \in {f \in Aggregate : \A k \in Keys : f[k] # NoRow =>
                  IF k \in Locals THEN f[k] = [owner |-> Local, code |-> TRUE]
                                  ELSE k \in Ids /\ f[k].owner \in Earlier}
    /\ exists \in BOOLEAN
    /\ rows # Empty => exists
    /\ tree = rows
    /\ parquet = rows
    /\ pc = [t \in Threads |-> "idle"]
    /\ job = [t \in Threads |-> NoJob]
    /\ agg = [t \in Threads |-> Empty]
    /\ snap = [t \in Threads |-> Empty]
    /\ then = [t \in Threads |-> "idle"]
    /\ added = {}
    /\ serial = TRUE /\ broken = FALSE /\ narrowed = FALSE

-----------------------------------------------------------------------------
(* Identity and views                                                       *)

\* Mutant: an id is taken as it is, whoever owns it.
ResolveNot(k, a) == k

\* Mutant: the suffix is made of the stored owner, not of the account that asks.
ResolveToOwner(k, a) ==
    IF k \in Ids /\ rows[k] # NoRow /\ rows[k].owner # a
      THEN <<k, rows[k].owner>> ELSE k

\* resolve_submission_id: an id another account owns gets this one's suffix.
\* (A suffixed key is nobody else's: two digests never agree.)
Resolve(k, a) ==
    IF k \in Ids /\ rows[k] # NoRow /\ rows[k].owner # a THEN <<k, a>> ELSE k

\* get_problem() with account None: attempts keep what has no provider, and if
\* that leaves no attempt, the whole problem is returned.
Scoped(a) ==
    LET own == [k \in Keys |->
                  IF a[k] # NoRow /\ a[k].owner = Local THEN a[k] ELSE NoRow]
    IN  IF own = Empty THEN a ELSE own

\* The guard of the public sync, on the scoped view: the id is there, or the
\* hash is (a record without code, under this account's key).
Duplicate(i, a) ==
    \/ Scoped(rows)[i] # NoRow
    \/ Scoped(rows)[<<i, a>>] # NoRow /\ ~Scoped(rows)[<<i, a>>].code

-----------------------------------------------------------------------------
(* The syncs, one record at a time                                          *)

\* LeetCodeSyncEngine.sync, up to the guard.  A duplicate is skipped: no step.
PublicRecord(t, i, a) ==
    /\ Begin(t)
    /\ exists => ~Duplicate(i, a)
    /\ job' = [job EXCEPT ![t] = [key |-> i, account |-> a, code |-> FALSE]]
    /\ Goto(t, IF exists THEN "read" ELSE "create")
    /\ narrowed' = (serial' /\ narrowed)
    /\ UNCHANGED <<tiers, agg, snap, then>>

\* sync_full_history: the id is resolved before anything is looked up.
AuthRecord(t, i, a) ==
    /\ Begin(t)
    /\ job' = [job EXCEPT ![t] =
                 [key |-> Resolve(i, a), account |-> a, code |-> FALSE]]
    /\ Goto(t, "look")
    /\ narrowed' = (serial' /\ narrowed)
    /\ UNCHANGED <<tiers, agg, snap, then>>

\* The stored submission, if it is this account's (and the account is still the
\* active one), and the source code, if it could be fetched.  A stored one
\* without code gets it; any other stored one is skipped.
AuthLook(t) ==
    /\ pc[t] = "look"
    /\ \E found, fetched \in BOOLEAN :
         LET stored == rows[Resolve(job[t].key, job[t].account)] IN
         /\ found => stored # NoRow /\ stored.owner = job[t].account
         /\ \/ ~found /\ Goto(t, "problem")
            \/ found /\ fetched /\ ~stored.code /\ Goto(t, "enrich")
            \/ found /\ (fetched => stored.code) /\ Goto(t, "skip")
         /\ job' = [job EXCEPT ![t].code = fetched]
    /\ UNCHANGED <<tiers, agg, snap, then, past>>

AuthSkip(t) ==
    /\ pc[t] = "skip"
    /\ Return(t)
    /\ UNCHANGED <<tiers, past>>

AuthProblem(t) ==
    /\ pc[t] = "problem"
    /\ Goto(t, IF exists THEN "read" ELSE "create")
    /\ UNCHANGED <<tiers, job, agg, snap, then, past>>

\* The problem is read again, the submission in it gets its code.
AuthEnrich(t) ==
    /\ pc[t] = "enrich"
    /\ rows[job[t].key] # NoRow
    /\ SaveThen(t, [rows EXCEPT ![job[t].key] = [@ EXCEPT !.code = TRUE]], "idle")
    /\ UNCHANGED <<tiers, job, snap, past>>

-----------------------------------------------------------------------------
(* add_problem and add_submission                                           *)

\* add_problem inserts a problem of its own, without submissions: the slug is
\* UNIQUE, so it fails if another thread has added the problem meanwhile.
CreateProblem(t) ==
    /\ pc[t] = "create"
    /\ ~exists
    /\ exists' = TRUE
    /\ agg' = [agg EXCEPT ![t] = Empty]
    /\ then' = [then EXCEPT ![t] = "read"]
    /\ Goto(t, "tree")
    /\ UNCHANGED <<rows, tree, parquet, job, snap, past>>

\* The canonical, unfiltered aggregate.
AddRead(t) ==
    /\ pc[t] = "read"
    /\ agg' = [agg EXCEPT ![t] = rows]
    /\ Goto(t, "resolve")
    /\ UNCHANGED <<tiers, job, snap, then, past>>

AddResolve(t) ==
    /\ pc[t] = "resolve"
    /\ job' = [job EXCEPT ![t].key = Resolve(@, job[t].account)]
    /\ Goto(t, "check")
    /\ UNCHANGED <<tiers, agg, snap, then, past>>

Answer(t) ==
    added' = IF serial THEN added \cup {<<job[t].key, job[t].account>>} ELSE added

\* A stored submission with this key is the answer.
AddExisting(t) ==
    /\ pc[t] = "check"
    /\ rows[job[t].key] # NoRow
    /\ Answer(t)
    /\ Return(t)
    /\ UNCHANGED <<tiers, serial, broken, narrowed>>

NewRow(t) == [owner |-> job[t].account, code |-> job[t].code]

\* Mutant: the submission is saved whether its key is taken or not.
AddUnchecked(t) ==
    /\ pc[t] = "check"
    /\ SaveThen(t, [agg[t] EXCEPT ![job[t].key] = NewRow(t)], "added")
    /\ UNCHANGED <<tiers, job, snap, past>>

\* Otherwise the new submission joins the aggregate, which is saved.
AddNew(t) ==
    /\ pc[t] = "check"
    /\ rows[job[t].key] = NoRow
    /\ SaveThen(t, [agg[t] EXCEPT ![job[t].key] = NewRow(t)], "added")
    /\ UNCHANGED <<tiers, job, snap, past>>

-----------------------------------------------------------------------------
(* Notes, attempts, reviews                                                 *)

\* add_note and add_attempt save what get_problem() shows them.
Note(t) ==
    /\ exists
    /\ Begin(t)
    /\ SaveThen(t, Scoped(rows), "idle")
    /\ narrowed' = (serial' /\ (narrowed \/ Scoped(rows) # rows))
    /\ UNCHANGED <<tiers, job, snap>>

\* mark_reviewed saves the whole problem, and once more with the note.
Review(t) ==
    /\ exists
    /\ Begin(t)
    /\ SaveThen(t, rows, "again")
    /\ narrowed' = (serial' /\ narrowed)
    /\ UNCHANGED <<tiers, job, snap>>

-----------------------------------------------------------------------------
(* CompositeStorage.save                                                    *)

\* The rows after the upserts of those of t's aggregate that are in S.
Upserted(t, S) ==
    [k \in Keys |-> IF k \in S /\ agg[t][k] # NoRow THEN agg[t][k] ELSE rows[k]]

Saving(t) == pc[t] \in {"duck", "tree", "list", "parquet"}

\* One thread at a time holds the DuckDB lock, for all of the statements.
SaveDuck(t) ==
    /\ pc[t] = "duck"
    /\ rows' = Upserted(t, Keys)
    /\ Goto(t, "tree")
    /\ UNCHANGED <<exists, tree, parquet, job, agg, snap, then, past>>

\* Mutant: a problem that has been exported is not exported again.
SaveTreeOnce(t) ==
    /\ pc[t] = "tree"
    /\ tree' = IF tree = Empty THEN agg[t] ELSE tree
    /\ Goto(t, "list")
    /\ UNCHANGED <<exists, rows, parquet, job, agg, snap, then, past>>

SaveTree(t) ==
    /\ pc[t] = "tree"
    /\ tree' = agg[t]
    /\ Goto(t, "list")
    /\ UNCHANGED <<exists, rows, parquet, job, agg, snap, then, past>>

SaveList(t) ==
    /\ pc[t] = "list"
    /\ snap' = [snap EXCEPT ![t] = rows]
    /\ Goto(t, "parquet")
    /\ UNCHANGED <<tiers, job, agg, then, past>>

\* sync_all, and what save() returns to.
SaveParquet(t) ==
    /\ pc[t] = "parquet"
    /\ parquet' = snap[t]
    /\ \/ then[t] = "idle" /\ Return(t) /\ UNCHANGED added
       \/ then[t] = "added" /\ Return(t) /\ Answer(t)
       \/ /\ then[t] = "read" /\ Goto(t, "read")
          /\ UNCHANGED <<job, agg, snap, then, added>>
       \/ /\ then[t] = "again" /\ SaveThen(t, agg[t], "idle")
          /\ UNCHANGED <<job, snap, added>>
    /\ UNCHANGED <<exists, rows, tree, serial, broken, narrowed>>

\* Something raises: a request, the UNIQUE slug, a statement that has committed
\* those before it, a file that was truncated and reads as nothing.  (A crash
\* does this to every thread, one after the other: before any new operation.)
Fails(t) ==
    /\ pc[t] # "idle"
    /\ \/ pc[t] = "duck" /\ \E S \in SUBSET Keys : rows' = Upserted(t, S)
       \/ pc[t] # "duck" /\ UNCHANGED rows
    /\ tree' \in IF pc[t] = "tree" THEN {tree, Empty} ELSE {tree}
    /\ parquet' \in IF pc[t] = "parquet" THEN {parquet, Empty} ELSE {parquet}
    /\ broken' = (broken \/ (serial /\ Saving(t)))
    /\ Return(t)
    /\ UNCHANGED <<exists, added, serial, narrowed>>

-----------------------------------------------------------------------------
Begins(t) ==
    \/ \E i \in Ids, a \in Accounts : PublicRecord(t, i, a) \/ AuthRecord(t, i, a)
    \/ Note(t) \/ Review(t)

Step(t) ==
    \/ AuthLook(t) \/ AuthSkip(t) \/ AuthProblem(t) \/ AuthEnrich(t)
    \/ CreateProblem(t)
    \/ AddRead(t) \/ AddResolve(t) \/ AddExisting(t) \/ AddNew(t)
    \/ SaveDuck(t) \/ SaveTree(t) \/ SaveList(t) \/ SaveParquet(t)
    \/ Fails(t)

Next == \E t \in Threads : Begins(t) \/ Step(t)

Spec == Init /\ [][Next]_vars

-----------------------------------------------------------------------------
(* Properties                                                               *)

\* Every variable stays within the values the code can give it.
TypeOK ==
    /\ exists \in BOOLEAN
    /\ rows \in Aggregate /\ tree \in Aggregate /\ parquet \in Aggregate
    /\ pc \in [Threads -> {"idle", "look", "skip", "problem", "enrich", "create",
                           "read", "resolve", "check", "duck", "tree", "list",
                           "parquet"}]
    /\ job \in [Threads -> Job \cup {NoJob}]
    /\ agg \in [Threads -> Aggregate] /\ snap \in [Threads -> Aggregate]
    /\ then \in [Threads -> {"idle", "added", "read", "again"}]
    /\ added \subseteq Keys \X Accounts
    /\ serial \in BOOLEAN /\ broken \in BOOLEAN /\ narrowed \in BOOLEAN

\* "A Markdown tree is a git-friendly rendering of the canonical data, not a
\* second source of truth": neither export ever shows a submission DuckDB does
\* not have, whatever overlaps, fails or crashes.
ExportsFollow ==
    \A k \in Keys : tree[k] # NoRow \/ parquet[k] # NoRow => rows[k] # NoRow

\* Whatever add_submission() has answered for is stored for the account that
\* asked, as long as operations have not overlapped: neither an id two accounts
\* claim in turn nor a later save of the same problem takes it away.
AddedStored ==
    serial => \A entry \in added :
        /\ rows[entry[1]] # NoRow
        /\ rows[entry[1]].owner = entry[2]

\* No save takes a row from its owner or the source code from a row, as long as
\* operations have not overlapped, although the public sync stores submissions
\* without code and every save writes all rows of the copy it holds.
Improves(old, new) == new.owner = old.owner /\ (old.code => new.code)

RowsOnlyImprove ==
    [][ serial' => \A k \in Keys :
          rows[k] # NoRow => rows'[k] # NoRow /\ Improves(rows[k], rows'[k]) ]_vars

AllIdle == \A t \in Threads : pc[t] = "idle"

SameTiers == tree = rows /\ parquet = rows

\* "Maintaining parity across Markdown, Parquet, and DuckDB": when operations
\* that ran one after the other are over, and none was cut short, the tiers show
\* the same.
TiersAgree == AllIdle /\ serial /\ ~broken => SameTiers

\* What the code does give: parity as long as none of them has saved a view that
\* leaves submissions out.
TiersAgreeIfWhole == AllIdle /\ serial /\ ~broken /\ ~narrowed => SameTiers

-----------------------------------------------------------------------------
(* Inductive strengthenings, for the proofs                                 *)

\* A thread that is storing a submission knows which, under its own key.
Storing(t) ==
    \/ pc[t] \in {"look", "skip", "problem", "enrich", "create", "read", "resolve",
                  "check"}
    \/ Saving(t) /\ then[t] \in {"added", "read"}

JobInv ==
    \A t \in Threads : Storing(t) =>
        /\ job[t] # NoJob
        /\ job[t].key \in Ids \/ \E i \in Ids : job[t].key = <<i, job[t].account>>

Within(f, g) == \A k \in Keys : f[k] # NoRow => g[k] # NoRow

FollowInv ==
    /\ Within(tree, rows) /\ Within(parquet, rows)
    /\ \A t \in Threads :
         /\ Within(snap[t], rows)
         /\ pc[t] = "tree" => Within(agg[t], rows)

\* A suffixed key is only ever its account's.
OwnKeys(f) ==
    \A i \in Ids, a \in Accounts : f[<<i, a>>] # NoRow => f[<<i, a>>].owner = a

OwnInv == OwnKeys(rows) /\ \A t \in Threads : OwnKeys(agg[t])

\* While operations do not overlap, the one in progress holds a copy in which
\* every row is as good as the stored one.
FreshInv ==
    /\ \A t \in Threads : pc[t] = "idle" => agg[t] = Empty
    /\ serial =>
         /\ \A t, u \in Threads : pc[t] # "idle" /\ pc[u] # "idle" => t = u
         /\ \A t \in Threads, k \in Keys :
              agg[t][k] # NoRow /\ rows[k] # NoRow => Improves(rows[k], agg[t][k])

\* The row that add_submission() is about to answer for.
Answerable(f, t) == f[job[t].key] # NoRow /\ f[job[t].key].owner = job[t].account

AnswerInv ==
    serial => \A t \in Threads :
        /\ pc[t] = "check" /\ rows[job[t].key] # NoRow => Answerable(rows, t)
        /\ pc[t] = "duck" /\ then[t] = "added" => Answerable(agg[t], t)
        /\ pc[t] \in {"tree", "list", "parquet"} /\ then[t] = "added" =>
             Answerable(rows, t)

\* What is saved is saved of a problem that exists.
ExistsInv ==
    /\ rows # Empty => exists
    /\ \A t \in Threads :
         pc[t] \in {"read", "resolve", "check", "duck", "tree", "list", "parquet"}
           => exists

\* The operation in progress saves every row that is stored, tier after tier.
ParityOf(t) ==
    /\ pc[t] \notin {"tree", "list", "parquet"} => SameTiers
    /\ pc[t] \in {"resolve", "check", "tree", "list", "parquet"} => agg[t] = rows
    /\ pc[t] = "duck" => Within(rows, agg[t])
    /\ pc[t] \in {"list", "parquet"} => tree = rows
    /\ pc[t] = "parquet" => snap[t] = rows

Whole == serial /\ ~broken /\ ~narrowed

ParityInv ==
    Whole => /\ AllIdle => SameTiers
             /\ \A t \in Threads : pc[t] # "idle" => ParityOf(t)
=============================================================================
