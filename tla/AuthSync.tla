------------------------------ MODULE AuthSync ------------------------------
(***************************************************************************)
(* AuthenticatedSyncOrchestrator.sync_full_history                         *)
(* (connectors/leetcode/auth_sync.py): the whole history, newest first, by *)
(* offset pages, with the offset of the next page saved on the connection  *)
(* after every page so that a later run resumes there.                     *)
(***************************************************************************)
EXTENDS AccountStore

CONSTANT PageSize       \* LEETCODE_PAGE_SIZE

ASSUME PageAssumption == PageSize \in Nat \ {0}

VARIABLES
    who,        \* username: the account a run fetches
    offset,     \* the next page's offset
    base,       \* history: submissions that existed when the pass began
    mixed       \* history: a run has loaded a connection to another account
                \* than the one it fetches

authVars == <<who, offset, base, mixed>>

AuthPoints == {"load", "resume", "page", "clear"}

\* Every offset from MaxRecord on gives an empty page: one of them is enough.
CapOffset(k) == IF k > MaxRecord THEN MaxRecord + 1 ELSE k
Offsets == 0..(MaxRecord + 1)

AuthTypeOK ==
    /\ who \in [Auth -> Users \cup {NoUser}]
    /\ offset \in [Auth -> Offsets]
    /\ base \in [Auth -> 0..MaxRecord]
    /\ mixed \in BOOLEAN

AuthInit ==
    /\ who = [t \in Auth |-> NoUser]
    /\ offset = [t \in Auth |-> 0]
    /\ base = [t \in Auth |-> 0]
    /\ mixed = FALSE

\* The page at an offset counted from the newest of n submissions.
Page(n, k) == {r \in Records : r <= n - k /\ r > n - k - PageSize}

ForgetAuth(t) ==
    /\ who' = [who EXCEPT ![t] = NoUser]
    /\ offset' = [offset EXCEPT ![t] = 0]
    /\ base' = [base EXCEPT ![t] = 0]
    /\ UNCHANGED mixed

\* sync_authenticated_full_history: whose history to fetch.  (Credentials that
\* are missing or invalid end the run before it touches anything.)
AuthBegin(t) ==
    /\ Begin(t)
    /\ Visible # NoConn
    /\ who' = [who EXCEPT ![t] = Visible.user]
    /\ Goto(t, "load")
    /\ UNCHANGED <<file, torn, conn, then, detached, worldVars, offset, base, mixed>>

\* Step 4.5 reads the connection that every checkpoint of the run is saved on.
AuthLoad(t) ==
    /\ pc[t] = "load"
    /\ conn' = [conn EXCEPT ![t] = Visible]
    /\ mixed' = (mixed \/ (Visible # NoConn /\ Visible.user # who[t]))
    /\ Goto(t, "resume")
    /\ UNCHANGED <<file, torn, then, detached, alone, worldVars, who, offset, base>>

\* load_checkpoint compares the checkpoint's username with the account that is
\* connected now, which it reads once more.
CheckpointOf(c) ==
    IF \/ c = NoConn
       \/ c.who # NoUser /\ Visible # NoConn /\ Visible.user # c.who
      THEN 0
      ELSE c.ckpt

AuthResume(t) ==
    /\ pc[t] = "resume"
    /\ offset' = [offset EXCEPT ![t] = CheckpointOf(conn[t])]
    /\ base' = [base EXCEPT ![t] = IF CheckpointOf(conn[t]) = 0
                                     THEN upstream[who[t]] ELSE conn[t].base]
    /\ Goto(t, "page")
    /\ UNCHANGED <<file, torn, conn, then, detached, alone, worldVars, who, mixed>>

\* The connection with the checkpoint of an offset, or with none.
Checkpointed(t, k) ==
    [conn[t] EXCEPT !.ckpt = k, !.who = who[t], !.base = base[t]]

Cleared(t) == [conn[t] EXCEPT !.ckpt = 0, !.who = NoUser, !.base = 0]

\* One page is fetched and its records are stored.  All of them made it: the
\* checkpoint moves past the page; has_next is a full page.
AuthPage(t) ==
    /\ pc[t] = "page"
    /\ conn[t] # NoConn
    /\ LET page == Page(upstream[who[t]], offset[t])
       IN  /\ stored' = [stored EXCEPT ![who[t]] = @ \cup page]
           /\ SaveThen(t, Checkpointed(t, CapOffset(offset[t] + PageSize)),
                       IF Cardinality(page) = PageSize THEN "page" ELSE "clear")
    /\ offset' = [offset EXCEPT ![t] = CapOffset(@ + PageSize)]
    /\ UNCHANGED <<file, torn, upstream, garbled, detached, alone, who, base, mixed>>

\* Mutant: the checkpoint moves past a page some record of which failed.
AuthPageFailsSkips(t) ==
    /\ pc[t] = "page"
    /\ conn[t] # NoConn
    /\ LET page == Page(upstream[who[t]], offset[t])
       IN  \E failed \in (SUBSET page) \ {{}} :
             stored' = [stored EXCEPT ![who[t]] = @ \cup (page \ failed)]
    /\ SaveThen(t, Checkpointed(t, CapOffset(offset[t] + PageSize)), "idle")
    /\ ForgetAuth(t)
    /\ UNCHANGED <<file, torn, upstream, garbled, detached, alone>>

\* Some record of the page failed: the checkpoint stays on the page and the run
\* ends PARTIAL or FAILED.
AuthPageFails(t) ==
    /\ pc[t] = "page"
    /\ conn[t] # NoConn
    /\ LET page == Page(upstream[who[t]], offset[t])
       IN  \E failed \in (SUBSET page) \ {{}} :
             stored' = [stored EXCEPT ![who[t]] = @ \cup (page \ failed)]
    /\ SaveThen(t, Checkpointed(t, offset[t]), "idle")
    /\ ForgetAuth(t)
    /\ UNCHANGED <<file, torn, upstream, garbled, detached, alone>>

\* The request raised, or there is no connection to save a checkpoint on once
\* the page is processed (the run then ends FAILED on None.metadata).
AuthRaises(t) ==
    /\ pc[t] = "page"
    /\ \E kept \in SUBSET Page(upstream[who[t]], offset[t]) :
         /\ conn[t] = NoConn \/ kept = {}
         /\ stored' = [stored EXCEPT ![who[t]] = @ \cup kept]
    /\ Return(t)
    /\ ForgetAuth(t)
    /\ UNCHANGED <<file, torn, upstream, garbled, detached, alone>>

\* The last page is done without a failure: the checkpoint is cleared.
AuthClear(t) ==
    /\ pc[t] = "clear"
    /\ SaveThen(t, Cleared(t), "idle")
    /\ ForgetAuth(t)
    /\ UNCHANGED <<file, torn, detached, alone, worldVars>>

AuthStep(t) ==
    AuthLoad(t) \/ AuthResume(t) \/ AuthPage(t) \/ AuthPageFails(t)
      \/ AuthRaises(t) \/ AuthClear(t)
=============================================================================
