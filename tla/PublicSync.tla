----------------------------- MODULE PublicSync -----------------------------
(***************************************************************************)
(* LeetCodeSyncEngine.sync (connectors/leetcode/sync.py) as                *)
(* LeetCodeAccountService.sync runs it: one request for the newest         *)
(* accepted submissions, the records stored one by one, the watermark on   *)
(* the connection advanced when none failed, and the connection read at    *)
(* the start saved at the end, whatever happened.                          *)
(***************************************************************************)
EXTENDS AccountStore

CONSTANT WindowLimit    \* sync_limit: the most submissions a window can have

ASSUME WindowAssumption == WindowLimit \in Nat \ {0}

VARIABLES
    window,     \* raw_subs: the records the fetch returned, as each thread sees
    result,     \* SyncStatus.status of a thread's sync
    answered    \* history: the submission request got an answer

publicVars == <<window, result, answered>>

PublicPoints == {"fetch", "persist", "summary"}

PublicTypeOK ==
    /\ window \in [Public -> SUBSET Records]
    /\ result \in [Public -> {"idle", "success", "partial", "failed"}]
    /\ answered \in [Public -> BOOLEAN]

PublicInit ==
    /\ window = [t \in Public |-> {}]
    /\ result = [t \in Public |-> "idle"]
    /\ answered = [t \in Public |-> FALSE]

\* The newest k of the n submissions LeetCode holds.
Newest(n, k) == {r \in Records : r <= n /\ r > n - k}

\* The windows LeetCode may serve: as many of the newest as the server sees fit,
\* and never more than the limit of the request, which callers choose.
Served(t) == {Newest(upstream[conn[t].user], k) : k \in 1..WindowLimit}

\* sync(): "LeetCode account is not connected" is raised without a step.
SyncBegin(t) ==
    /\ Begin(t)
    /\ Visible # NoConn
    /\ conn' = [conn EXCEPT ![t] = Visible]
    /\ Goto(t, "fetch")
    /\ UNCHANGED <<file, torn, then, detached, worldVars, window, result, answered>>

\* fetch_user_profile and fetch_user_submissions.  A missing profile makes the
\* run PARTIAL.  A request that failed gives the same empty list as an account
\* without submissions, and malformed entries are dropped from the list.
SyncFetch(t) ==
    /\ pc[t] = "fetch"
    /\ \E profile, reached \in BOOLEAN, W \in Served(t) : \E malformed \in SUBSET W :
         /\ reached \/ malformed = {}
         /\ window' = [window EXCEPT ![t] = IF reached THEN W \ malformed ELSE {}]
         /\ answered' = [answered EXCEPT ![t] = reached]
         /\ result' = [result EXCEPT ![t] = IF profile THEN "success" ELSE "partial"]
         /\ garbled' = [garbled EXCEPT ![conn[t].user] = @ \/ malformed # {}]
    /\ Goto(t, "persist")
    /\ UNCHANGED <<file, torn, upstream, stored, conn, then, detached, alone>>

\* An exception outside the per-record `try` (the mapper, a client defect): the
\* run is FAILED, and the connection is saved all the same.
SyncRaises(t) ==
    /\ pc[t] \in {"fetch", "persist"}
    /\ result' = [result EXCEPT ![t] = "failed"]
    /\ SaveThen(t, conn[t], "summary")
    /\ UNCHANGED <<file, torn, detached, alone, worldVars, window, answered>>

\* _gap_detected: there is a baseline, and the whole window is newer.
GapDetected(t) ==
    /\ conn[t].mark # 0 /\ window[t] # {}
    /\ \A r \in window[t] : r > conn[t].mark

\* Mutant: the newest record of the window, past the watermark or not.
AdvanceToWindow(t) == {r \in window[t] : \A q \in window[t] : q <= r}

\* The newest record of the window, if it is past the watermark.
Advance(t) ==
    {r \in window[t] : r > conn[t].mark /\ \A q \in window[t] : q <= r}

\* Mutant: the watermark moves although a record of the window failed.
NextMarkAnyway(t, failed) ==
    IF Advance(t) # {} THEN CHOOSE r \in Advance(t) : TRUE ELSE conn[t].mark

\* Mutant: the watermark is one past the newest record.
NextMarkPast(t, failed) ==
    IF failed = {} /\ Advance(t) # {}
      THEN 1 + CHOOSE r \in Advance(t) : TRUE
      ELSE conn[t].mark

\* The watermark after a run that failed to store `failed`.
NextMark(t, failed) ==
    IF failed = {} /\ Advance(t) # {}
      THEN CHOOSE r \in Advance(t) : TRUE
      ELSE conn[t].mark

\* What the watermark stands for begins at the window's oldest record if the run
\* had no baseline, or if it reported a gap; otherwise where it began before.
NextFloor(t, failed) ==
    IF failed = {} /\ window[t] # {} /\ (conn[t].mark = 0 \/ GapDetected(t))
      THEN (CHOOSE r \in window[t] : \A q \in window[t] : r <= q) - 1
      ELSE conn[t].floor

\* The record loop (a record already stored is skipped, a new one is added or
\* fails), the watermark, the coverage details and the saved sync metadata.  A
\* crash in mid-loop leaves what a crash after some records failed leaves.
SyncPersist(t) ==
    /\ pc[t] = "persist"
    /\ \E failed \in SUBSET window[t] :
         /\ stored' = [stored EXCEPT ![conn[t].user] = @ \cup (window[t] \ failed)]
         /\ result' = [result EXCEPT ![t] = IF failed = {} THEN @ ELSE "partial"]
         /\ SaveThen(t, [conn[t] EXCEPT !.mark = NextMark(t, failed),
                                        !.floor = NextFloor(t, failed)], "summary")
    /\ UNCHANGED <<file, torn, upstream, garbled, detached, alone, window, answered>>

ForgetRun(t) ==
    /\ window' = [window EXCEPT ![t] = {}]
    /\ result' = [result EXCEPT ![t] = "idle"]
    /\ answered' = [answered EXCEPT ![t] = FALSE]

\* _record_sync_summary: the connection is read again and, if it is there,
\* saved with the summary of the run.
SyncSummary(t) ==
    /\ pc[t] = "summary"
    /\ \/ Visible = NoConn /\ Return(t)
       \/ Visible # NoConn /\ SaveThen(t, Visible, "idle")
    /\ ForgetRun(t)
    /\ UNCHANGED <<file, torn, detached, alone, worldVars>>

PublicStep(t) == SyncFetch(t) \/ SyncRaises(t) \/ SyncPersist(t) \/ SyncSummary(t)
=============================================================================
