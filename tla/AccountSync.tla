---------------------------- MODULE AccountSync ----------------------------
(***************************************************************************)
(* The account file with everyone who rewrites it at once: public syncs    *)
(* (the scheduler's, and the API route's, which takes no lock), the        *)
(* authenticated sync, and the user connecting and disconnecting.          *)
(***************************************************************************)
EXTENDS PublicSync, AuthSync

vars == <<storeVars, publicVars, authVars>>

Init == StoreInit /\ PublicInit /\ AuthInit

\* The process dies: threads are gone, and a file that was being written is
\* left truncated, which reads as no connection.
Crash ==
    /\ \E t \in Threads : pc[t] # "idle"
    /\ pc' = [t \in Threads |-> "idle"]
    /\ conn' = [t \in Threads |-> NoConn]
    /\ then' = [t \in Threads |-> "idle"]
    /\ file' = Visible
    /\ torn' = FALSE
    /\ window' = [t \in Public |-> {}]
    /\ result' = [t \in Public |-> "idle"]
    /\ answered' = [t \in Public |-> FALSE]
    /\ who' = [t \in Auth |-> NoUser]
    /\ offset' = [t \in Auth |-> 0]
    /\ base' = [t \in Auth |-> 0]
    /\ UNCHANGED <<detached, alone, mixed, worldVars>>

Begins ==
    \/ \E t \in Public : SyncBegin(t) /\ UNCHANGED authVars
    \/ \E t \in Auth : AuthBegin(t) /\ UNCHANGED publicVars
    \/ \E t \in Ui : UiBegins(t) /\ UNCHANGED <<publicVars, authVars>>

\* A thread that has begun goes on.
Runs(t) ==
    \/ StoreStep(t) /\ UNCHANGED <<publicVars, authVars>>
    \/ t \in Public /\ PublicStep(t) /\ UNCHANGED authVars
    \/ t \in Auth /\ AuthStep(t) /\ UNCHANGED publicVars
    \/ t \in Ui /\ UiStep(t) /\ UNCHANGED <<publicVars, authVars>>

Next ==
    \/ Begins
    \/ \E t \in Threads : Runs(t)
    \/ \E u \in Users : Submit(u) /\ UNCHANGED <<publicVars, authVars>>
    \/ Crash

Spec == Init /\ [][Next]_vars

-----------------------------------------------------------------------------
(* Properties                                                              *)

\* Every variable stays within the values the code can give it.
TypeOK ==
    /\ StoreTypeOK(Offsets, PublicPoints \cup AuthPoints)
    /\ PublicTypeOK
    /\ AuthTypeOK

\* sync.py:307-318: the watermark never promises more than is stored.  From the
\* first window on, or the last gap that a run reported, every submission up to the
\* persisted watermark is in storage, whatever windows the server chose to serve,
\* through failed records, stale saves, account switches and crashes; unless an
\* entry was malformed, which the client drops.
CoverageHonest ==
    file # NoConn /\ ~garbled[file.user] =>
        (file.floor + 1)..file.mark \subseteq stored[file.user]

\* A full-history run that reaches its end without a failure has stored every
\* submission that existed when its pass began, resumes included, although
\* offsets shift as the user goes on submitting: as long as no run was caught by
\* a change of account between its two reads of the connection.
AuthComplete ==
    ~mixed => \A t \in Auth :
        pc[t] = "clear" => 1..base[t] \subseteq stored[who[t]]

\* A disconnect made while no sync is at work stays in force until the user
\* connects again.
IdleDisconnectSticks == detached = "clean" => Visible = NoConn

\* "A disconnect therefore stops the scheduled traffic": the same for every
\* disconnect, also one made while a sync is running.
DisconnectSticks == detached # "no" => Visible = NoConn

\* While threads take turns, no save moves an account's watermark back.
WatermarkMonotone ==
    [][ alone' /\ file # NoConn /\ file' # NoConn /\ file'.user = file.user
          => file'.mark >= file.mark ]_vars

\* The same as AuthComplete for every run: "different accounts maintain
\* independent checkpoints", also when the user switches accounts meanwhile.
AuthAlwaysComplete ==
    \A t \in Auth : pc[t] = "clear" => 1..base[t] \subseteq stored[who[t]]

\* sync() "never returns a fabricated success": a run that reports SUCCESS had
\* its submission window.
SuccessMeansFetched ==
    \A t \in Public : pc[t] = "summary" /\ result[t] = "success" => answered[t]

-----------------------------------------------------------------------------
(* Inductive strengthenings, for the proofs                                *)

\* What a thread holds at each of its program points.
ControlInv ==
    /\ \A t \in Threads :
         /\ pc[t] = "idle" => conn[t] = NoConn
         /\ pc[t] \in {"validate", "tear", "write"} => conn[t] # NoConn
    /\ \A t \in Public :
         /\ pc[t] \in {"idle", "tear", "write"} \cup PublicPoints
         /\ then[t] \in {"idle", "summary"}
         /\ pc[t] \in {"fetch", "persist"} => conn[t] # NoConn
    /\ \A t \in Auth :
         /\ pc[t] \in {"idle", "tear", "write"} \cup AuthPoints
         /\ then[t] \in {"idle", "page", "clear"}
         /\ pc[t] = "clear" => conn[t] # NoConn
    /\ \A t \in Ui :
         /\ pc[t] \in {"idle", "tear", "write", "validate"}
         /\ then[t] = "idle"

\* A full-history run between its first and its last step.
Fetching(t) ==
    \/ pc[t] \in AuthPoints
    \/ pc[t] \in {"tear", "write"} /\ then[t] # "idle"

WhoInv == \A t \in Auth : Fetching(t) => who[t] \in Users

\* A connection whose watermark is honest, wherever a copy of it is.
Honest(c, dropped, kept) ==
    c # NoConn /\ ~dropped[c.user] => (c.floor + 1)..c.mark \subseteq kept[c.user]

CopiesHonest ==
    /\ Honest(file, garbled, stored)
    /\ \A t \in Threads : Honest(conn[t], garbled, stored)

\* A window that dropped nothing has no holes.
Unbroken(W) == \A q, r \in W : q..r \subseteq W

WindowHonest ==
    \A t \in Public : pc[t] = "persist" /\ ~garbled[conn[t].user] =>
        Unbroken(window[t])

\* Of the b submissions a pass began with, those the pages up to offset k have
\* shown are kept.  New submissions push older ones to higher offsets.
Covered(u, k, b, held, kept) ==
    \A r \in Records : r <= b /\ r > held[u] - k => r \in kept[u]

CheckpointHonest(c, held, kept) ==
    c # NoConn /\ c.ckpt # 0 =>
        c.who = c.user /\ Covered(c.user, c.ckpt, c.base, held, kept)

CheckpointsHonest ==
    ~mixed =>
        /\ CheckpointHonest(file, upstream, stored)
        /\ \A t \in Threads : CheckpointHonest(conn[t], upstream, stored)

\* A run keeps its checkpoints on a connection to the account it fetches.
RunsOnOwnConnection ==
    ~mixed => \A t \in Auth :
        Fetching(t) /\ pc[t] # "load" /\ conn[t] # NoConn => conn[t].user = who[t]

Finishing(t) ==
    \/ pc[t] = "clear"
    \/ pc[t] \in {"tear", "write"} /\ then[t] = "clear"

PassInv ==
    ~mixed => \A t \in Auth :
        /\ Fetching(t) /\ pc[t] \notin {"load", "resume"} =>
             Covered(who[t], offset[t], base[t], upstream, stored)
        /\ Finishing(t) => 1..base[t] \subseteq stored[who[t]]

DisconnectInv ==
    detached = "clean" => file = NoConn /\ \A t \in Threads : pc[t] = "idle"

\* While threads take turns, the one at work knows the file's watermark.
TurnsInv ==
    /\ torn => \E t \in Threads : pc[t] = "write"
    /\ alone => \A t, u \in Threads : pc[t] # "idle" /\ pc[u] # "idle" => t = u

KnowsMark(t) ==
    conn[t] # NoConn /\ file # NoConn /\ conn[t].user = file.user =>
        conn[t].mark >= file.mark

MarkInv == alone => \A t \in Threads : pc[t] # "idle" => KnowsMark(t)
=============================================================================
