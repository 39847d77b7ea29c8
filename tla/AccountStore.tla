---------------------------- MODULE AccountStore ----------------------------
(****************************************************************************)
(* AccountService (connectors/account/service.py): account_connections.json *)
(* and the threads that read and rewrite it without a lock, together with   *)
(* what LeetCode holds and what CodeMemory has stored for each account.     *)
(*                                                                          *)
(* A user's submissions are numbered 1, 2, ... in the order LeetCode        *)
(* received them, which is the order of their ids and timestamps.           *)
(****************************************************************************)
EXTENDS Integers, FiniteSets

CONSTANTS
    Users,      \* LeetCode usernames
    Public,     \* threads running the public recent-window sync
    Auth,       \* threads running the authenticated full-history sync
    Ui,         \* threads connecting and disconnecting the account
    MaxRecord,  \* bound: submissions per user
    NoUser,     \* no username
    NoConn      \* get_connection() returned None

Threads == Public \cup Auth \cup Ui
Records == 1..MaxRecord

VARIABLES
    file,       \* the connection the file last held, or NoConn
    torn,       \* the file is open for writing: truncated, not yet written
    upstream,   \* number of submissions LeetCode holds for each user
    stored,     \* submissions in CodeMemory's storage, by source_account
    pc,         \* where each thread is
    conn,       \* each thread's copy of the connection
    then,       \* where a thread goes once its save_connection() is done
    garbled,    \* history: users an entry of whom was malformed and dropped
    detached,   \* history: "no", or how the last disconnect was: "clean" when
                \* no other thread was at work, else "racing"
    alone       \* history: no two threads have been at work at once since all
                \* were last idle

storeVars == <<file, torn, upstream, stored, pc, conn, then, garbled,
               detached, alone>>
worldVars == <<upstream, stored, garbled>>

\* The persisted fields these syncs depend on.  mark is the watermark (0: none),
\* ckpt and who the checkpoint offset (0: none) and its username.  Two are history
\* fields: floor, the newest submission that lay below the window of a first run or
\* below a gap that was reported, and base, how many submissions existed when the
\* checkpointed pass began.
Connection(ckpts) ==
    [user: Users, mark: 0..MaxRecord, floor: 0..MaxRecord, ckpt: ckpts,
     who: Users \cup {NoUser}, base: 0..MaxRecord]

ASSUME StoreAssumption ==
    /\ MaxRecord \in Nat
    /\ NoUser \notin Users
    /\ NoConn \notin Connection(Nat)
    /\ Public \cap Auth = {} /\ Public \cap Ui = {} /\ Auth \cap Ui = {}

Fresh(u) ==
    [user |-> u, mark |-> 0, floor |-> 0, ckpt |-> 0, who |-> NoUser, base |-> 0]

\* get_connection(): a truncated file does not parse, and _read_all gives {}.
Visible == IF torn THEN NoConn ELSE file

Quiet(t) == \A u \in Threads \ {t} : pc[u] = "idle"

\* A thread leaves "idle".
Begin(t) == pc[t] = "idle" /\ alone' = Quiet(t)

Goto(t, point) == pc' = [pc EXCEPT ![t] = point]

\* Thread t is about to save c, and goes on at `point` afterwards.
SaveThen(t, c, point) ==
    /\ conn' = [conn EXCEPT ![t] = c]
    /\ then' = [then EXCEPT ![t] = point]
    /\ Goto(t, "tear")

\* Thread t is done and keeps nothing.
Return(t) ==
    /\ Goto(t, "idle")
    /\ conn' = [conn EXCEPT ![t] = NoConn]
    /\ then' = [then EXCEPT ![t] = "idle"]

StoreTypeOK(offsets, points) ==
    /\ file \in Connection(offsets) \cup {NoConn}
    /\ torn \in BOOLEAN
    /\ upstream \in [Users -> 0..MaxRecord]
    /\ stored \in [Users -> SUBSET Records]
    /\ pc \in [Threads -> {"idle", "tear", "write", "validate"} \cup points]
    /\ conn \in [Threads -> Connection(offsets) \cup {NoConn}]
    /\ then \in [Threads -> {"idle"} \cup points]
    /\ garbled \in [Users -> BOOLEAN]
    /\ detached \in {"no", "clean", "racing"}
    /\ alone \in BOOLEAN

StoreInit ==
    /\ file \in {NoConn} \cup {Fresh(u) : u \in Users}
    /\ torn = FALSE
    /\ upstream = [u \in Users |-> 0]
    /\ stored = [u \in Users |-> {}]
    /\ pc = [t \in Threads |-> "idle"]
    /\ conn = [t \in Threads |-> NoConn]
    /\ then = [t \in Threads |-> "idle"]
    /\ garbled = [u \in Users |-> FALSE]
    /\ detached = "no"
    /\ alone = TRUE

-----------------------------------------------------------------------------
\* _write_all: open(..., "w") truncates the file, json.dump fills it.  Text laid
\* over what another thread has written since is garbage if it is the shorter.
Tear(t) ==
    /\ pc[t] = "tear"
    /\ torn' = TRUE
    /\ Goto(t, "write")
    /\ UNCHANGED <<file, conn, then, detached, alone, worldVars>>

Write(t) ==
    /\ pc[t] = "write"
    /\ \/ file' = conn[t]
       \/ ~torn /\ file' = NoConn
    /\ torn' = FALSE
    /\ \/ then[t] = "idle" /\ Return(t)
       \/ then[t] # "idle" /\ Goto(t, then[t]) /\ UNCHANGED <<conn, then>>
    /\ UNCHANGED <<detached, alone, worldVars>>

-----------------------------------------------------------------------------
\* LeetCodeAccountService.connect: nothing to do for the account that is already
\* connected; otherwise the profile is fetched and a fresh record is saved.
Connect(t, u) ==
    /\ Begin(t)
    /\ \/ Visible = NoConn
       \/ Visible # NoConn /\ Visible.user # u
    /\ conn' = [conn EXCEPT ![t] = Fresh(u)]
    /\ detached' = "no"
    /\ Goto(t, "validate")
    /\ UNCHANGED <<file, torn, then, worldVars>>

ConnectValidated(t) ==
    /\ pc[t] = "validate"
    /\ SaveThen(t, conn[t], "idle")
    /\ UNCHANGED <<file, torn, detached, alone, worldVars>>

ConnectRefused(t) ==
    /\ pc[t] = "validate"
    /\ Return(t)
    /\ UNCHANGED <<file, torn, detached, alone, worldVars>>

\* Mutant: the file is rewritten only if entries of other platforms remain.
DisconnectKeepsFile(t) ==
    /\ pc[t] = "idle"
    /\ Visible # NoConn
    /\ detached' = IF Quiet(t) THEN "clean" ELSE "racing"
    /\ alone' = Quiet(t)
    /\ UNCHANGED <<file, torn, pc, conn, then, worldVars>>

\* remove_connection: the rewritten file has no entry.  The truncated file and
\* the empty one read alike, so this is one step.
Disconnect(t) ==
    /\ pc[t] = "idle"
    /\ Visible # NoConn
    /\ file' = NoConn
    /\ detached' = IF Quiet(t) THEN "clean" ELSE "racing"
    /\ alone' = Quiet(t)
    /\ UNCHANGED <<torn, pc, conn, then, worldVars>>

-----------------------------------------------------------------------------
\* The user submits on leetcode.com.
Submit(u) ==
    /\ upstream[u] < MaxRecord
    /\ upstream' = [upstream EXCEPT ![u] = @ + 1]
    /\ UNCHANGED <<file, torn, stored, pc, conn, then, garbled, detached, alone>>

StoreStep(t) == Tear(t) \/ Write(t)

UiStep(t) == ConnectValidated(t) \/ ConnectRefused(t)

UiBegins(t) == Disconnect(t) \/ \E u \in Users : Connect(t, u)
=============================================================================
