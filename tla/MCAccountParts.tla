--------------------------- MODULE MCAccountParts ---------------------------
(* Three instances in one run, each from initial states of its own: a public *)
(* sync beside the user, a full-history sync beside the user, and both syncs *)
(* at once for a user who may disconnect but does not connect again.         *)
EXTENDS MCAccountSync, FiniteSetsExt

VARIABLE focus      \* "public" or "auth": the sync that may run; or the one
                    \* user of the instance where both run

Known == {file} \cup {conn[t] : t \in Threads}

\* What an instance leaves out.
Within(c) ==
    /\ focus = "public" => \A t \in Auth : pc[t] = "idle"
    /\ focus = "auth" => \A t \in Public : pc[t] = "idle"
    /\ focus \in Users =>
         /\ \A t \in Ui : pc[t] = "idle"
         /\ \A x \in c : x # NoConn => x.user = focus

PartsInit == Init /\ focus \in {"public", "auth"} \cup Users /\ Within(Known)

PartsNext == Next /\ UNCHANGED focus /\ Within(Known)'

PartsSpec == PartsInit /\ [][PartsNext]_<<vars, focus>>

\* The submissions of all users together.
Enough ==
    /\ MapThenSumSet(LAMBDA u : upstream[u], Users)
         <= (CASE focus = "public" -> 3 [] focus = "auth" -> 3 [] OTHER -> 1)
    /\ focus \in Users => \A u \in Users \ {focus} : upstream[u] = 0
=============================================================================
