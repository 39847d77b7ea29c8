----------------------------- MODULE MCBoundary -----------------------------
(* The credential vault, the settings file, the database handles, the LeetCode *)
(* client and the importer for TLC.                                            *)
EXTENDS Boundary, TLC

CONSTANTS
    e1, e2, e3,         \* submissions
    p, q,               \* the problem of the first two, and of the third
    x                   \* LeetCode's id of e1

MCRequested == {-1, 2, 9}
MCTitleSlug == (e1 :> p) @@ (e2 :> p) @@ (e3 :> q)
MCNamed == x :> e1

Line(e, id, owner) == [entry |-> e, id |-> id, code |-> 1, owner |-> owner]

\* A file of two problems, and one of the connected account with a row that is
\* there twice.
MCFiles ==
    {<< <<Line(e1, x, NoAccount), Line(e2, NoRow, NoAccount)>>,
        <<Line(e3, NoRow, NoAccount)>> >>,
     << <<Line(e1, NoRow, Account), Line(e1, x, Account)>> >>}

\* The bounds on retries are those of the client only.
MCInit == BoundaryInit /\ (maxRetries # 0 => part = "client")

MCSpec == MCInit /\ [][BoundaryNext]_<<boundaryVars, part>>

\* Behaviours are followed no further once imports have overlapped, of which
\* nothing is promised, or once a cookie is entered without an account: its vault
\* is another instance of the account's.
Followed ==
    /\ "import" \notin beside
    /\ \A t \in VaultThreads : task[t].op = "store" => task[t].id # Default

Symmetry == Permutations(VaultThreads) \cup Permutations(MasterKeys)
              \cup Permutations(Importers)
=============================================================================
