------------------------------- MODULE Library -------------------------------
(*****************************************************************************)
(* The practice history as the services that read it meet it: the rows that  *)
(* CodeMemoryService.add_submission and the syncs have stored (Storage shows *)
(* how, and that none is ever deleted), and the connected account.           *)
(*****************************************************************************)
EXTENDS Naturals, FiniteSets

CONSTANTS
    Problems,
    Topics,
    TopicsOf,       \* topics of each problem
    Rows,           \* submissions: <<problem, number of the attempt, number in it>>
    Accounts,       \* LeetCode usernames
    Manual,         \* source_account and source_provider of other rows: None
    Nobody,         \* active_account without a connection: None
    Failures,       \* statuses other than Accepted
    MaxDay,         \* bound: days on which something is submitted
    MaxText,        \* bound: versions of a submission's code
    Absent          \* not stored

Owners == Accounts \cup {Manual}
Statuses == Failures \cup {"Accepted"}
Submission == [owner : Owners, status : Statuses, day : 1..MaxDay,
               text : 1..MaxText]

ASSUME LibraryAssumption ==
    /\ IsFiniteSet(Problems) /\ IsFiniteSet(Rows)
    /\ Rows \subseteq Problems \X (Nat \ {0}) \X Nat
    /\ TopicsOf \in [Problems -> SUBSET Topics]
    /\ Manual \notin Accounts /\ Nobody \notin Owners
    /\ "Accepted" \notin Failures
    /\ MaxDay \in Nat \ {0} /\ MaxText \in Nat
    /\ Absent \notin Submission

VARIABLES
    library,        \* what storage.list_all() expands
    connected       \* account store: the username of the LeetCode connection

libraryVars == <<library, connected>>

LibraryTypeOK ==
    /\ library \in [Rows -> Submission \cup {Absent}]
    /\ connected \in Accounts \cup {Nobody}

Stored == {r \in Rows : library[r] # Absent}
ProblemOf(r) == r[1]
AttemptOf(r) == <<r[1], r[2]>>
Owner(r) == library[r].owner
Accepted(r) == library[r].status = "Accepted"

\* Problem._get_source_account and the like are asked of rows of one owner only.
OwnedBy(o) == {r \in Stored : Owner(r) = o}
Of(p) == {r \in Stored : ProblemOf(r) = p}

LibraryInit ==
    /\ library = [r \in Rows |-> Absent]
    /\ connected = Nobody

\* add_submission: a row joins the last attempt if that has its status and is not
\* accepted; otherwise it is the first of the next attempt.
Fits(r, s) ==
    /\ \A q \in Stored : AttemptOf(q) = AttemptOf(r) =>
           library[q].status = s.status /\ s.status # "Accepted"
    /\ \A q \in Stored : ProblemOf(q) = ProblemOf(r) => q[2] <= r[2]
    /\ r[2] > 1 => \E q \in Stored : AttemptOf(q) = <<r[1], r[2] - 1>>
    /\ (\E q \in Stored : AttemptOf(q) = <<r[1], r[2] - 1>> /\ ~Accepted(q)
            /\ library[q].status = s.status)
         => \E q \in Stored : AttemptOf(q) = AttemptOf(r)

\* The code of a row is numbered from 1.
Entered == {s \in Submission : s.text = 1}

\* A submission entered by hand, or stored by the sync of the connected account.
Store(r, s) ==
    /\ library[r] = Absent
    /\ s.owner \in {Manual, connected}
    /\ Fits(r, s)
    /\ library' = [library EXCEPT ![r] = s]
    /\ UNCHANGED connected

\* A later sync replaces its code.
Rewrite(r) ==
    /\ r \in OwnedBy(connected)
    /\ library[r].text < MaxText
    /\ library' = [library EXCEPT ![r].text = @ + 1]
    /\ UNCHANGED connected

Connect(a) ==
    /\ connected # a
    /\ connected' = a
    /\ UNCHANGED library

LibraryNext ==
    \/ \E r \in Rows, s \in Entered : Store(r, s)
    \/ \E r \in Rows : Rewrite(r)
    \/ \E a \in Accounts \cup {Nobody} : Connect(a)
=============================================================================
