---------------------------- MODULE AccountViews ----------------------------
(******************************************************************************)
(* What CodeMemoryService (core/service.py) shows of the library.  Every read *)
(* scopes the rows to an account, each in its own words; here a view is the   *)
(* set of rows that reach the caller.                                         *)
(******************************************************************************)
EXTENDS Library

CONSTANT Unset    \* a search filter that is not given

ASSUME ViewsAssumption == Unset \notin BOOLEAN /\ "unsolved" \notin Failures

-----------------------------------------------------------------------------
(* Lists of problems                                                          *)

\* list_problems: without an account, problems that have no row of a provider.
ListProblems(account) ==
    IF account # Nobody THEN OwnedBy(account)
    ELSE {r \in Stored : Of(ProblemOf(r)) \subseteq OwnedBy(Manual)}

\* Mutant: a problem with a row of the account is kept whole.
FilterWholeProblems(account) ==
    {r \in Stored : \E q \in Of(ProblemOf(r)) :
        Owner(q) = IF account = Nobody THEN Manual ELSE account}

\* MemoryService._filter_problems_by_account: without one, rows of no provider.
FilterForMemory(account) ==
    OwnedBy(IF account = Nobody THEN Manual ELSE account)

Providers == {Owner(r) : r \in Stored} \ {Manual}

\* AnalyticsService._scope_problems: without one, the only account there is; all
\* rows if there is none, and nothing if there are several.
ScopeForAnalytics(account) ==
    CASE account # Nobody -> OwnedBy(account)
      [] Cardinality(Providers) = 1 /\ account = Nobody ->
             UNION {OwnedBy(a) : a \in Providers}
      [] Cardinality(Providers) > 1 /\ account = Nobody -> {}
      [] OTHER -> Stored

\* The SQL of language statistics, heatmap, streaks and timeline.
SqlFilter(account) == OwnedBy(IF account = Nobody THEN Manual ELSE account)

\* Timeline events of rows whose problem is in the analytics scope.
TimelineRows(account) ==
    {r \in SqlFilter(account) :
        \E q \in ScopeForAnalytics(account) : ProblemOf(q) = ProblemOf(r)}

\* get_knowledge_graph: the list of the connected account, then the account asked
\* for.
GraphRows(account) ==
    {r \in ListProblems(connected) : account = Nobody \/ Owner(r) = account}

-----------------------------------------------------------------------------
(* One problem                                                                *)

\* Mutant: without an account, the whole problem.
GetWholeProblem(p, account) ==
    IF account # Nobody THEN Of(p) \cap OwnedBy(account) ELSE Of(p)

\* get_problem: without an account, rows of no provider, or the whole problem if
\* that leaves none; with one, ProblemNotFoundError if that leaves none.
GetProblem(p, account) ==
    LET local == Of(p) \cap OwnedBy(Manual)
    IN  CASE account # Nobody -> Of(p) \cap OwnedBy(account)
          [] account = Nobody /\ local # {} -> local
          [] OTHER -> Of(p)

\* find_previous_approaches: every row of the problem without an account.
PreviousApproaches(p, account) ==
    IF account = Nobody THEN Of(p) ELSE Of(p) \cap OwnedBy(account)

\* find_similar_problem: problems with rows of the account, for one that has some.
SimilarProblems(p, account) ==
    IF account = Nobody THEN {ProblemOf(r) : r \in Stored} \ {p}
    ELSE {ProblemOf(r) : r \in {q \in OwnedBy(account) :
              Of(p) \cap OwnedBy(account) # {}}} \ {p}

\* get_optimization_explanation and get_attempt_evolution_analysis: the snapshot's
\* rows of the problem.
ExplainedRows(p) == Of(p)

\* get_submission: by id, for an account or else for the connected one.
GetSubmission(r, account) ==
    LET active == IF account # Nobody THEN account ELSE connected
    IN  {r} \cap OwnedBy(IF active = Nobody THEN Manual ELSE active)

\* The newest of a set of rows, and the best solution shown for a problem.
LatestIn(R) == {r \in R : \A q \in R : library[q].day <= library[r].day}
LatestAccepted(R) == LatestIn({r \in R : Accepted(r)})

\* get_problem_history: one step per row, in the order of submission.
History(p) ==
    LET shown == GetProblem(p, connected)
    IN  [steps |-> [r \in shown |-> Cardinality({q \in shown :
                        library[q].day < library[r].day}) + 1],
         accepted |-> Cardinality({r \in shown : Accepted(r)}),
         solution |-> LatestAccepted(shown)]

-----------------------------------------------------------------------------
(* SearchService.search, which no wrapper scopes                              *)

\* Filters on the problem, then one on any of its rows each.
Matches(p, f) ==
    /\ f.solved # Unset => f.solved = (LatestAccepted(Of(p)) # {})
    /\ f.topic # Unset => f.topic \in TopicsOf[p]
    /\ f.status # Unset => \E r \in Of(p) : library[r].status = f.status
    /\ f.from # Unset /\ Of(p) # {} => \E r \in Of(p) : library[r].day >= f.from

Search(f) == {p \in Problems : Matches(p, f)}

Filters == [solved : BOOLEAN \cup {Unset}, topic : Topics \cup {Unset},
            status : Statuses \cup {Unset}, from : (1..MaxDay) \cup {Unset}]

\* search_by_query_string: phrases that are read as filters.
PhraseFilter(phrase) ==
    LET all == [solved |-> Unset, topic |-> Unset, status |-> Unset, from |-> Unset]
    IN  CASE phrase \in Statuses -> [all EXCEPT !.status = phrase]
          [] phrase = "unsolved" -> [all EXCEPT !.solved = FALSE]
          [] OTHER -> all

-----------------------------------------------------------------------------
Shows(R, problem(_)) == \A p \in Problems : problem(p) = R \cap Of(p)

\* core/service.py:184-310, analytics_service.py:74-101, memory/service.py:37-87:
\* the filters that were each written for one caller agree: while an account is
\* connected, each shows exactly the account's rows, whoever else's are stored.
ConnectedViewsAgree ==
    connected # Nobody =>
        LET own == OwnedBy(connected) IN
        /\ ListProblems(connected) = own
        /\ FilterForMemory(connected) = own
        /\ ScopeForAnalytics(connected) = own
        /\ TimelineRows(connected) = own
        /\ GraphRows(connected) = own
        /\ Shows(own, LAMBDA p : GetProblem(p, connected))
        /\ Shows(own, LAMBDA p : PreviousApproaches(p, connected))
        /\ \A r \in Rows : GetSubmission(r, Nobody) = own \cap {r}

\* The same reads without a connection, by what the rows of a problem are.  Rows of
\* a provider reach the caller of get_problem, whosever they are, exactly when the
\* problem has no others (service.py:291-292), against the docstring's
\* "LeetCode-sourced submissions are excluded" (272-273; also 161-163); and a
\* problem of both kinds is in the memory and in get_problem, but not in the list
\* (226-237), against "only problems with non-LeetCode or legacy [...] submissions
\* are returned" of those with *only* LeetCode rows excluded (191-194, 222-224).
\* Analytics shows local rows, or one account's.
DisconnectedViewsExact ==
    connected = Nobody =>
        LET local == OwnedBy(Manual)
            list(p) == ListProblems(Nobody) \cap Of(p)
            memory(p) == FilterForMemory(Nobody) \cap Of(p)
        IN  /\ \A p \in Problems :
                 /\ Of(p) \subseteq local =>
                      {list(p), memory(p), GetProblem(p, Nobody)} = {Of(p)}
                 /\ Of(p) \cap local = {} =>
                      list(p) = {} /\ memory(p) = {} /\ GetProblem(p, Nobody) = Of(p)
                 /\ ~(Of(p) \subseteq local) /\ Of(p) \cap local # {} =>
                      /\ list(p) = {}
                      /\ memory(p) = Of(p) \cap local
                      /\ GetProblem(p, Nobody) = Of(p) \cap local
                 /\ History(p).solution \subseteq local \/ Of(p) \cap local = {}
            /\ GraphRows(Nobody) = ListProblems(Nobody)
            /\ \A r \in Rows : GetSubmission(r, Nobody) = local \cap {r}
            /\ \/ ScopeForAnalytics(Nobody) \subseteq local
               \/ \E a \in Accounts :
                      Providers = {a} /\ ScopeForAnalytics(Nobody) = OwnedBy(a)
=============================================================================
