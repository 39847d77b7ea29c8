------------------------------ MODULE Collective ------------------------------
(*****************************************************************************)
(* The insight into the whole history: the evidence EvidenceBuilder gathers, *)
(* what an AI provider may cite of it (InsightService), and the findings of  *)
(* build_collective_learning_insight, which also use the analyses that       *)
(* AICodeAnalyzer has cached.  An evidence id is a tuple; text is left out.  *)
(*****************************************************************************)
EXTENDS Learning, Integers

CONSTANTS
    Cost,           \* complexity_rank of each version of a row's code
    Nested,         \* the <<row, version>> that scan_code finds nested loops in
    Techniques      \* the labels _patterns_in_record gives the code of each row

ASSUME CollectiveAssumption ==
    /\ Cost \in [Rows -> [1..MaxText -> Nat]]
    /\ Nested \subseteq Rows \X (1..MaxText)
    /\ \A r \in Rows : IsFiniteSet(Techniques[r])

VARIABLES
    analysed        \* AICodeAnalyzer._analysis_cache: versions, in order of analysis

CollectiveTypeOK ==
    /\ LearningTypeOK
    /\ analysed \in [Rows -> Seq(1..MaxText)]
    /\ \A r \in Rows : IsInjective(analysed[r])

-----------------------------------------------------------------------------
(* AICodeAnalyzer, which writes the file after every analysis                *)

\* core/service.py analyze_submission: cached by id, hash of the code and version.
AnalyzeSubmission(r) ==
    /\ r \in ListProblems(Nobody) \cup ListProblems(connected)
    /\ library[r].text \notin ToSet(analysed[r])
    /\ analysed' = [analysed EXCEPT ![r] = Append(@, library[r].text)]
    /\ UNCHANGED <<libraryVars, analyticsVars, catalogueVars>>

\* get_cached_analyses: of several versions, the one analysed first.
Analysed(R) == {r \in R : analysed[r] # <<>>}
VersionUsed(r) == IF analysed[r] = <<>> THEN library[r].text ELSE Head(analysed[r])

-----------------------------------------------------------------------------
(* Evidence                                                                  *)

OverviewIds == {<<"overview", field>> : field \in
                   {"problems", "solved", "acceptance", "attempts", "first_attempt"}}

TopicIds(topics) == {<<"topic", t>> : t \in topics}

PatternIds(account) ==
    {<<"weak", t>> : t \in WeakTopics(account)}
    \cup {<<"high_failure", t>> : t \in HighFailureTopics(account)}
    \cup {<<"unpracticed", t>> : t \in UnpracticedTopics(account, DueAfter)}
    \cup {<<"improvement">> : E \in ImprovedAcceptance(account)}

PractisedTopics(account) ==
    {t \in Topics : TopicStatistics(account)[t].problems > 0}

\* Mutant: only topics that count as weak get evidence.
EvidenceOfWeak(account, listed) == OverviewIds \cup PatternIds(account)

\* build_full_profile_evidence: statistics, patterns, and the cached analyses of
\* the problems that are listed as struggles.
Evidence(account, listed) ==
    OverviewIds \cup TopicIds(PractisedTopics(account)) \cup PatternIds(account)
    \cup {<<"difficulty", d>> : d \in
             {e \in Difficulties : DifficultyStatistics(account)[e].problems > 0}}
    \cup {<<"analysis", r>> :
             r \in Analysed({q \in Stored : ProblemOf(q) \in DOMAIN listed})}

\* build_problem_evidence: all rows of the problem, whoever asks.
ProblemEvidence(p) ==
    {<<"problem", p, "attempts">>, <<"problem", p, "status">>}
    \cup {<<"analysis", r>> : r \in Analysed(Of(p))}

\* InsightService._interpret_and_assemble: refs are dropped with the whole answer
\* of the provider if one of them is not evidence.
Cited(refs, evidence) == IF refs \subseteq evidence THEN refs ELSE {}

\* _compute_limitations: topics of fewer than three problems.
ThinTopics(account) ==
    {t \in PractisedTopics(account) : TopicStatistics(account)[t].problems < 3}

-----------------------------------------------------------------------------
(* Findings: what is claimed, and the evidence each claim adds or cites      *)

Item(claim, about, refs) == [claim |-> claim, about |-> about, refs |-> refs]
Given(condition, item) == IF condition THEN {item} ELSE {}

Strengths(account) ==
    LET overview == Overview(account)
        stat(t) == TopicStatistics(account)[t]
        solved(d) == DifficultyStatistics(account)[d].solved
        accepted == AcceptedIn(ScopeForAnalytics(account))
        solvedBy(l) == ProblemsIn({r \in accepted : l \in Techniques[r]})
    IN  {Item("strength", <<t>>, {<<"strength", t>>}) : t \in {u \in Topics :
            stat(u).solved >= 2 /\ 10 * stat(u).solved >= 6 * stat(u).problems}}
        \cup {Item("strength", <<"technique", l>>, {<<"strength", "technique", l>>}) :
            l \in {k \in UNION {Techniques[r] : r \in accepted} :
                       Cardinality(solvedBy(k)) >= 2}}
        \cup Given(solved("Medium") >= 2 \/ solved("Hard") >= 1,
                   Item("strength", <<"difficulty">>, {<<"strength", "difficulty">>}))
        \cup Given(overview.solved >= 3 /\ 10 * overview.atOnce >= 6 * overview.solved,
                   Item("strength", <<"first attempt">>, {<<"overview", "first_attempt">>}))

\* Mutant: the smallest number of problems is not asked for.
WeakAnyway(account) ==
    {t \in Topics : 2 * TopicStatistics(account)[t].solved
                        <= TopicStatistics(account)[t].problems}

\* The topics of _detect_weaknesses: mostly unsolved, or mostly rejected.
WeakSpots(account) ==
    {t \in Topics : LET s == TopicStatistics(account)[t] IN
        /\ s.problems >= 2
        /\ \/ 2 * s.solved < s.problems
           \/ s.submissions >= 3 /\ 2 * s.accepted < s.submissions}

\* Rows of a problem in the order the records are in.
Earlier(q, r) ==
    \/ library[q].day < library[r].day
    \/ library[q].day = library[r].day
       /\ (q[2] < r[2] \/ (q[2] = r[2] /\ q[3] < r[3]))
Opening(R) == CHOOSE r \in R : \A q \in R \ {r} : Earlier(r, q)
Closing(R) == CHOOSE r \in R : \A q \in R \ {r} : Earlier(q, r)

\* _optimization_recognition_weakness, from the code as it is.
Recognised(account) ==
    LET rows(p) == ScopeForAnalytics(account) \cap Of(p)
        nested(r) == <<r, library[r].text>> \in Nested
    IN  {p \in Problems : Cardinality(rows(p)) >= 2 /\ nested(Opening(rows(p)))
            /\ \E r \in AcceptedIn(rows(p)) \ {Opening(rows(p))} : ~nested(r)}

Weaknesses(account) ==
    LET overview == Overview(account)
        scope == ScopeForAnalytics(account)
        tries == {AttemptOf(r) : r \in {q \in scope : ProblemOf(q) \in SolvedIn(scope)}}
    IN  {Item("weakness", <<t>>, {<<"weakness", t>>, <<"topic", t>>}) :
            t \in WeakSpots(account)}
        \cup {Item("weakness", <<s>>, {<<"repeated", s>>}) :
            s \in {u \in {"TLE", "WA"} : Repeated(account, u) # {}}}
        \cup Given(Recognised(account) # {},
                   Item("weakness", <<"recognition">>, {<<"recognition">>}))
        \cup Given(overview.solved >= 3 /\ Cardinality(tries) >= 3 * overview.solved,
                   Item("weakness", <<"attempts">>, {<<"overview", "attempts">>}))

\* _detect_unpracticed, of which the first three are shown
Unpractised(account) ==
    {Item("unpracticed", <<t>>, {<<"unpracticed_topics">>}) :
        t \in Topics \ PractisedTopics(account)}

\* Labels that the tokens of _MISTAKE_RULES find in the provider's analysis of a
\* failed submission, and the one its status counts for besides.
MistakesInText(status) ==
    CASE status = "TLE" -> {"complexity"}
      [] status = "WA" -> {"boundary", "duplicate", "empty"}
      [] status = "MLE" -> {"recursion"}
      [] OTHER -> {}
MistakesOfStatus(status) ==
    CASE status = "TLE" -> {"complexity"} [] status = "WA" -> {"edge"} [] OTHER -> {}
MistakeLabels == UNION {MistakesInText(s) \cup MistakesOfStatus(s) : s \in Failures}

MistakeRows(account, label) ==
    LET failed == ScopeForAnalytics(account) \ AcceptedIn(Stored)
    IN  [text |-> {r \in Analysed(failed) : label \in MistakesInText(library[r].status)},
         status |-> {r \in failed : label \in MistakesOfStatus(library[r].status)}]

\* _detect_recurring_mistakes: what is counted twice recurs.
Mistakes(account) ==
    {Item("mistake", <<m>>, {<<"mistake", m>>}) : m \in {l \in MistakeLabels :
        LET rows == MistakeRows(account, l)
        IN  Cardinality(rows.text) + Cardinality(rows.status) >= 2}}

\* _detect_optimization_trends: the last submission of a problem beside the first.
Change(account) ==
    LET rows(p) == ScopeForAnalytics(account) \cap Of(p)
        cost(r) == Cost[r][VersionUsed(r)]
        again == {p \in Problems : Cardinality(rows(p)) >= 2}
    IN  [p \in again |-> cost(Closing(rows(p))) - cost(Opening(rows(p)))]

Trends(account) ==
    LET change == Change(account)
        toward(trend) == CASE trend = "improved" -> \E p \in DOMAIN change : change[p] < 0
                           [] trend = "regressed" -> \E p \in DOMAIN change : change[p] > 0
                           [] OTHER -> \E p \in DOMAIN change : change[p] = 0
                                  /\ \A q \in DOMAIN change : change[q] >= 0
    IN  {Item("trend", <<trend>>, {<<"trend", trend>>}) :
            trend \in {t \in {"improved", "regressed", "flat"} : toward(t)}}

\* _detect_progress: the earlier half of the rows beside the recent one.
Progress(account) ==
    LET R == ScopeForAnalytics(account)
        item(metric) == Item("progress", <<metric>>, {<<"progress", metric>>})
    IN  IF Cardinality(R) < HalfSample THEN {}
        ELSE {item("acceptance")}
             \cup Given(\E E \in Halves(R) : AcceptedIn(E) # {} /\ AcceptedIn(R \ E) # {},
                        item("complexity"))
             \cup Given(AcceptedIn(R) # {}, item("difficulty"))

Findings(account) ==
    Strengths(account) \cup Weaknesses(account) \cup Unpractised(account)
    \cup Mistakes(account) \cup Trends(account) \cup Progress(account)

\* _EvidenceWriter.add: claims of these kinds add the evidence they cite; others
\* cite what is there.
AddedIds(findings) ==
    (UNION {item.refs : item \in findings}) \ (OverviewIds \cup TopicIds(Topics))

\* _EvidenceWriter.refs: what an item ends up citing.
RefsOf(item, ids) == item.refs \cap ids

\* _rank_focus_areas: all struggles, mistakes up to four, new topics up to five.
FocusSizes(account) ==
    LET struggles == Cardinality(Weaknesses(account))
        most(a, b) == IF a > b THEN a ELSE b
        withMistakes == most(struggles, AtMost(struggles + Cardinality(Mistakes(account)), 4))
    IN  <<struggles, withMistakes, most(withMistakes,
            AtMost(withMistakes + AtMost(3, Cardinality(Unpractised(account))), 5))>>

-----------------------------------------------------------------------------
(* Steps                                                                     *)

CollectiveInit ==
    /\ LearningInit
    /\ analysed = [r \in Rows |-> <<>>]

ReplaceCode(r) ==
    /\ Rewrite(r)
    /\ UNCHANGED <<analyticsVars, catalogueVars>>

CollectiveNext ==
    \/ \E r \in Rows : AnalyzeSubmission(r)
    \/ /\ \/ \E r \in Rows, s \in Entered : Solve(r, s)
          \/ \E r \in Rows : ReplaceCode(r)
          \/ NextDay
          \/ ChangeAccount
       /\ UNCHANGED analysed

CollectiveSpec ==
    CollectiveInit /\ [][CollectiveNext]_<<libraryVars, analyticsVars, catalogueVars, analysed>>

-----------------------------------------------------------------------------
(* Properties                                                                *)

\* learning/collective.py:108-135, ai/evidence_builder.py:271-330: every finding of
\* the insight still cites evidence when the writer has dropped the references to
\* what is not there; none is left without.
EveryClaimGrounded ==
    LET findings == Findings(connected)
    IN  \A listed \in StruggleProblems(connected, StruggleLimit) :
            LET ids == Evidence(connected, listed) \cup AddedIds(findings)
            IN  \A item \in findings :
                    RefsOf(item, ids) = item.refs /\ item.refs # {}

\* learning/roadmap.py:90-94, learning/collective.py:422: what was never practised
\* is nowhere counted as a struggle, neither in the insight nor in the profile the
\* roadmap is planned from, which call the same topics unpractised.
GapsAreNotStruggles ==
    LET profile == Profile(connected)
        untried == Topics \ PractisedTopics(connected)
    IN  /\ WeakSpots(connected) \cap untried = {}
        /\ profile.weakTopics \cap untried = {}
        /\ PatternsFor(profile.weakTopics) \cap profile.gaps = {}
        /\ \A p \in profile.gaps : {t \in Topics : p \in PatternsOf[t]} \subseteq untried
=============================================================================
