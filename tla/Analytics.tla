------------------------------ MODULE Analytics ------------------------------
(*********************************************************************************)
(* What is computed of the library: AnalyticsService, PatternAnalyzer and        *)
(* InsightsGenerator (analytics/), and the revision queue (revision/).  Some of  *)
(* the statistics walk the scoped problems, others query DuckDB, and each counts *)
(* for itself.                                                                   *)
(*********************************************************************************)
EXTENDS AccountViews, FiniteSetsExt

CONSTANTS
    DifficultyOf,   \* "Easy", "Medium", "Hard" or "Unknown", of each problem
    Window,         \* days of the heatmap and of recent activity (code: 90, 30)
    DueAfter,       \* get_due_problems: days without activity (code: 7)
    QueueLimit,     \* get_due_problems: length of the queue it filters (code: 100)
    DueLimit,       \* limit of get_due_problems (default: 10)
    StruggleLimit,  \* limit of get_struggle_problems (callers: 5, 10, 20)
    TimelineLimit,  \* limit of get_timeline_events (default: 14)
    HalfSample      \* submissions an improvement takes (code: 6)

Difficulties == {"Easy", "Medium", "Hard", "Unknown"}

ASSUME AnalyticsAssumption ==
    /\ DifficultyOf \in [Problems -> Difficulties]
    /\ {Window, DueAfter, HalfSample} \subseteq Nat
    /\ {QueueLimit, DueLimit, StruggleLimit, TimelineLimit} \subseteq Nat

VARIABLES
    today,          \* the current date
    kept            \* when a problem, or its last attempt, was stored or reviewed:
                    \* the latest updated_at or note

analyticsVars == <<today, kept>>

AnalyticsTypeOK ==
    /\ LibraryTypeOK
    /\ today \in 1..MaxDay
    /\ kept \in [Problems -> 0..MaxDay]

AnalyticsInit ==
    /\ LibraryInit
    /\ today = 1
    /\ kept = [p \in Problems |-> 0]

AtMost(n, bound) == IF n < bound THEN n ELSE bound

\* sort() and [:n]: the n of S that come first, those level with each other in any
\* order.
Firsts(S, n, Before(_, _)) ==
    {T \in kSubset(AtMost(Cardinality(S), n), S) :
        \A x \in T, y \in S \ T : ~Before(y, x)}

\* Tuples are compared by their first difference.
Exceeds(s, t) ==
    \E i \in DOMAIN s : s[i] > t[i] /\ \A j \in 1..(i - 1) : s[j] = t[j]

-----------------------------------------------------------------------------
(* Counts over a set of rows: the scoped problems' submissions                   *)

ProblemsIn(R) == {ProblemOf(r) : r \in R}
AttemptsIn(R) == {AttemptOf(r) : r \in R}
AcceptedIn(R) == {r \in R : Accepted(r)}
SolvedIn(R) == ProblemsIn(AcceptedIn(R))

FirstAttempt(R, p) ==
    LET numbers == {r[2] : r \in R \cap Of(p)}
    IN  {r \in R \cap Of(p) : r[2] = Min(numbers)}

\* _scope_problems: without an account, and if no row is of a provider, problems
\* without a row too.
ScopedProblems(account) ==
    ProblemsIn(ScopeForAnalytics(account))
      \cup {p \in Problems : account = Nobody /\ Providers = {} /\ kept[p] > 0}

\* get_overview
Overview(account) ==
    LET R == ScopeForAnalytics(account)
    IN  [problems |-> Cardinality(ScopedProblems(account)),
         attempts |-> Cardinality(AttemptsIn(R)),
         submissions |-> Cardinality(R),
         accepted |-> Cardinality(AcceptedIn(R)),
         solved |-> Cardinality(SolvedIn(R)),
         unsolved |-> Cardinality(ScopedProblems(account)) - Cardinality(SolvedIn(R)),
         atOnce |-> Cardinality({p \in SolvedIn(R) :
                        AcceptedIn(FirstAttempt(R, p)) # {}}),
         repeated |-> Cardinality({p \in ProblemsIn(R) :
                          Cardinality(R \cap Of(p)) > 1})]

\* What is summed up for a topic, a difficulty, a language or a day.
Tally(R) == [problems |-> Cardinality(ProblemsIn(R)),
             solved |-> Cardinality(SolvedIn(R)),
             submissions |-> Cardinality(R),
             accepted |-> Cardinality(AcceptedIn(R))]

\* get_topic_statistics and get_knowledge_clusters
TopicStatistics(account) ==
    [t \in Topics |->
        [Tally({r \in ScopeForAnalytics(account) : t \in TopicsOf[ProblemOf(r)]})
            EXCEPT !.problems =
                Cardinality({p \in ScopedProblems(account) : t \in TopicsOf[p]})]]

\* get_difficulty_statistics
DifficultyStatistics(account) ==
    [d \in Difficulties |->
        [Tally({r \in ScopeForAnalytics(account) : DifficultyOf[ProblemOf(r)] = d})
            EXCEPT !.problems =
                Cardinality({p \in ScopedProblems(account) : DifficultyOf[p] = d})]]

\* get_attempt_statistics
AttemptStatistics(account) ==
    LET R == ScopeForAnalytics(account)
        tries(p) == Cardinality(AttemptsIn(R \cap Of(p)))
    IN  [single |-> Cardinality({p \in SolvedIn(R) : tries(p) = 1}),
         multiple |-> Cardinality({p \in SolvedIn(R) : tries(p) > 1}),
         optimized |-> Cardinality({p \in SolvedIn(R) : tries(p) > 1 /\
             \E r \in FirstAttempt(R, p) : library[r].status = "TLE"})]

\* Mutant: of a problem's accepted rows, a day counts one.
ProgressOfTries(account) ==
    [d \in 1..MaxDay |->
        LET R == {r \in ScopeForAnalytics(account) : library[r].day = d}
        IN  [Tally(R) EXCEPT !.accepted = Cardinality(SolvedIn(R))]]

\* get_progress_over_time, by day
ProgressOverTime(account) ==
    [d \in 1..MaxDay |->
        Tally({r \in ScopeForAnalytics(account) : library[r].day = d})]

\* StruggleProblem: the rows of an attempt have one status, so an attempt failed if
\* one of them did.
Struggle(account, p) ==
    LET R == ScopeForAnalytics(account) \cap Of(p)
        failed == R \ AcceptedIn(R)
    IN  [status |-> IF AcceptedIn(R) = {} THEN "Unsolved" ELSE "Solved",
         attempts |-> Cardinality(AttemptsIn(R)),
         failedAttempts |-> Cardinality(AttemptsIn(failed)),
         failed |-> Cardinality(failed)]

Struggles(account) ==
    {p \in ScopedProblems(account) : LET s == Struggle(account, p) IN
        s.failed > 0 \/ s.attempts > 1 \/ s.status = "Unsolved"}

\* The sort key: the unsolved first.
Urgency(s) ==
    <<IF s.status = "Unsolved" THEN 1 ELSE 0, s.failedAttempts, s.failed, s.attempts>>

\* get_struggle_problems
StruggleProblems(account, limit) ==
    {[p \in T |-> Struggle(account, p)] : T \in Firsts(Struggles(account), limit,
        LAMBDA p, q : Exceeds(Urgency(Struggle(account, p)),
                              Urgency(Struggle(account, q))))}

\* get_language_statistics: what its rows sum up to.
LanguageTotals(account) == Tally(SqlFilter(account))

\* get_activity_heatmap: `solved` counts the problems of the day's rows.
ActivityHeatmap(account) ==
    [d \in {e \in 1..MaxDay : e + Window >= today} |->
        LET R == {r \in SqlFilter(account) : library[r].day = d}
        IN  [Tally(R) EXCEPT !.solved = Cardinality(ProblemsIn(R))]]

\* First row, first accepted row and creation of a problem.
Events(account) ==
    LET R == TimelineRows(account)
    IN  {<<"attempted", p>> : p \in ProblemsIn(R)}
          \cup {<<"solved", p>> : p \in SolvedIn(R)}
          \cup {<<"imported", p>> : p \in ScopedProblems(account)}

\* occurred_at.  A problem was created on some day up to the last on which it was
\* stored or reviewed.
OccurredOn(account, e) ==
    LET R == TimelineRows(account) \cap Of(e[2])
    IN  CASE e[1] = "attempted" -> {Min({library[r].day : r \in R})}
          [] e[1] = "solved" -> {Min({library[r].day : r \in AcceptedIn(R)})}
          [] e[1] = "imported" -> 1..kept[e[2]]

\* get_timeline_events: the newest
TimelineEvents(account, limit) ==
    Firsts(Events(account), limit,
        LAMBDA e, f : \A d \in OccurredOn(account, e), c \in OccurredOn(account, f) :
                          d > c)

-----------------------------------------------------------------------------
(* get_streaks                                                                   *)

ActiveDays(account) == {library[r].day : r \in SqlFilter(account)}

\* Mutant: a run goes on over a day without activity.
RunsWithGaps(days) ==
    LET run[d \in 1..MaxDay] ==
            IF d + 1 \in days THEN run[d + 1] + 1
            ELSE IF d + 2 \in days THEN run[d + 2] + 1 ELSE 1
    IN  run

\* One pass from the newest day to the oldest: the run each day continues.
Runs(days) ==
    LET run[d \in 1..MaxDay] == IF d + 1 \in days THEN run[d + 1] + 1 ELSE 1
    IN  run

LongestStreak(days) ==
    IF days = {} THEN 0 ELSE Max({Runs(days)[d] : d \in days})

\* Days back from the newest one, until one is missing.
CurrentStreak(days) ==
    LET back[i \in 0..MaxDay] ==
            IF i < Max(days) /\ Max(days) - i \in days THEN back[i + 1] ELSE i
    IN  IF days = {} THEN 0 ELSE back[0]

ActiveLately(days) == Cardinality({d \in days : d + Window > today})

-----------------------------------------------------------------------------
(* PatternAnalyzer.analyze and InsightsGenerator.generate_insights               *)

WeakTopics(account) ==
    {t \in Topics : LET s == TopicStatistics(account)[t] IN
        s.problems >= 2 /\ 2 * s.solved < s.problems}

HighFailureTopics(account) ==
    {t \in Topics : LET s == TopicStatistics(account)[t] IN
        s.submissions >= 3 /\ 5 * s.accepted < 2 * s.submissions}

Repeated(account, status) ==
    {p \in Problems : Cardinality({r \in ScopeForAnalytics(account) \cap Of(p) :
                          library[r].status = status}) >= 2}

BruteForceFirst(account) ==
    LET R == ScopeForAnalytics(account)
    IN  {p \in SolvedIn(R) : AcceptedIn(FirstAttempt(R, p)) = {}}

UnpracticedTopics(account, threshold) ==
    {t \in Topics :
        LET days == {library[r].day : r \in {q \in ScopeForAnalytics(account) :
                         t \in TopicsOf[ProblemOf(q)]}}
        IN  days # {} /\ today - Max(days) >= threshold}

\* _detect_improvements: the halves of a list sorted by date; rows of one day are
\* in any order.
Halves(R) ==
    {E \in kSubset(Cardinality(R) \div 2, R) :
        \A e \in E, r \in R \ E : library[e].day <= library[r].day}

ImprovedAcceptance(account) ==
    LET R == ScopeForAnalytics(account)
    IN  {E \in Halves(R) : Cardinality(R) >= HalfSample /\
            Cardinality(AcceptedIn(R \ E)) * Cardinality(E)
              > Cardinality(AcceptedIn(E)) * Cardinality(R \ E)}

\* generate_insights asks for no account, whoever is connected.
Insights ==
    [empty |-> Overview(Nobody).problems = 0,
     weakest |-> {t \in Topics : TopicStatistics(Nobody)[t].problems > 0},
     unpracticed |-> UnpracticedTopics(Nobody, DueAfter)]

-----------------------------------------------------------------------------
(* RevisionService                                                               *)

\* _weak_topics: of no account in particular.
RevisionWeakTopics ==
    {t \in Topics : LET s == TopicStatistics(Nobody)[t] IN
        s.problems > 0 /\ 2 * s.solved < s.problems}

LastActivity(p) == Max({kept[p]} \cup {library[r].day : r \in Of(p)})
DaysSince(p) == IF today < LastActivity(p) THEN 0 ELSE today - LastActivity(p)

DifficultyScore(p) == CASE DifficultyOf[p] = "Easy" -> 2
                        [] DifficultyOf[p] = "Medium" -> 4
                        [] DifficultyOf[p] = "Hard" -> 6
                        [] OTHER -> 1

\* Mutant: a recently solved problem is preferred.
ScoreWithBonus(p) ==
    14 * DifficultyScore(p)
      + 42 * AtMost(Cardinality(Of(p) \ AcceptedIn(Of(p))), 5)
      + 5 * AtMost(DaysSince(p), 70)
      + (IF SolvedIn(Of(p)) # {} /\ DaysSince(p) <= 3
           THEN 21 * (4 - DaysSince(p)) ELSE 0)

\* _score_problem, with the default weights, times 14: difficulty, failures of
\* whatever account, days since the last activity, a weak topic, and a penalty for
\* what is solved and was active in the last three days.
Score(p) ==
    (14 * DifficultyScore(p)
      + 42 * AtMost(Cardinality(Of(p) \ AcceptedIn(Of(p))), 5)
      + 5 * AtMost(DaysSince(p), 70)
      + (IF TopicsOf[p] \cap RevisionWeakTopics # {} THEN 56 ELSE 0))
      - (IF SolvedIn(Of(p)) # {} /\ DaysSince(p) <= 3
           THEN 21 * (4 - DaysSince(p)) ELSE 0)

\* get_revision_queue: problems with a row of the account, or all; the first
\* `limit` by score, those of equal score in any order.
RevisionProblems(account) ==
    IF account = Nobody THEN {p \in Problems : kept[p] > 0}
                        ELSE ProblemsIn(OwnedBy(account))

RevisionQueues(account, limit) ==
    Firsts(RevisionProblems(account), limit, LAMBDA p, q : Score(p) > Score(q))

\* Mutant: the queue is cut before those due are picked.
DueOfShortQueue(limit) ==
    {{p \in Q : DaysSince(p) >= DueAfter} : Q \in RevisionQueues(Nobody, limit)}

\* get_due_problems: those due in a queue of QueueLimit, of which `limit` are kept.
DueProblems(limit) ==
    UNION {Firsts({p \in Q : DaysSince(p) >= DueAfter}, limit,
                  LAMBDA p, q : Score(p) > Score(q)) :
               Q \in RevisionQueues(Nobody, QueueLimit)}

\* mark_reviewed: updated_at, and a note of the same time.
MarkReviewed(p) ==
    /\ kept[p] > 0
    /\ kept' = [kept EXCEPT ![p] = today]
    /\ UNCHANGED <<libraryVars, today>>

\* A row is stored: its problem or its attempt may be new, and is dated today
\* whatever the date of the row.
Practise(r, s) ==
    /\ s.day <= today
    /\ Store(r, s)
    /\ kept' = [kept EXCEPT ![ProblemOf(r)] =
           IF AttemptOf(r) \in AttemptsIn(Stored) THEN @ ELSE today]
    /\ UNCHANGED today

AddProblem(p) ==
    /\ kept[p] = 0
    /\ kept' = [kept EXCEPT ![p] = today]
    /\ UNCHANGED <<libraryVars, today>>

Midnight ==
    /\ today < MaxDay
    /\ today' = today + 1
    /\ UNCHANGED <<libraryVars, kept>>

SwitchAccount ==
    /\ \E a \in Accounts \cup {Nobody} : Connect(a)
    /\ UNCHANGED analyticsVars

AnalyticsNext ==
    \/ \E r \in Rows, s \in Entered : Practise(r, s)
    \/ \E p \in Problems : AddProblem(p) \/ MarkReviewed(p)
    \/ Midnight
    \/ SwitchAccount

AnalyticsSpec == AnalyticsInit /\ [][AnalyticsNext]_<<libraryVars, analyticsVars>>

-----------------------------------------------------------------------------
(* Properties                                                                    *)

Total(f, field(_)) == MapThenSumSet(LAMBDA x : field(f[x]), DOMAIN f)

\* analytics_service.py: for an account, what is counted over its problems and
\* what DuckDB counts agree: by difficulty, by day and by language; a problem is
\* tried and solved as often as the overview says.
TotalsAgree(a) ==
    LET o == Overview(a)
    IN  /\ Total(DifficultyStatistics(a), LAMBDA s : s.solved) = o.solved
        /\ Total(DifficultyStatistics(a), LAMBDA s : s.submissions) = o.submissions
        /\ Total(ProgressOverTime(a), LAMBDA s : s.accepted) = o.accepted
        /\ LanguageTotals(a).accepted = o.accepted
        /\ Total(ActivityHeatmap(a), LAMBDA s : s.submissions) <= o.submissions
        /\ AttemptStatistics(a).single + AttemptStatistics(a).multiple = o.solved
        /\ o.atOnce + Cardinality(BruteForceFirst(a)) = o.solved

\* analytics_service.py:482-484, 704-706: and so do the lists, as far as their cut
\* lets them.  A list of struggles shows every unsolved problem before it shows a
\* solved one, and misses a problem whose first attempt failed only if it is full;
\* the timeline has two events for a problem and one more if it is solved.
ListsAgree(a) ==
    LET o == Overview(a)
    IN  /\ \A listed \in StruggleProblems(a, StruggleLimit) :
             /\ Cardinality({p \in DOMAIN listed : listed[p].status = "Unsolved"})
                  = AtMost(o.unsolved, StruggleLimit)
             /\ \/ BruteForceFirst(a) \subseteq DOMAIN listed
                \/ Cardinality(DOMAIN listed) = StruggleLimit
        /\ \A events \in TimelineEvents(a, TimelineLimit) :
             /\ Cardinality(events)
                  = AtMost(2 * o.problems + o.solved, TimelineLimit)
             /\ Cardinality(events) < TimelineLimit =>
                  /\ Cardinality({e \in events : e[1] = "solved"}) = o.solved
                  /\ Cardinality({e \in events : e[1] = "attempted"}) = o.problems

AnalyticsAgree == \A a \in Accounts \cap {connected} : TotalsAgree(a) /\ ListsAgree(a)

\* analytics_service.py:573-592: the two passes over the active days find the
\* longest run of consecutive days and the one that ends at the newest.  That is
\* the run "computed backwards from 'today'" of the docstring (line 531) when
\* today is active; when it is not, a run that is over still counts as current.
StreaksCorrect ==
    LET days == ActiveDays(connected)
        runs == {run \in days \X days : run[1] <= run[2]
                                         /\ run[1]..run[2] \subseteq days}
        current(last) == \E run \in runs :
            /\ run[2] = last /\ run[1] - 1 \notin days
            /\ run[2] - run[1] + 1 = CurrentStreak(days)
    IN  /\ \A run \in runs : run[2] - run[1] + 1 <= LongestStreak(days)
        /\ days # {} => \E run \in runs :
               run[2] - run[1] + 1 = LongestStreak(days)
        /\ days # {} => current(Max(days))
        /\ today \in days => current(today)

\* revision_service.py:36-106: a review never raises a problem's priority, and a
\* day that passes never lowers one.
RevisionMonotone ==
    [][\A p \in Problems :
          /\ MarkReviewed(p) => Score(p)' <= Score(p)
          /\ Midnight /\ kept[p] > 0 => Score(p)' >= Score(p)]_analyticsVars

\* revision_service.py:207-211: what is listed as due had no row, import or review
\* in the last days, and what is due and not listed comes after a full list, or
\* after as many problems as the queue holds, of at least its priority.
DueInOrder ==
    LET due == {p \in Problems : kept[p] > 0 /\ kept[p] + DueAfter <= today
                   /\ \A r \in Of(p) : library[r].day + DueAfter <= today}
        ahead(p) == {q \in RevisionProblems(Nobody) \ {p} : Score(q) >= Score(p)}
    IN  \A listed \in DueProblems(DueLimit) :
            /\ listed \subseteq due /\ Cardinality(listed) <= DueLimit
            /\ \A p \in due \ listed :
                   \/ Cardinality(listed) = DueLimit /\ listed \subseteq ahead(p)
                   \/ Cardinality(ahead(p)) >= QueueLimit

\* search_service.py:49-55, analytics_service.py:465: if the library has one owner
\* only, the unsolved problems listed as struggles are among those that a search
\* for unsolved problems finds, which are they, those the cut leaves out, and those
\* without any row.
UnsolvedAgree ==
    \A a \in Accounts \cap {connected} : Stored = OwnedBy(a) =>
        \A listed \in StruggleProblems(a, StruggleLimit) :
            LET found == Search(PhraseFilter("unsolved"))
                rowless == {p \in Problems : Of(p) = {}}
                unsolved == {p \in DOMAIN listed : listed[p].status = "Unsolved"}
            IN  /\ unsolved \subseteq found \ rowless /\ rowless \subseteq found
                /\ Cardinality(unsolved)
                     = AtMost(Cardinality(found \ rowless), StruggleLimit)
=============================================================================
