------------------------------- MODULE Learning -------------------------------
(********************************************************************************)
(* The learning engine (learning/): the profile of the connected account, the   *)
(* catalogue of candidates, next-problem recommendations and the roadmap.  All  *)
(* of it is recomputed on every request, except what the LeetCode source has    *)
(* memoised or saved.  Lists of patterns are sets here; where the code cuts one *)
(* off, the numbering of the patterns stands for its order.                     *)
(********************************************************************************)
EXTENDS Analytics, SequencesExt

CONSTANTS
    Patterns,        \* conceptual patterns, numbered
    PatternsOf,      \* those of each topic (TOPIC_TO_PATTERNS)
    Adjacent,        \* the authored pairs of PATTERN_ADJACENT
    Foundational,    \* FOUNDATIONAL_PATTERNS
    Families,        \* CONCEPT_GROUPS and PATTERN_DATA_STRUCTURES: sets of patterns
    Structures,
    TitleOf,         \* canonical title of each local problem, numbered alphabetically
    Published,       \* candidates LeetCode lists
    RecentDays,      \* days a problem counts as recent (code: 14)
    MinProblems, MaxProblems, MaxPhases,    \* RoadmapOptions (code: 3, 5, 5)
    Limit,           \* RecommendationOptions.limit
    NoList           \* no list of candidates is memoised, or saved

Candidate == [key : Problems \cup {c.key : c \in Published}, title : Nat,
              topics : SUBSET Topics, difficulty : Difficulties, local : BOOLEAN]

ASSUME LearningAssumption ==
    /\ IsFiniteSet(Topics) /\ IsFiniteSet(Patterns) /\ IsFiniteSet(Published)
    /\ Patterns \subseteq Nat /\ Foundational \subseteq Patterns
    /\ Adjacent \subseteq Patterns \X Patterns
    /\ PatternsOf \in [Topics -> SUBSET Patterns]
    /\ Families \subseteq SUBSET Patterns /\ Structures \subseteq SUBSET Patterns
    /\ TitleOf \in [Problems -> Nat] /\ IsInjective(TitleOf)
    /\ Published \subseteq {c \in Candidate : ~c.local}
    /\ \A c, d \in Published : c.key = d.key \/ c.title = d.title => c = d
    /\ {RecentDays, MinProblems, MaxProblems, MaxPhases, Limit} \subseteq Nat
    /\ Limit > 0
    /\ \A list \in SUBSET Published : NoList # list

VARIABLES
    memo,       \* LeetCodeProblemSource._memo of the process
    saved       \* problem_catalog_cache.json, while it is younger than its TTL

catalogueVars == <<memo, saved>>

LearningTypeOK ==
    /\ AnalyticsTypeOK
    /\ memo \in {NoList} \cup SUBSET Published
    /\ saved \in {NoList} \cup SUBSET Published

-----------------------------------------------------------------------------
(* Taxonomy                                                                     *)

PatternsFor(topics) == UNION {PatternsOf[t] : t \in topics}
AdjacentOf(p) == {q \in Patterns \ {p} : <<p, q>> \in Adjacent \/ <<q, p>> \in Adjacent}
Touched(groups, ps) == {g \in groups : g \cap ps # {}}
FirstOf(n, ps) == {p \in ps : Cardinality({q \in ps : q < p}) < n}

Band == [d \in Difficulties |-> CASE d = "Easy" -> 0 [] d = "Medium" -> 1
                                  [] d = "Hard" -> 2 [] OTHER -> -1]

-----------------------------------------------------------------------------
(* LearningProfile, of the rows analytics scopes to the account                 *)

\* _FAILURE_STATUSES leaves "Unknown" out.
Failed(R) == {r \in R : library[r].status \notin {"Accepted", "Unknown"}}

OnTopic(R, t) == {r \in R : t \in TopicsOf[ProblemOf(r)]}

\* TopicObservation: enough problems for a rate to mean something, and the rate.
Sampled(R, t) == Cardinality(ProblemsIn(OnTopic(R, t))) >= 2
Fluent(R, t) ==
    10 * Cardinality(AcceptedIn(OnTopic(R, t))) >= 6 * Cardinality(OnTopic(R, t))

\* _populate_strengths_and_gaps
StrongTopics(R) ==
    {t \in Topics : Sampled(R, t) /\ Fluent(R, t) /\ SolvedIn(OnTopic(R, t)) # {}}
Unpracticed(R) == Foundational \ PatternsFor({t \in Topics : OnTopic(R, t) # {}})

\* _populate_improvement_areas: topics of a problem that twice failed in one way,
\* topics of a low rate, and topics of a problem that took several attempts.
StruggleTopics(R) ==
    LET twice(p, status) ==
            Cardinality({r \in R \cap Of(p) : library[r].status = status}) >= 2
        refined(p) == /\ p \in SolvedIn(R) /\ Failed(R \cap Of(p)) # {}
                      /\ Cardinality(AttemptsIn(R \cap Of(p))) >= 2
    IN  {t \in Topics :
            \/ \E p \in ProblemsIn(OnTopic(R, t)) :
                   twice(p, "TLE") \/ twice(p, "WA") \/ refined(p)
            \/ Sampled(R, t) /\ Failed(OnTopic(R, t)) # {} /\ ~Fluent(R, t)}

\* _populate_difficulty_ceiling
Ceiling(R) ==
    IF SolvedIn(R) = {} THEN Band["Easy"]
    ELSE Max({Band[DifficultyOf[p]] : p \in SolvedIn(R)})

\* profile_from_problems
Profile(account) ==
    LET R == ScopeForAnalytics(account)
        last == LatestAccepted(R)
    IN  [problems |-> ProblemsIn(R),
         solved |-> SolvedIn(R),
         atOnce |-> {p \in SolvedIn(R) : Cardinality(AttemptsIn(R \cap Of(p))) = 1
                         /\ AcceptedIn(FirstAttempt(R, p)) # {}},
         recent |-> {p \in ProblemsIn(R) : \E r \in R \cap Of(p) :
                         library[r].day + RecentDays >= today},
         seed |-> IF last = {} THEN Unset ELSE ProblemOf(CHOOSE r \in last : TRUE),
         topics |-> [t \in Topics |-> Tally(OnTopic(R, t))],
         practised |-> PatternsFor({t \in Topics : OnTopic(R, t) # {}}),
         strengths |-> PatternsFor(StrongTopics(R)),
         weakTopics |-> StruggleTopics(R),
         gaps |-> Unpracticed(R),
         ceiling |-> Ceiling(R)]

SeedTopics(profile) == IF profile.seed = Unset THEN {} ELSE TopicsOf[profile.seed]

-----------------------------------------------------------------------------
(* Candidates                                                                   *)

Local == {[key |-> p, title |-> TitleOf[p], topics |-> TopicsOf[p],
           difficulty |-> DifficultyOf[p], local |-> TRUE] : p \in ProblemsIn(Stored)}

\* CompositeProblemSource: the first source that has a key wins.
Merged == Local \cup {c \in IF memo = NoList THEN {} ELSE memo :
                         \A d \in Local : d.key # c.key}

\* filter_candidates: a title is taken once, by the first candidate accepted.
Pool(profile) ==
    LET fit == {c \in Merged : c.key # profile.seed /\ c.key \notin profile.solved}
    IN  {c \in fit : c.local \/ \A d \in fit : d.local => d.title # c.title}

CandidatePatterns(c) == PatternsFor(c.topics)
Primary(c) == FirstOf(1, CandidatePatterns(c))

\* score_candidate, times 120, with DEFAULT_SIMILARITY_WEIGHTS.
Score120(c, seed) ==
    LET ps == CandidatePatterns(c)
        part(weight, shared, total) ==
            IF total = 0 THEN 0
            ELSE AtMost(weight, (weight * shared) \div total)
        share(weight, have, want) ==
            part(weight, Cardinality(have \cap want), Cardinality(want))
        step == Band[c.difficulty] - seed.ceiling
        fit == CASE Band[c.difficulty] < 0 -> 36
                 [] Band[c.difficulty] >= 0 /\ step = 0 -> 120
                 [] Band[c.difficulty] >= 0 /\ step = 1 -> 108
                 [] Band[c.difficulty] >= 0 /\ step < 0 -> 48
                 [] OTHER -> 12
        progress ==
            CASE ps \cap seed.strengths # {}
                 /\ ps \cap (seed.practised \ seed.strengths) = {} -> 108
              [] ps # {} /\ ps \cap seed.practised = {} -> 180
              [] ps \cap (seed.practised \ seed.strengths) # {} -> 54
              [] OTHER -> 36
        aims == seed.targets \cup seed.patterns
    IN  share(360, ps, seed.patterns)
        + share(180, Touched(Families, ps), Touched(Families, seed.patterns))
        + share(120, c.topics, seed.topics)
        + share(120, Touched(Structures, ps), Touched(Structures, seed.patterns))
        + part(240, Cardinality(ps \cap aims) + Cardinality(c.topics \cap seed.weak),
               Cardinality(aims) + Cardinality(seed.weak))
        + fit + progress

\* rank_candidates sorts by these keys: the place of a candidate is the number of
\* those before it, and titles make the order total.
Ranked(candidates, seed) ==
    LET score == [c \in candidates |-> Score120(c, seed)]
        before(c, d) ==
            \/ score[c] > score[d]
            \/ score[c] = score[d] /\ c.local /\ ~d.local
            \/ score[c] = score[d] /\ c.local = d.local /\ c.title < d.title
        place == [c \in candidates |->
                     1 + Cardinality({d \in candidates : before(d, c)})]
    IN  [i \in 1..Cardinality(candidates) |->
            CHOOSE c \in candidates : place[c] = i]

-----------------------------------------------------------------------------
(* get_next_problem_recommendations                                             *)

\* build_seed_context_for_next: gaps count as improvement areas here.
NextSeed(profile) ==
    LET patterns == PatternsFor(SeedTopics(profile))
    IN  [topics |-> SeedTopics(profile), patterns |-> patterns,
         targets |-> patterns \cup PatternsFor(profile.weakTopics)
                         \cup FirstOf(5, profile.gaps),
         weak |-> profile.weakTopics, practised |-> profile.practised,
         strengths |-> profile.strengths, ceiling |-> profile.ceiling]

\* Mutant: two candidates that share any pattern exclude each other.
AddDisjointChoice(chosen, c) ==
    IF \/ Len(chosen) = Limit
       \/ CandidatePatterns(c) \cap UNION {CandidatePatterns(d) : d \in ToSet(chosen)} # {}
    THEN chosen ELSE Append(chosen, c)

\* No two with the same first pattern; candidates without one are all taken.
AddChoice(chosen, c) ==
    IF \/ Len(chosen) = Limit
       \/ Primary(c) # {} /\ \E d \in ToSet(chosen) : Primary(d) = Primary(c)
    THEN chosen ELSE Append(chosen, c)

Recommendations(account) ==
    LET profile == Profile(account)
    IN  FoldLeft(AddChoice, <<>>, Ranked(Pool(profile), NextSeed(profile)))

-----------------------------------------------------------------------------
(* get_personalized_roadmap                                                     *)

Aimed(specs) == UNION {spec.targets : spec \in ToSet(specs)}

AddPhase(specs, targets, topics) ==
    IF targets \subseteq Aimed(specs) THEN specs
    ELSE Append(specs, [targets |-> targets \ Aimed(specs), topics |-> topics])

\* plan_phase_specs: the last solve, recorded struggles, adjacent patterns,
\* foundational gaps, and two practised patterns combined.
PhaseOrder == <<"reinforce", "strengthen", "progress", "build", "combine">>

\* What is not practised yet, if there is any of it.
NewFirst(ps, profile) ==
    IF ps \subseteq profile.practised THEN ps ELSE ps \ profile.practised

Pair(ps) == IF Cardinality(ps) = 2 THEN ps ELSE {}

PhaseTargets(phase, aimed, profile) ==
    LET seed == PatternsFor(SeedTopics(profile))
        near == UNION {AdjacentOf(p) :
                    p \in seed \cup profile.strengths \cup profile.practised}
    IN  CASE phase = "reinforce" -> seed
          [] phase = "strengthen" ->
                 FirstOf(2, PatternsFor(profile.weakTopics) \ aimed)
          [] phase = "progress" -> FirstOf(2, NewFirst(near \ aimed, profile))
          [] phase = "build" -> FirstOf(2, profile.gaps \ aimed)
          [] phase = "combine" -> Pair(FirstOf(2, profile.practised \ aimed))

PhaseTopics(phase, profile) ==
    CASE phase = "reinforce" -> SeedTopics(profile)
      [] phase = "strengthen" -> profile.weakTopics
      [] OTHER -> {}

FirstPhases(specs) == SubSeq(specs, 1, AtMost(Len(specs), MaxPhases))

Plan(profile) ==
    LET add(specs, phase) == AddPhase(specs,
            PhaseTargets(phase, Aimed(specs), profile), PhaseTopics(phase, profile))
    IN  FirstPhases(FoldLeft(add, <<>>, PhaseOrder))

PhaseSeed(profile, spec) ==
    [topics |-> IF spec.topics = {} THEN SeedTopics(profile) ELSE spec.topics,
     patterns |-> spec.targets, targets |-> spec.targets, weak |-> spec.topics,
     practised |-> profile.practised, strengths |-> profile.strengths,
     ceiling |-> profile.ceiling]

AllowedDifficulty(c, profile) == Band[c.difficulty] <= profile.ceiling + 1

Best(ranked) == ToSet(SubSeq(ranked, 1, AtMost(Len(ranked), MaxProblems)))
Enough(chosen) == IF Cardinality(chosen) < MinProblems THEN {} ELSE chosen

\* Candidates with a target pattern and, if those are too few, then candidates with
\* an adjacent one.
RankedForPhase(usable, profile, spec) ==
    LET near == UNION {AdjacentOf(p) : p \in spec.targets}
        primary == {c \in usable : CandidatePatterns(c) \cap spec.targets # {}}
        secondary == {c \in usable \ primary : CandidatePatterns(c) \cap near # {}}
        rank(candidates) == Ranked(candidates, PhaseSeed(profile, spec))
    IN  rank(primary)
            \o rank(IF Cardinality(primary) >= MinProblems THEN {} ELSE secondary)

\* Mutant: the problems of earlier phases are not excluded.
SelectAgain(profile, spec, pool, used) ==
    LET usable == {c \in pool : AllowedDifficulty(c, profile)}
    IN  Enough(Best(RankedForPhase(usable, profile, spec)))

\* _select_phase_problems: none if all are too few.
SelectProblems(profile, spec, pool, used) ==
    LET usable == {c \in pool : c.key \notin used /\ AllowedDifficulty(c, profile)}
    IN  Enough(Best(RankedForPhase(usable, profile, spec)))

Keys(milestones) ==
    UNION {{c.key : c \in m.problems} : m \in ToSet(milestones)}
Titles(milestones) ==
    UNION {{c.title : c \in m.problems} : m \in ToSet(milestones)}

Extended(milestones, spec, problems) ==
    IF problems = {} THEN milestones
    ELSE Append(milestones, [targets |-> spec.targets, problems |-> problems])

\* The milestones of build_roadmap, before validation.
Milestones(profile, pool) ==
    LET extend(milestones, spec) == Extended(milestones, spec,
            SelectProblems(profile, spec, pool, Keys(milestones)))
    IN  FoldLeft(extend, <<>>, Plan(profile))

\* A milestone validate_roadmap objects to, given those before it.
Offends(m, earlier, pool) ==
    \/ Cardinality(m.problems) < MinProblems
    \/ \E c \in m.problems : \/ \A d \in pool : d.key # c.key
                             \/ c.key \in Keys(earlier)
                             \/ c.title \in Titles(earlier)
                             \/ \E d \in m.problems \ {c} : d.title = c.title

ValidRoadmap(milestones, pool) ==
    /\ \A i \in DOMAIN milestones :
           ~Offends(milestones[i], SubSeq(milestones, 1, i - 1), pool)
    /\ Len(milestones) > 1 =>
           Cardinality({m.targets : m \in ToSet(milestones)}) > 1

\* _repair_until_valid drops the first milestone that offends, again and again.
Repaired(milestones, pool) ==
    FoldLeft(LAMBDA kept1, m : IF Offends(m, kept1, pool) THEN kept1
                               ELSE Append(kept1, m),
             <<>>, milestones)

-----------------------------------------------------------------------------
(* Steps                                                                        *)

LearningInit ==
    /\ AnalyticsInit
    /\ memo = NoList
    /\ saved \in {NoList, Published}

\* LeetCodeProblemSource.list_candidates: once per process, from a fresh cache, or
\* from LeetCode if the source is enabled; a failure is memoised like an answer,
\* and saving may fail.
ListCandidates(fetched, written) ==
    /\ memo = NoList
    /\ memo' = IF saved # NoList THEN saved ELSE fetched
    /\ saved' = IF saved = NoList /\ fetched # {} /\ written THEN fetched ELSE saved
    /\ UNCHANGED <<libraryVars, analyticsVars>>

Expire ==
    /\ saved # NoList
    /\ saved' = NoList
    /\ UNCHANGED <<libraryVars, analyticsVars, memo>>

RestartProcess ==
    /\ memo # NoList
    /\ memo' = NoList
    /\ UNCHANGED <<libraryVars, analyticsVars, saved>>

\* A row is stored.  In this part a problem comes with its first row: none is added
\* by hand before.
Solve(r, s) ==
    /\ s.day = today
    /\ Store(r, s)
    /\ UNCHANGED <<analyticsVars, catalogueVars>>

NextDay ==
    /\ today < MaxDay
    /\ today' = today + 1
    /\ UNCHANGED <<libraryVars, kept, catalogueVars>>

ChangeAccount ==
    /\ \E a \in Accounts \cup {Nobody} : Connect(a)
    /\ UNCHANGED <<analyticsVars, catalogueVars>>

LearningNext ==
    \/ \E fetched \in {{}, Published}, written \in BOOLEAN :
           ListCandidates(fetched, written)
    \/ Expire
    \/ RestartProcess
    \/ \E r \in Rows, s \in Entered : Solve(r, s)
    \/ NextDay
    \/ ChangeAccount

LearningSpec == LearningInit /\ [][LearningNext]_<<libraryVars, analyticsVars, catalogueVars>>

-----------------------------------------------------------------------------
(* Properties.  An account that a caller names takes the place of the connected *)
(* one everywhere, so the connected one stands for both.                        *)

SoundMilestones(milestones, pool, profile) ==
    /\ ValidRoadmap(milestones, pool)
    /\ Repaired(milestones, pool) = milestones
    /\ \A i, j \in DOMAIN milestones :
           i # j => milestones[i].targets \cap milestones[j].targets = {}
    /\ \A m \in ToSet(milestones) : \A c \in m.problems :
           /\ Band[c.difficulty] <= profile.ceiling + 1
           /\ c.key \notin SolvedIn(ScopeForAnalytics(connected))

\* learning/roadmap.py:312-359, 426-546, 554-666: what the planner builds passes
\* the validator, so nothing is repaired away; phases never share a pattern, and
\* every problem is a candidate within one band of what has been solved.
RoadmapSound ==
    LET profile == Profile(connected)
        pool == Pool(profile)
    IN  SoundMilestones(Milestones(profile, pool), pool, profile)

\* learning/recommend.py:75-101: the recommendations are as many as the limit
\* and the first patterns of the candidates allow, and nothing better is left out:
\* a candidate passed over shares its first pattern with a better one.
RecommendationsFull ==
    LET profile == Profile(connected)
        pool == Pool(profile)
        chosen == Recommendations(connected)
        ranked == Ranked(pool, NextSeed(profile))
        place(c) == CHOOSE i \in DOMAIN ranked : ranked[i] = c
        plain == {c \in pool : Primary(c) = {}}
    IN  /\ Len(chosen) = AtMost(Limit, Cardinality(plain)
               + Cardinality({Primary(c) : c \in pool \ plain}))
        /\ IsInjective(chosen)
        /\ \A c \in pool \ ToSet(chosen) :
               \/ \E d \in ToSet(chosen) :
                      Primary(d) = Primary(c) /\ place(d) < place(c)
               \/ \A d \in ToSet(chosen) : place(d) < place(c)
=============================================================================
