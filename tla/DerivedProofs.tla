--------------------------- MODULE DerivedProofs ---------------------------
(***************************************************************************)
(* Proofs about what is computed of the library: analytics, the revision   *)
(* queue, the learning engine and the collective insight, for any library, *)
(* any topics, any catalogue and any calendar.                             *)
(***************************************************************************)
EXTENDS Derived, MemoryProofs

-----------------------------------------------------------------------------
(* Types                                                                   *)

LEMMA AnalyticsTyped ==
  ASSUME AnalyticsTypeOK, AnalyticsNext
  PROVE  AnalyticsTypeOK'
<1> USE DEF AnalyticsTypeOK
<1>1. ASSUME NEW r \in Rows, NEW s \in Entered, Practise(r, s)
      PROVE  AnalyticsTypeOK'
  <2>1. LibraryTypeOK'
    BY <1>1, LibraryTyped DEF Practise, LibraryNext
  <2>2. kept' \in [Problems -> 0..MaxDay]
    <3>1. PICK k \in {kept[ProblemOf(r)], today} :
              kept' = [kept EXCEPT ![ProblemOf(r)] = k]
      BY <1>1 DEF Practise
    <3>2. k \in 0..MaxDay
      BY RowParts, LibraryAssumption
    <3> QED BY <3>1, <3>2
  <2> QED BY <1>1, <2>1, <2>2 DEF Practise
<1>2. ASSUME NEW p \in Problems, AddProblem(p) \/ MarkReviewed(p)
      PROVE  AnalyticsTypeOK'
  <2>1. LibraryTypeOK'
    BY <1>2 DEF AddProblem, MarkReviewed, LibraryTypeOK, libraryVars
  <2> QED BY <1>2, <2>1, LibraryAssumption DEF AddProblem, MarkReviewed
<1>3. CASE Midnight
  <2>1. LibraryTypeOK'
    BY <1>3 DEF Midnight, LibraryTypeOK, libraryVars
  <2> QED BY <1>3, <2>1, LibraryAssumption DEF Midnight
<1>4. CASE SwitchAccount
  <2>1. LibraryTypeOK'
    BY <1>4, LibraryTyped DEF SwitchAccount, LibraryNext
  <2> QED BY <1>4, <2>1 DEF SwitchAccount, analyticsVars
<1> QED BY <1>1, <1>2, <1>3, <1>4 DEF AnalyticsNext

\* Steps of the learning engine that the collective insight takes as well.
LEMMA PractisedTyped ==
  ASSUME LearningTypeOK,
         \/ \E r \in Rows, s \in Entered : Solve(r, s)
         \/ \E r \in Rows : ReplaceCode(r)
         \/ NextDay
         \/ ChangeAccount
  PROVE  LearningTypeOK'
<1> USE DEF LearningTypeOK, AnalyticsTypeOK
<1>1. CASE \/ \E r \in Rows, s \in Entered : Solve(r, s)
           \/ \E r \in Rows : ReplaceCode(r)
           \/ ChangeAccount
  <2>1. LibraryTypeOK'
    BY <1>1, LibraryTyped DEF Solve, ReplaceCode, ChangeAccount, LibraryNext
  <2> QED BY <1>1, <2>1 DEF Solve, ReplaceCode, ChangeAccount, analyticsVars,
                            catalogueVars
<1>2. CASE NextDay
  <2>1. LibraryTypeOK'
    BY <1>2 DEF NextDay, LibraryTypeOK, libraryVars
  <2> QED BY <1>2, <2>1, LibraryAssumption DEF NextDay, catalogueVars
<1> QED BY <1>1, <1>2

LEMMA LearningTyped ==
  ASSUME LearningTypeOK, LearningNext
  PROVE  LearningTypeOK'
<1>1. ASSUME NEW fetched \in {{}, Published}, NEW written \in BOOLEAN,
             ListCandidates(fetched, written)
      PROVE  LearningTypeOK'
  <2>1. AnalyticsTypeOK'
    BY <1>1 DEF ListCandidates, LearningTypeOK, AnalyticsTypeOK, LibraryTypeOK,
                libraryVars, analyticsVars
  <2> QED BY <1>1, <2>1 DEF ListCandidates, LearningTypeOK
<1>2. CASE Expire \/ RestartProcess
  <2>1. AnalyticsTypeOK'
    BY <1>2 DEF Expire, RestartProcess, LearningTypeOK, AnalyticsTypeOK,
                LibraryTypeOK, libraryVars, analyticsVars
  <2> QED BY <1>2, <2>1 DEF Expire, RestartProcess, LearningTypeOK
<1>3. CASE (\E r \in Rows, s \in Entered : Solve(r, s)) \/ NextDay \/ ChangeAccount
  BY <1>3, PractisedTyped
<1> QED BY <1>1, <1>2, <1>3 DEF LearningNext

LEMMA CollectiveTyped ==
  ASSUME CollectiveTypeOK, CollectiveNext
  PROVE  CollectiveTypeOK'
<1>1. ASSUME NEW r \in Rows, AnalyzeSubmission(r) PROVE CollectiveTypeOK'
  <2>1. LearningTypeOK'
    BY <1>1 DEF AnalyzeSubmission, CollectiveTypeOK, LearningTypeOK,
                AnalyticsTypeOK, LibraryTypeOK, libraryVars, analyticsVars,
                catalogueVars
  <2> DEFINE v == library[r].text
             s == analysed[r]
  <2>2. v \in 1..MaxText
    <3>1. r \in Stored
      BY <1>1, OwnedStored DEF AnalyzeSubmission, ListProblems
    <3>2. library[r] \in Submission
      BY <3>1, StoredTyped DEF CollectiveTypeOK, LearningTypeOK, AnalyticsTypeOK
    <3> QED BY <3>2 DEF Submission
  <2>3. s \in Seq(1..MaxText) /\ IsInjective(s) /\ v \notin ToSet(s)
    BY <1>1 DEF AnalyzeSubmission, CollectiveTypeOK
  <2>4. analysed' = [analysed EXCEPT ![r] = Append(s, v)]
    BY <1>1 DEF AnalyzeSubmission
  <2> HIDE DEF v, s
  <2>5. Append(s, v) \in Seq(1..MaxText)
    BY <2>2, <2>3
  <2>6. IsInjective(Append(s, v))
    <3>1. \A i \in 1..Len(s) : s[i] # v
      BY <2>3 DEF ToSet
    <3>2. \A i, j \in 1..Len(s) : s[i] = s[j] => i = j
      BY <2>3 DEF IsInjective
    <3> QED BY <2>2, <2>3, <3>1, <3>2 DEF IsInjective
  <2> QED BY <2>1, <2>4, <2>5, <2>6 DEF CollectiveTypeOK
<1>2. CASE /\ \/ \E r \in Rows, s \in Entered : Solve(r, s)
              \/ \E r \in Rows : ReplaceCode(r)
              \/ NextDay
              \/ ChangeAccount
           /\ UNCHANGED analysed
  <2>1. LearningTypeOK'
    BY <1>2, PractisedTyped DEF CollectiveTypeOK
  <2> QED BY <1>2, <2>1 DEF CollectiveTypeOK
<1> QED BY <1>1, <1>2 DEF CollectiveNext

\* A behaviour is one of its component's.
THEOREM DerivedImplementsParts ==
  DerivedSpec => /\ part = "memory" => EngineSpec
                 /\ part = "analytics" => AnalyticsSpec
                 /\ part = "learning" => LearningSpec
                 /\ part = "collective" => CollectiveSpec
<1>1. DerivedInit => EngineInit /\ AnalyticsInit /\ LearningInit /\ CollectiveInit
  BY DEF DerivedInit, CollectiveInit, LearningInit
<1>2. ASSUME [DerivedNext]_<<derivedVars, part>> PROVE UNCHANGED part
  BY <1>2 DEF DerivedNext
<1>3. /\ part = "memory" /\ [DerivedNext]_<<derivedVars, part>>
           => (part = "memory")'
      /\ part = "analytics" /\ [DerivedNext]_<<derivedVars, part>>
           => (part = "analytics")'
      /\ part = "learning" /\ [DerivedNext]_<<derivedVars, part>>
           => (part = "learning")'
      /\ part = "collective" /\ [DerivedNext]_<<derivedVars, part>>
           => (part = "collective")'
  BY <1>2
<1>4. part = "memory" /\ [DerivedNext]_<<derivedVars, part>>
        => [EngineNext]_<<libraryVars, engineVars>>
  BY DEF DerivedNext, derivedVars
<1>5. part = "analytics" /\ [DerivedNext]_<<derivedVars, part>>
        => [AnalyticsNext]_<<libraryVars, analyticsVars>>
  BY DEF DerivedNext, derivedVars
<1>6. part = "learning" /\ [DerivedNext]_<<derivedVars, part>>
        => [LearningNext]_<<libraryVars, analyticsVars, catalogueVars>>
  BY DEF DerivedNext, derivedVars
<1>7. part = "collective" /\ [DerivedNext]_<<derivedVars, part>>
        => [CollectiveNext]_<<libraryVars, analyticsVars, catalogueVars, analysed>>
  BY DEF DerivedNext, derivedVars
<1>8. DerivedSpec => (part = "memory" => EngineSpec)
  BY <1>1, <1>3, <1>4, PTL DEF DerivedSpec, EngineSpec
<1>9. DerivedSpec => (part = "analytics" => AnalyticsSpec)
  BY <1>1, <1>3, <1>5, PTL DEF DerivedSpec, AnalyticsSpec
<1>10. DerivedSpec => (part = "learning" => LearningSpec)
  BY <1>1, <1>3, <1>6, PTL DEF DerivedSpec, LearningSpec
<1>11. DerivedSpec => (part = "collective" => CollectiveSpec)
  BY <1>1, <1>3, <1>7, PTL DEF DerivedSpec, CollectiveSpec
<1> QED BY <1>8, <1>9, <1>10, <1>11

\* Outside the semantic memory, whichever component the behaviour is of.
LEMMA CollectiveTypes == DerivedSpec => [](part # "memory" => CollectiveTypeOK)
<1> DEFINE Inv == part # "memory" => CollectiveTypeOK
<1>1. DerivedInit => Inv
  <2> SUFFICES ASSUME DerivedInit PROVE CollectiveTypeOK
    OBVIOUS
  <2>1. LibraryTypeOK
    BY DEF DerivedInit, EngineInit, LibraryInit, LibraryTypeOK
  <2>2. AnalyticsTypeOK
    BY <2>1, LibraryAssumption
       DEF DerivedInit, CollectiveInit, LearningInit, AnalyticsInit, AnalyticsTypeOK
  <2>3. LearningTypeOK
    BY <2>2 DEF DerivedInit, CollectiveInit, LearningInit, LearningTypeOK
  <2>4. << >> \in Seq(1..MaxText) /\ IsInjective(<< >>)
    BY DEF IsInjective
  <2> QED BY <2>3, <2>4 DEF DerivedInit, CollectiveInit, CollectiveTypeOK
<1>2. Inv /\ [DerivedNext]_<<derivedVars, part>> => Inv'
  <2> SUFFICES ASSUME CollectiveTypeOK, [DerivedNext]_<<derivedVars, part>>,
                      part # "memory"
               PROVE  CollectiveTypeOK'
    BY DEF DerivedNext
  <2>1. CASE AnalyticsNext /\ UNCHANGED <<engineVars, catalogueVars, analysed>>
    <3>1. AnalyticsTypeOK'
      BY <2>1, AnalyticsTyped DEF CollectiveTypeOK, LearningTypeOK
    <3>2. LearningTypeOK'
      BY <2>1, <3>1 DEF CollectiveTypeOK, LearningTypeOK, catalogueVars
    <3> QED BY <2>1, <3>2 DEF CollectiveTypeOK
  <2>2. CASE LearningNext /\ UNCHANGED <<engineVars, analysed>>
    <3>1. LearningTypeOK'
      BY <2>2, LearningTyped DEF CollectiveTypeOK
    <3> QED BY <2>2, <3>1 DEF CollectiveTypeOK
  <2>3. CASE CollectiveNext
    BY <2>3, CollectiveTyped
  <2>4. CASE UNCHANGED <<derivedVars, part>>
    BY <2>4 DEF derivedVars, CollectiveTypeOK, LearningTypeOK, AnalyticsTypeOK,
                LibraryTypeOK, libraryVars, analyticsVars, catalogueVars
  <2> QED BY <2>1, <2>2, <2>3, <2>4 DEF DerivedNext
<1> QED BY <1>1, <1>2, PTL DEF DerivedSpec

\* Every variable stays within the values the code can give it.
THEOREM DerivedTypeCorrect == DerivedSpec => []DerivedTypeOK
<1>1. DerivedSpec => (part = "memory" => []EngineTypeOK)
  <2>1. DerivedSpec => (part = "memory" => EngineSpec)
    BY DerivedImplementsParts
  <2> QED BY <2>1, EngineTypeCorrect, PTL
<1>2. DerivedSpec => \/ [](part = "memory")
                     \/ [](part # "memory")
  <2>1. part = "memory" /\ [DerivedNext]_<<derivedVars, part>> => (part = "memory")'
    BY DEF DerivedNext
  <2>2. part # "memory" /\ [DerivedNext]_<<derivedVars, part>> => (part # "memory")'
    BY DEF DerivedNext
  <2>3. part = "memory" \/ part # "memory"
    OBVIOUS
  <2> QED BY <2>1, <2>2, <2>3, PTL DEF DerivedSpec
<1>3. EngineTypeOK /\ part = "memory" => DerivedTypeOK
  BY DEF DerivedTypeOK
<1>4. (part # "memory" => CollectiveTypeOK) /\ part # "memory" => DerivedTypeOK
  BY DEF DerivedTypeOK
<1> QED BY <1>1, <1>2, <1>3, <1>4, CollectiveTypes, PTL

-----------------------------------------------------------------------------
(* What is counted                                                         *)

LEMMA ScopeStored ==
  ASSUME NEW account
  PROVE  ScopeForAnalytics(account) \subseteq Stored
<1>1. \A o : OwnedBy(o) \subseteq Stored
  BY OwnedStored
<1>2. UNION {OwnedBy(a) : a \in Providers} \subseteq Stored
  BY <1>1
<1> QED BY <1>1, <1>2 DEF ScopeForAnalytics

LEMMA StoredFinite ==
  ASSUME NEW R \in SUBSET Stored
  PROVE  /\ IsFiniteSet(R) /\ Cardinality(R) \in Nat
         /\ Cardinality(R) = 0 <=> R = {}
<1>1. R \in SUBSET Rows
  BY DEF Stored
<1>2. IsFiniteSet(R)
  BY <1>1, LibraryAssumption, FS_Subset
<1> QED BY <1>2, FS_CardinalityType, FS_EmptySet

LEMMA ProblemsFinite ==
  ASSUME NEW P \in SUBSET Problems
  PROVE  /\ IsFiniteSet(P) /\ Cardinality(P) \in Nat
         /\ Cardinality(P) = 0 <=> P = {}
<1>1. IsFiniteSet(P)
  BY LibraryAssumption, FS_Subset
<1> QED BY <1>1, FS_CardinalityType, FS_EmptySet

LEMMA ProblemsInStored ==
  ASSUME NEW R \in SUBSET Stored
  PROVE  /\ ProblemsIn(R) \in SUBSET Problems
         /\ ProblemsIn(R) = {} <=> R = {}
<1>1. \A r \in R : ProblemOf(r) \in Problems
  BY RowParts DEF Stored
<1> QED BY <1>1 DEF ProblemsIn

LEMMA ScopedFinite ==
  ASSUME NEW account
  PROVE  /\ ScopedProblems(account) \in SUBSET Problems
         /\ ProblemsIn(ScopeForAnalytics(account)) \subseteq ScopedProblems(account)
         /\ Cardinality(ScopedProblems(account)) \in Nat
<1>1. ProblemsIn(ScopeForAnalytics(account)) \in SUBSET Problems
  BY ScopeStored, ProblemsInStored
<1>2. ScopedProblems(account) \in SUBSET Problems
  BY <1>1 DEF ScopedProblems
<1> QED BY <1>2, ProblemsFinite DEF ScopedProblems

LEMMA TopicsCounted ==
  ASSUME NEW account, NEW t \in Topics
  PROVE  /\ TopicStatistics(account)[t].problems \in Nat
         /\ TopicStatistics(account)[t].problems =
              Cardinality({p \in ScopedProblems(account) : t \in TopicsOf[p]})
<1> DEFINE P == {p \in ScopedProblems(account) : t \in TopicsOf[p]}
<1>1. TopicStatistics(account)[t].problems = Cardinality(P)
  BY DEF TopicStatistics, Tally
<1>2. P \in SUBSET Problems
  BY ScopedFinite
<1> QED BY <1>1, <1>2, ProblemsFinite

\* While every problem has a row, the topics that statistics count problems of are
\* those with one.
LEMMA PractisedIsOnTopic ==
  ASSUME NEW account, \A p \in Problems : kept[p] = 0, NEW t \in Topics
  PROVE  TopicStatistics(account)[t].problems = 0 <=>
             OnTopic(ScopeForAnalytics(account), t) = {}
<1> DEFINE scope == ScopeForAnalytics(account)
           P == {p \in ScopedProblems(account) : t \in TopicsOf[p]}
<1>1. ScopedProblems(account) = ProblemsIn(scope)
  BY DEF ScopedProblems
<1>2. P = ProblemsIn(OnTopic(scope, t))
  BY <1>1 DEF ProblemsIn, OnTopic
<1>3. OnTopic(scope, t) \in SUBSET Stored
  BY ScopeStored DEF OnTopic
<1>4. TopicStatistics(account)[t].problems = Cardinality(P)
  BY TopicsCounted
<1> HIDE DEF P, scope
<1>5. P \in SUBSET Problems /\ (P = {} <=> OnTopic(scope, t) = {})
  BY <1>2, <1>3, ProblemsInStored
<1> QED BY <1>4, <1>5, ProblemsFinite DEF scope

LEMMA WeakArePractised ==
  ASSUME NEW account
  PROVE  WeakSpots(account) \subseteq PractisedTopics(account)
<1> SUFFICES ASSUME NEW t \in WeakSpots(account) PROVE t \in PractisedTopics(account)
  OBVIOUS
<1>1. t \in Topics /\ TopicStatistics(account)[t].problems >= 2
  BY DEF WeakSpots
<1>2. TopicStatistics(account)[t].problems \in Nat
  BY <1>1, TopicsCounted
<1> QED BY <1>1, <1>2 DEF PractisedTopics

-----------------------------------------------------------------------------
(* The collective insight                                                  *)

LEMMA StrugglesHaveRows ==
  ASSUME NEW R \in SUBSET Stored, NEW t \in StruggleTopics(R)
  PROVE  t \in Topics /\ OnTopic(R, t) # {}
<1>1. OnTopic(R, t) \in SUBSET Stored
  BY DEF OnTopic
<1>2. t \in Topics /\ (ProblemsIn(OnTopic(R, t)) # {} \/ Sampled(R, t))
  BY DEF StruggleTopics
<1>3. Sampled(R, t) => OnTopic(R, t) # {}
  <2> DEFINE P == ProblemsIn(OnTopic(R, t))
  <2>1. P \in SUBSET Problems /\ (P = {} <=> OnTopic(R, t) = {})
    BY <1>1, ProblemsInStored
  <2>2. Cardinality(P) = 0 <=> P = {}
    BY <2>1, ProblemsFinite
  <2> QED BY <2>1, <2>2 DEF Sampled
<1> QED BY <1>1, <1>2, <1>3, ProblemsInStored

\* Submissions bring their problems, which no step of the insight adds alone.
LEMMA NoneAddedAlone ==
  DerivedSpec => [](part = "collective" => \A p \in Problems : kept[p] = 0)
<1> DEFINE Inv == part = "collective" => \A p \in Problems : kept[p] = 0
<1>1. DerivedInit => Inv
  BY DEF DerivedInit, CollectiveInit, LearningInit, AnalyticsInit
<1>2. Inv /\ [DerivedNext]_<<derivedVars, part>> => Inv'
  <2>1. CollectiveNext => UNCHANGED kept
    BY DEF CollectiveNext, AnalyzeSubmission, Solve, ReplaceCode, NextDay,
           ChangeAccount, analyticsVars
  <2>2. UNCHANGED <<derivedVars, part>> => UNCHANGED <<kept, part>>
    BY DEF derivedVars, analyticsVars
  <2>3. DerivedNext /\ part = "collective" => UNCHANGED <<kept, part>>
    BY <2>1 DEF DerivedNext
  <2>4. DerivedNext => UNCHANGED part
    BY DEF DerivedNext
  <2> QED BY <2>2, <2>3, <2>4
<1> QED BY <1>1, <1>2, PTL DEF DerivedSpec

\* learning/collective.py, learning/roadmap.py: what was never practised is nowhere
\* counted as a struggle, neither by the insight nor by the profile.
THEOREM UntriedAreNotStruggles == DerivedSpec => []UntriedIsNoStruggle
<1> DEFINE NoneAdded == \A p \in Problems : kept[p] = 0
<1>1. NoneAdded => UntriedIsNoStruggle
  <2> SUFFICES ASSUME NoneAdded PROVE UntriedIsNoStruggle
    OBVIOUS
  <2> DEFINE R == ScopeForAnalytics(connected)
             onTopic == {t \in Topics : OnTopic(R, t) # {}}
             profile == Profile(connected)
  <2>1. R \in SUBSET Stored
    BY ScopeStored
  <2>2. PractisedTopics(connected) = onTopic
    <3>1. ASSUME NEW t \in Topics
          PROVE  TopicStatistics(connected)[t].problems > 0 <=> OnTopic(R, t) # {}
      <4>1. TopicStatistics(connected)[t].problems = 0 <=> OnTopic(R, t) = {}
        BY PractisedIsOnTopic
      <4>2. TopicStatistics(connected)[t].problems \in Nat
        BY TopicsCounted
      <4> HIDE DEF R
      <4> QED BY <4>1, <4>2
    <3> HIDE DEF R
    <3> QED BY <3>1 DEF PractisedTopics
  <2>3. /\ profile.weakTopics = StruggleTopics(R)
        /\ profile.gaps = Foundational \ PatternsFor(onTopic)
    BY DEF Profile, Unpracticed
  <2>4. WeakSpots(connected) \subseteq onTopic
    BY <2>2, WeakArePractised
  <2>5. StruggleTopics(R) \subseteq onTopic
    BY <2>1, StrugglesHaveRows
  <2>6. onTopic \subseteq Topics
    OBVIOUS
  <2> HIDE DEF R, onTopic, profile
  <2>7. PatternsFor(profile.weakTopics) \cap profile.gaps = {}
    BY <2>3, <2>5 DEF PatternsFor
  <2>8. \A p \in profile.gaps :
           {t \in Topics : p \in PatternsOf[t]} \subseteq Topics \ onTopic
    BY <2>3 DEF PatternsFor
  <2>9. GapsAreNotStruggles
    BY <2>2, <2>3, <2>4, <2>5, <2>7, <2>8 DEF GapsAreNotStruggles, profile
  <2> QED BY <2>9 DEF UntriedIsNoStruggle
<1>2. (part = "collective" => \A p \in Problems : kept[p] = 0)
        => UntriedIsNoStruggle
  BY <1>1 DEF UntriedIsNoStruggle
<1> QED BY <1>2, NoneAddedAlone, PTL

\* A finding cites something, and of the topics' statistics only those of weak spots.
Grounds(item, account) ==
    /\ item.refs # {}
    /\ \A ref \in item.refs : ref[1] # "topic" \/ ref \in TopicIds(WeakSpots(account))

LEMMA GroundedByKind ==
  ASSUME NEW account, NEW claim, NEW about, NEW refs, refs # {},
         \A ref \in refs : ref[1] # "topic"
  PROVE  Grounds(Item(claim, about, refs), account)
<1>1. Item(claim, about, refs).refs = refs
  BY DEF Item
<1> QED BY <1>1 DEF Grounds

LEMMA FindingsGrounded ==
  ASSUME NEW account, NEW item \in Findings(account)
  PROVE  Grounds(item, account)
<1>1. CASE item \in Strengths(account)
  <2>1. CASE \E t : item = Item("strength", <<t>>, {<<"strength", t>>})
    <3>1. PICK t : item = Item("strength", <<t>>, {<<"strength", t>>})
      BY <2>1
    <3>2. \A ref \in {<<"strength", t>>} : ref[1] # "topic"
      OBVIOUS
    <3> QED BY <3>1, <3>2, GroundedByKind
  <2>2. CASE \E l : item = Item("strength", <<"technique", l>>,
                               {<<"strength", "technique", l>>})
    <3>1. PICK l : item = Item("strength", <<"technique", l>>,
                               {<<"strength", "technique", l>>})
      BY <2>2
    <3>2. \A ref \in {<<"strength", "technique", l>>} : ref[1] # "topic"
      OBVIOUS
    <3> QED BY <3>1, <3>2, GroundedByKind
  <2>3. CASE item = Item("strength", <<"difficulty">>, {<<"strength", "difficulty">>})
    <3>1. \A ref \in {<<"strength", "difficulty">>} : ref[1] # "topic"
      OBVIOUS
    <3> QED BY <2>3, <3>1, GroundedByKind
  <2>4. CASE item = Item("strength", <<"first attempt">>,
                         {<<"overview", "first_attempt">>})
    <3>1. \A ref \in {<<"overview", "first_attempt">>} : ref[1] # "topic"
      OBVIOUS
    <3> QED BY <2>4, <3>1, GroundedByKind
  <2> QED BY <1>1, <2>1, <2>2, <2>3, <2>4 DEF Strengths, Given
<1>2. CASE item \in Weaknesses(account)
  <2>1. CASE \E t \in WeakSpots(account) :
               item = Item("weakness", <<t>>, {<<"weakness", t>>, <<"topic", t>>})
    <3>1. PICK t \in WeakSpots(account) :
               item = Item("weakness", <<t>>, {<<"weakness", t>>, <<"topic", t>>})
      BY <2>1
    <3>2. item.refs = {<<"weakness", t>>, <<"topic", t>>}
      BY <3>1 DEF Item
    <3>3. <<"weakness", t>>[1] # "topic"
      OBVIOUS
    <3>4. <<"topic", t>> \in TopicIds(WeakSpots(account))
      BY DEF TopicIds
    <3> QED BY <3>2, <3>3, <3>4 DEF Grounds
  <2>2. CASE \E s : item = Item("weakness", <<s>>, {<<"repeated", s>>})
    <3>1. PICK s : item = Item("weakness", <<s>>, {<<"repeated", s>>})
      BY <2>2
    <3>2. \A ref \in {<<"repeated", s>>} : ref[1] # "topic"
      OBVIOUS
    <3> QED BY <3>1, <3>2, GroundedByKind
  <2>3. CASE item = Item("weakness", <<"recognition">>, {<<"recognition">>})
    <3>1. \A ref \in {<<"recognition">>} : ref[1] # "topic"
      OBVIOUS
    <3> QED BY <2>3, <3>1, GroundedByKind
  <2>4. CASE item = Item("weakness", <<"attempts">>, {<<"overview", "attempts">>})
    <3>1. \A ref \in {<<"overview", "attempts">>} : ref[1] # "topic"
      OBVIOUS
    <3> QED BY <2>4, <3>1, GroundedByKind
  <2> QED BY <1>2, <2>1, <2>2, <2>3, <2>4 DEF Weaknesses, Given
<1>3. CASE item \in Unpractised(account)
  <2>1. PICK t : item = Item("unpracticed", <<t>>, {<<"unpracticed_topics">>})
    BY <1>3 DEF Unpractised
  <2>2. \A ref \in {<<"unpracticed_topics">>} : ref[1] # "topic"
    OBVIOUS
  <2> QED BY <2>1, <2>2, GroundedByKind
<1>4. CASE item \in Mistakes(account)
  <2>1. PICK m : item = Item("mistake", <<m>>, {<<"mistake", m>>})
    BY <1>4 DEF Mistakes
  <2>2. \A ref \in {<<"mistake", m>>} : ref[1] # "topic"
    OBVIOUS
  <2> QED BY <2>1, <2>2, GroundedByKind
<1>5. CASE item \in Trends(account)
  <2>1. PICK t : item = Item("trend", <<t>>, {<<"trend", t>>})
    BY <1>5 DEF Trends
  <2>2. \A ref \in {<<"trend", t>>} : ref[1] # "topic"
    OBVIOUS
  <2> QED BY <2>1, <2>2, GroundedByKind
<1>6. CASE item \in Progress(account)
  <2>1. PICK m : item = Item("progress", <<m>>, {<<"progress", m>>})
    BY <1>6 DEF Progress, Given
  <2>2. \A ref \in {<<"progress", m>>} : ref[1] # "topic"
    OBVIOUS
  <2> QED BY <2>1, <2>2, GroundedByKind
<1> QED BY <1>1, <1>2, <1>3, <1>4, <1>5, <1>6 DEF Findings

\* learning/collective.py:108-135: when the writer has dropped the references to what
\* is not evidence, every finding still cites all it cited.
THEOREM InsightIsGrounded == DerivedSpec => []InsightGrounded
<1>1. InsightGrounded
  <2> SUFFICES ASSUME NEW listed \in StruggleProblems(connected, StruggleLimit)
               PROVE  LET findings == Findings(connected)
                          ids == Evidence(connected, listed) \cup AddedIds(findings)
                      IN  \A item \in findings :
                              RefsOf(item, ids) = item.refs /\ item.refs # {}
    BY Zenon DEF InsightGrounded, EveryClaimGrounded
  <2> DEFINE findings == Findings(connected)
             ids == Evidence(connected, listed) \cup AddedIds(findings)
  <2>1. ASSUME NEW item \in findings, NEW ref \in item.refs PROVE ref \in ids
    <3>1. ref \in UNION {i.refs : i \in findings}
      OBVIOUS
    <3>2. CASE ref \in OverviewIds
      BY <3>2 DEF Evidence
    <3>3. CASE ref \in TopicIds(Topics)
      <4>1. ref[1] = "topic"
        BY <3>3 DEF TopicIds
      <4>2. ref \in TopicIds(WeakSpots(connected))
        BY <4>1, FindingsGrounded DEF Grounds
      <4>3. ref \in TopicIds(PractisedTopics(connected))
        BY <4>2, WeakArePractised DEF TopicIds
      <4> QED BY <4>3 DEF Evidence
    <3>4. CASE ref \notin OverviewIds \cup TopicIds(Topics)
      <4> HIDE DEF findings
      <4> QED BY <3>1, <3>4 DEF AddedIds
    <3> QED BY <3>2, <3>3, <3>4
  <2>2. ASSUME NEW item \in findings PROVE item.refs # {}
    BY FindingsGrounded DEF Grounds
  <2> QED BY <2>1, <2>2 DEF RefsOf
<1> QED BY <1>1, PTL

-----------------------------------------------------------------------------
(* Numbers                                                                 *)

\* A set of numbers that is not empty has a least one, and a greatest one if it has
\* a bound.
LEMMA LeastNumber ==
  ASSUME NEW S \in SUBSET Nat, S # {}
  PROVE  Min(S) \in S /\ \A n \in S : Min(S) <= n
<1>1. IsWellFoundedOn(OpToRel(<, Nat), Nat)
  BY NatLessThanWellFounded
<1>2. PICK m \in S : \A k \in S : ~ (<<k, m>> \in OpToRel(<, Nat))
  BY <1>1, WFMin
<1>3. \A k \in S : ~ (k < m)
  BY <1>2 DEF OpToRel
<1>4. m \in S /\ \A k \in S : m <= k
  BY <1>3
<1> QED BY <1>4 DEF Min

LEMMA GreatestNumber ==
  ASSUME NEW b \in Nat, NEW S \in SUBSET (0..b), S # {}
  PROVE  Max(S) \in S /\ \A n \in S : n <= Max(S)
<1> DEFINE bounds == {n \in Nat : \A k \in S : k <= n}
           m == Min(bounds)
<1>1. b \in bounds
  OBVIOUS
<1>2. m \in bounds /\ \A n \in bounds : m <= n
  BY <1>1, LeastNumber
<1> HIDE DEF m
<1>3. m \in S
  <2>1. SUFFICES ASSUME m \notin S PROVE FALSE
    OBVIOUS
  <2>2. \A k \in S : k < m
    BY <1>2, <2>1
  <2>3. PICK i \in S : TRUE
    OBVIOUS
  <2>4. m - 1 \in Nat
    BY <1>2, <2>2, <2>3
  <2>5. \A k \in S : k \in Nat /\ k <= m - 1
    BY <1>2, <2>2
  <2>6. m - 1 \in bounds
    BY <2>4, <2>5
  <2> QED BY <1>2, <2>4, <2>6
<1> QED BY <1>2, <1>3 DEF Max

-----------------------------------------------------------------------------
(* The revision queue                                                      *)

\* analytics_service.py, revision_service.py: the day, and the days on which problems
\* were stored or reviewed, stay within the bounds, and the rows within their types.
THEOREM AnalyticsTypeCorrect == AnalyticsSpec => []AnalyticsTypeOK
<1>1. AnalyticsInit => AnalyticsTypeOK
  BY LibraryAssumption DEF AnalyticsInit, LibraryInit, AnalyticsTypeOK, LibraryTypeOK
<1>2. AnalyticsTypeOK /\ [AnalyticsNext]_<<libraryVars, analyticsVars>>
        => AnalyticsTypeOK'
  <2>1. ASSUME AnalyticsTypeOK, UNCHANGED <<libraryVars, analyticsVars>>
        PROVE  AnalyticsTypeOK'
    BY <2>1 DEF AnalyticsTypeOK, LibraryTypeOK, libraryVars, analyticsVars
  <2> QED BY <2>1, AnalyticsTyped
<1> QED BY <1>1, <1>2, PTL DEF AnalyticsSpec

\* The days a problem was active on.
ActiveOn(p) == {kept[p]} \cup {library[r].day : r \in Of(p)}

LEMMA ActivityBounded ==
  ASSUME AnalyticsTypeOK, NEW p \in Problems
  PROVE  /\ LastActivity(p) \in ActiveOn(p)
         /\ \A d \in ActiveOn(p) : d \in 0..MaxDay /\ d <= LastActivity(p)
         /\ DaysSince(p) \in Nat
<1>1. ActiveOn(p) \in SUBSET (0..MaxDay) /\ ActiveOn(p) # {}
  <2>1. \A r \in Of(p) : library[r].day \in 1..MaxDay
    BY StoredTyped DEF Of, AnalyticsTypeOK, Submission
  <2> QED BY <2>1 DEF ActiveOn, AnalyticsTypeOK
<1>2. LastActivity(p) = Max(ActiveOn(p))
  BY DEF LastActivity, ActiveOn
<1>3. /\ LastActivity(p) \in ActiveOn(p)
      /\ \A d \in ActiveOn(p) : d <= LastActivity(p)
  BY <1>1, <1>2, GreatestNumber, LibraryAssumption
<1> QED BY <1>1, <1>3, LibraryAssumption DEF DaysSince, AnalyticsTypeOK

\* Nothing is dated after today.
NotAhead ==
    /\ \A p \in Problems : kept[p] <= today
    /\ \A r \in Stored : library[r].day <= today

LEMMA NeverAhead == AnalyticsSpec => []NotAhead
<1>1. AnalyticsInit => NotAhead
  BY DEF AnalyticsInit, LibraryInit, NotAhead, Stored
<1>2. AnalyticsTypeOK /\ NotAhead /\ [AnalyticsNext]_<<libraryVars, analyticsVars>>
        => NotAhead'
  <2> SUFFICES ASSUME AnalyticsTypeOK, NotAhead,
                      [AnalyticsNext]_<<libraryVars, analyticsVars>>
               PROVE  NotAhead'
    OBVIOUS
  <2> USE DEF NotAhead
  <2>0. /\ today \in Nat /\ kept \in [Problems -> Nat]
        /\ library \in [Rows -> Submission \cup {Absent}]
    BY LibraryAssumption DEF AnalyticsTypeOK, LibraryTypeOK
  <2>1. ASSUME NEW r \in Rows, NEW s \in Entered, Practise(r, s) PROVE NotAhead'
    <3>1. today' = today /\ library' = [library EXCEPT ![r] = s] /\ s.day <= today
      BY <2>1 DEF Practise, Store
    <3>2. \A q \in Stored' : library'[q].day <= today
      BY <2>0, <3>1 DEF Stored
    <3>3. PICK k \in {kept[ProblemOf(r)], today} :
              kept' = [kept EXCEPT ![ProblemOf(r)] = k]
      BY <2>1 DEF Practise
    <3>4. \A p \in Problems : kept'[p] <= today
      BY <2>0, <3>3, RowParts
    <3> QED BY <3>1, <3>2, <3>4
  <2>2. ASSUME NEW p \in Problems, AddProblem(p) \/ MarkReviewed(p) PROVE NotAhead'
    <3>1. /\ today' = today /\ library' = library
          /\ kept' = [kept EXCEPT ![p] = today]
      BY <2>2 DEF AddProblem, MarkReviewed, libraryVars
    <3> QED BY <2>0, <3>1 DEF Stored
  <2>3. CASE Midnight
    <3>1. /\ today' = today + 1 /\ library' = library /\ kept' = kept
      BY <2>3 DEF Midnight, libraryVars
    <3>2. \A r \in Stored : library[r].day \in Nat
      BY StoredTyped DEF AnalyticsTypeOK, Submission
    <3> QED BY <2>0, <3>1, <3>2 DEF Stored
  <2>4. CASE SwitchAccount
    BY <2>4 DEF SwitchAccount, Connect, analyticsVars, Stored
  <2>5. CASE UNCHANGED <<libraryVars, analyticsVars>>
    BY <2>5 DEF libraryVars, analyticsVars, Stored
  <2> QED BY <2>1, <2>2, <2>3, <2>4, <2>5 DEF AnalyticsNext
<1> QED BY <1>1, <1>2, AnalyticsTypeCorrect, PTL DEF AnalyticsSpec

\* What is cut off a list of n leaves n.
LEMMA FirstsBounded ==
  ASSUME NEW S, IsFiniteSet(S), NEW n \in Nat,
         NEW T \in kSubset(AtMost(Cardinality(S), n), S)
  PROVE  /\ T \subseteq S /\ IsFiniteSet(T)
         /\ Cardinality(T) = AtMost(Cardinality(S), n)
         /\ Cardinality(T) \in Nat /\ Cardinality(T) <= n
         /\ \A y \in S \ T : Cardinality(T) = n
         /\ Cardinality(T) < n => T = S
<1>1. T \in SUBSET S /\ Cardinality(T) = AtMost(Cardinality(S), n)
  BY DEF kSubset
<1>2. IsFiniteSet(T) /\ (Cardinality(T) = Cardinality(S) => T = S)
  BY <1>1, FS_Subset
<1>3. Cardinality(S) \in Nat /\ Cardinality(T) \in Nat
  BY <1>2, FS_CardinalityType
<1> QED BY <1>1, <1>2, <1>3 DEF AtMost

LEMMA PriorityTyped ==
  ASSUME AnalyticsTypeOK, NEW p \in Problems
  PROVE  Score(p) \in Int
<1>1. Cardinality(Of(p) \ AcceptedIn(Of(p))) \in Nat
  BY StoredFinite DEF Of
<1>2. DifficultyScore(p) \in Nat
  BY DEF DifficultyScore
<1>3. DaysSince(p) \in Nat
  BY ActivityBounded
<1> QED BY <1>1, <1>2, <1>3 DEF Score, AtMost

LEMMA DueByDays ==
  ASSUME AnalyticsTypeOK, NotAhead, NEW p \in Problems
  PROVE  DaysSince(p) >= DueAfter
           <=> /\ kept[p] + DueAfter <= today
               /\ \A r \in Of(p) : library[r].day + DueAfter <= today
<1>1. \A d \in ActiveOn(p) : d \in Nat /\ d <= today
  BY ActivityBounded DEF NotAhead, ActiveOn, Of
<1>2. /\ LastActivity(p) \in ActiveOn(p)
      /\ \A d \in ActiveOn(p) : d <= LastActivity(p)
  BY ActivityBounded
<1>3. today \in Nat
  BY DEF AnalyticsTypeOK
<1>4. DaysSince(p) = today - LastActivity(p)
  BY <1>1, <1>2, <1>3 DEF DaysSince
<1>5. DaysSince(p) >= DueAfter
        <=> \A d \in ActiveOn(p) : d + DueAfter <= today
  BY AnalyticsAssumption, <1>1, <1>2, <1>3, <1>4
<1> QED BY <1>5 DEF ActiveOn

LEMMA DueListed == AnalyticsTypeOK /\ NotAhead => DueInOrder
<1> SUFFICES ASSUME AnalyticsTypeOK, NotAhead PROVE DueInOrder
  OBVIOUS
<1> DEFINE all == RevisionProblems(Nobody)
           due == {p \in Problems : kept[p] > 0 /\ kept[p] + DueAfter <= today
                      /\ \A r \in Of(p) : library[r].day + DueAfter <= today}
           ahead(p) == {q \in all \ {p} : Score(q) >= Score(p)}
<1> SUFFICES ASSUME NEW listed \in DueProblems(DueLimit)
             PROVE  /\ listed \subseteq due /\ Cardinality(listed) <= DueLimit
                    /\ \A p \in due \ listed :
                           \/ Cardinality(listed) = DueLimit /\ listed \subseteq ahead(p)
                           \/ Cardinality(ahead(p)) >= QueueLimit
  BY DEF DueInOrder
<1>1. all = {p \in Problems : kept[p] > 0} /\ IsFiniteSet(all)
  BY ProblemsFinite DEF RevisionProblems
<1>2. QueueLimit \in Nat /\ DueLimit \in Nat
  BY AnalyticsAssumption
<1>3. PICK Q \in RevisionQueues(Nobody, QueueLimit) :
         listed \in Firsts({p \in Q : DaysSince(p) >= DueAfter}, DueLimit,
                          LAMBDA p, q : Score(p) > Score(q))
  BY Zenon DEF DueProblems
<1> DEFINE dueInQ == {p \in Q : DaysSince(p) >= DueAfter}
<1>4. /\ Q \in kSubset(AtMost(Cardinality(all), QueueLimit), all)
      /\ \A x \in Q, y \in all \ Q : ~(Score(y) > Score(x))
  BY <1>3 DEF RevisionQueues, Firsts
<1>5. /\ listed \in kSubset(AtMost(Cardinality(dueInQ), DueLimit), dueInQ)
      /\ \A x \in listed, y \in dueInQ \ listed : ~(Score(y) > Score(x))
  BY <1>3 DEF Firsts
<1> HIDE DEF all, dueInQ
<1>6. /\ Q \subseteq all /\ IsFiniteSet(Q)
      /\ \A y \in all \ Q : Cardinality(Q) = QueueLimit
  BY <1>1, <1>2, <1>4, FirstsBounded
<1>7. dueInQ = Q \cap due
  BY <1>1, <1>6, DueByDays DEF dueInQ
<1>8. IsFiniteSet(dueInQ)
  BY <1>6, <1>7, FS_Subset
<1>9. /\ listed \subseteq dueInQ /\ Cardinality(listed) <= DueLimit
      /\ \A y \in dueInQ \ listed : Cardinality(listed) = DueLimit
  BY <1>2, <1>5, <1>8, FirstsBounded
<1>10. due \subseteq all /\ all \subseteq Problems
  BY <1>1
<1> HIDE DEF due
<1>11. ASSUME NEW p \in due \ listed
       PROVE  \/ Cardinality(listed) = DueLimit /\ listed \subseteq ahead(p)
              \/ Cardinality(ahead(p)) >= QueueLimit
  <2>1. \A q \in all : Score(q) \in Int
    BY <1>10, PriorityTyped
  <2>2. CASE p \in Q
    <3>1. p \in dueInQ \ listed /\ p \in all
      BY <1>7, <1>10, <2>2
    <3>2. listed \subseteq all /\ \A x \in listed : Score(x) >= Score(p)
      BY <1>5, <1>6, <1>7, <1>9, <2>1, <3>1
    <3> QED BY <1>9, <3>1, <3>2
  <2>3. CASE p \notin Q
    <3>1. p \in all \ Q
      BY <1>10, <2>3
    <3>2. Q \subseteq ahead(p)
      BY <1>4, <1>6, <2>1, <3>1
    <3>3. IsFiniteSet(ahead(p))
      BY <1>1, FS_Subset
    <3> HIDE DEF ahead
    <3>4. Cardinality(Q) <= Cardinality(ahead(p)) /\ Cardinality(Q) = QueueLimit
      BY <1>6, <3>1, <3>2, <3>3, FS_Subset
    <3>5. Cardinality(ahead(p)) \in Nat
      BY <3>3, FS_CardinalityType
    <3> QED BY <1>2, <3>4, <3>5
  <2> QED BY <2>2, <2>3
<1> QED BY <1>7, <1>9, <1>11

LEMMA AnalyticsPart ==
  DerivedSpec => \/ AnalyticsSpec
                 \/ [](part # "analytics")
<1>1. part # "analytics" /\ [DerivedNext]_<<derivedVars, part>>
        => (part # "analytics")'
  BY DEF DerivedNext
<1>2. part = "analytics" \/ part # "analytics"
  OBVIOUS
<1>3. DerivedSpec => (part = "analytics" => AnalyticsSpec)
  BY DerivedImplementsParts
<1>4. DerivedSpec => (part # "analytics" => [](part # "analytics"))
  BY <1>1, PTL DEF DerivedSpec
<1> QED BY <1>2, <1>3, <1>4

\* revision_service.py:207-211: what is listed had no row, import or review in the
\* last days, and what else had none comes after a full list, or after as many
\* problems as the queue holds, of at least its priority.
THEOREM NoneDueIsMissed == DerivedSpec => []NoneDueMissed
<1>1. DueInOrder => NoneDueMissed
  BY DEF NoneDueMissed
<1>2. part # "analytics" => NoneDueMissed
  BY DEF NoneDueMissed
<1> QED BY <1>1, <1>2, AnalyticsPart, AnalyticsTypeCorrect, NeverAhead, DueListed,
           PTL

\* The part of a priority that time and reviews leave alone, and the rest.
ScoreOfRows(p) ==
    14 * DifficultyScore(p)
      + 42 * AtMost(Cardinality(Of(p) \ AcceptedIn(Of(p))), 5)
      + (IF TopicsOf[p] \cap RevisionWeakTopics # {} THEN 56 ELSE 0)
ScoreOfDays(n, solved) ==
    5 * AtMost(n, 70) - (IF solved /\ n <= 3 THEN 21 * (4 - n) ELSE 0)

LEMMA ScoreOfRowsTyped ==
  ASSUME NEW p \in Problems
  PROVE  ScoreOfRows(p) \in Int
<1>1. Cardinality(Of(p) \ AcceptedIn(Of(p))) \in Nat
  BY StoredFinite DEF Of
<1>2. DifficultyScore(p) \in Nat
  BY DEF DifficultyScore
<1> QED BY <1>1, <1>2 DEF ScoreOfRows, AtMost

LEMMA ScoreGrowsWithDays ==
  ASSUME NEW m \in Nat, NEW n \in Nat, m <= n, NEW solved \in BOOLEAN
  PROVE  /\ ScoreOfDays(m, solved) \in Int /\ ScoreOfDays(n, solved) \in Int
         /\ ScoreOfDays(m, solved) <= ScoreOfDays(n, solved)
<1>1. AtMost(m, 70) \in Nat /\ AtMost(n, 70) \in Nat /\ AtMost(m, 70) <= AtMost(n, 70)
  BY DEF AtMost
<1>2. CASE solved /\ m <= 3 /\ n <= 3
  BY <1>1, <1>2 DEF ScoreOfDays
<1>3. CASE solved /\ m <= 3 /\ n > 3
  BY <1>1, <1>3 DEF ScoreOfDays
<1>4. CASE ~solved \/ (m > 3 /\ n > 3)
  BY <1>1, <1>4 DEF ScoreOfDays
<1> QED BY <1>2, <1>3, <1>4

\* revision_service.py:36-106: a review never raises a problem's priority, and a day
\* that passes never lowers one.
THEOREM RevisionIsMonotone == DerivedSpec => RevisionMonotone
<1>1. ASSUME AnalyticsTypeOK, AnalyticsTypeOK', NEW p \in Problems,
             MarkReviewed(p) \/ Midnight
      PROVE  /\ MarkReviewed(p) => Score(p)' <= Score(p)
             /\ Midnight /\ kept[p] > 0 => Score(p)' >= Score(p)
  <2> DEFINE solved == SolvedIn(Of(p)) # {}
  <2>0. UNCHANGED <<library, connected>>
    BY <1>1 DEF MarkReviewed, Midnight, libraryVars
  <2>1. Score(p) = ScoreOfRows(p) + ScoreOfDays(DaysSince(p), solved)
    <3>1. Cardinality(Of(p) \ AcceptedIn(Of(p))) \in Nat
      BY StoredFinite DEF Of
    <3>2. DifficultyScore(p) \in Nat
      BY DEF DifficultyScore
    <3>3. DaysSince(p) \in Nat
      BY <1>1, ActivityBounded
    <3> QED BY <3>1, <3>2, <3>3 DEF Score, ScoreOfRows, ScoreOfDays, AtMost
  <2>2. Stored' = Stored /\ Of(p)' = Of(p) /\ solved' = solved
        /\ AcceptedIn(Of(p))' = AcceptedIn(Of(p))
    BY <2>0 DEF Stored, Of, SolvedIn, ProblemsIn, AcceptedIn, Accepted
  <2>3. RevisionWeakTopics' = RevisionWeakTopics
    <3>1. \A q \in Problems : kept'[q] > 0 <=> kept[q] > 0
      BY <1>1 DEF MarkReviewed, Midnight, AnalyticsTypeOK
    <3>2. ScopedProblems(Nobody)' = ScopedProblems(Nobody)
      <4>1. /\ ProblemsIn(ScopeForAnalytics(Nobody))' =
                  ProblemsIn(ScopeForAnalytics(Nobody))
            /\ Providers' = Providers
        BY <2>0 DEF ScopeForAnalytics, OwnedBy, Providers, Stored, Owner, ProblemsIn
      <4> QED BY <3>1, <4>1 DEF ScopedProblems
    <3> QED BY <2>0, <3>2
            DEF RevisionWeakTopics, TopicStatistics, Tally, ScopeForAnalytics,
                OwnedBy, Providers, Stored, Owner, ProblemsIn, SolvedIn, AcceptedIn,
                Accepted
  <2>4. ScoreOfRows(p)' = ScoreOfRows(p)
    BY <2>2, <2>3 DEF ScoreOfRows, DifficultyScore
  <2>5. ASSUME DaysSince(p)' \in Nat
        PROVE  Score(p)' = ScoreOfRows(p) + ScoreOfDays(DaysSince(p)', solved)
    <3>1. Cardinality(Of(p)' \ AcceptedIn(Of(p))') \in Nat
      <4>1. Of(p) \ AcceptedIn(Of(p)) \in SUBSET Stored
        BY DEF Of
      <4> QED BY <2>2, <4>1, StoredFinite
    <3>2. DifficultyScore(p) \in Nat
      BY DEF DifficultyScore
    <3> QED BY <2>2, <2>4, <2>5, <3>1, <3>2
            DEF Score, ScoreOfRows, ScoreOfDays, AtMost
  <2>6. today \in Nat /\ kept \in [Problems -> Nat] /\ DaysSince(p) \in Nat
    BY <1>1, ActivityBounded DEF AnalyticsTypeOK
  <2>7. ASSUME MarkReviewed(p)
        PROVE  DaysSince(p)' \in Nat /\ DaysSince(p)' <= DaysSince(p)
    <3> DEFINE days == {today} \cup {library[r].day : r \in Of(p)}
    <3>1. LastActivity(p)' = Max(days) /\ today' = today
      <4>1. kept'[p] = today /\ today' = today
        BY <2>6, <2>7 DEF MarkReviewed
      <4> QED BY <2>0, <2>2, <4>1 DEF LastActivity
    <3>2. days \in SUBSET (0..MaxDay)
      BY <1>1, ActivityBounded, LibraryAssumption DEF AnalyticsTypeOK, ActiveOn
    <3>3. Max(days) \in Nat /\ today <= Max(days)
      <4> HIDE DEF days
      <4>1. today \in days
        BY DEF days
      <4>2. MaxDay \in Nat
        BY LibraryAssumption
      <4>3. Max(days) \in days /\ \A d \in days : d <= Max(days)
        BY <3>2, <4>1, <4>2, GreatestNumber
      <4>4. days \subseteq Nat
        BY <3>2, <4>2
      <4> QED BY <4>1, <4>3, <4>4
    <3>4. DaysSince(p)' = 0
      <4> HIDE DEF days
      <4> QED BY <2>6, <3>1, <3>3 DEF DaysSince
    <3> QED BY <2>6, <3>4
  <2>8. ASSUME Midnight
        PROVE  DaysSince(p)' \in Nat /\ DaysSince(p) <= DaysSince(p)'
    <3>1. LastActivity(p)' = LastActivity(p) /\ today' = today + 1
      BY <2>0, <2>2, <2>8 DEF Midnight, LastActivity
    <3>2. LastActivity(p) \in Nat
      BY <1>1, ActivityBounded
    <3> QED BY <2>6, <3>1, <3>2 DEF DaysSince
  <2> HIDE DEF solved
  <2>9. solved \in BOOLEAN /\ ScoreOfRows(p) \in Int
    BY ScoreOfRowsTyped DEF solved
  <2>10. ASSUME MarkReviewed(p) PROVE Score(p)' <= Score(p)
    BY <2>1, <2>5, <2>6, <2>7, <2>9, <2>10, ScoreGrowsWithDays
  <2>11. ASSUME Midnight PROVE Score(p)' >= Score(p)
    BY <2>1, <2>5, <2>6, <2>8, <2>9, <2>11, ScoreGrowsWithDays
  <2> QED BY <2>10, <2>11
<1> DEFINE Steps ==
      \A p \in Problems : /\ MarkReviewed(p) => Score(p)' <= Score(p)
                          /\ Midnight /\ kept[p] > 0 => Score(p)' >= Score(p)
<1>2. (part # "memory" => CollectiveTypeOK) /\ (part # "memory" => CollectiveTypeOK)'
      /\ [DerivedNext]_<<derivedVars, part>>
        => [Steps]_analyticsVars
  <2>1. UNCHANGED <<derivedVars, part>> => UNCHANGED analyticsVars
    BY DEF derivedVars
  <2>2. ASSUME part # "memory" => CollectiveTypeOK,
               (part # "memory" => CollectiveTypeOK)', DerivedNext
        PROVE  Steps \/ UNCHANGED analyticsVars
    <3>1. CASE part = "memory"
      BY <2>2, <3>1 DEF DerivedNext
    <3>2. CASE part # "memory"
      <4>1. part' # "memory"
        BY <2>2, <3>2 DEF DerivedNext
      <4>2. AnalyticsTypeOK /\ AnalyticsTypeOK'
        BY <2>2, <3>2, <4>1 DEF CollectiveTypeOK, LearningTypeOK
      <4> QED BY <1>1, <4>2
    <3> QED BY <3>1, <3>2
  <2> HIDE DEF Steps
  <2> QED BY <2>1, <2>2
<1> QED BY <1>2, CollectiveTypes, PTL DEF DerivedSpec, RevisionMonotone

-----------------------------------------------------------------------------
(* Streaks                                                                 *)

LEMMA NewestDay ==
  ASSUME NEW days \in SUBSET (1..MaxDay), days # {}
  PROVE  /\ Max(days) \in days /\ Max(days) \in Nat \ {0} /\ Max(days) <= MaxDay
         /\ \A d \in days : d <= Max(days)
<1>1. MaxDay \in Nat
  BY LibraryAssumption
<1>2. days \in SUBSET (0..MaxDay)
  BY <1>1
<1>3. Max(days) \in days /\ \A d \in days : d <= Max(days)
  BY <1>1, <1>2, GreatestNumber
<1>4. \A d \in days : d \in Nat \ {0} /\ d <= MaxDay
  BY <1>1
<1> QED BY <1>3, <1>4

\* The last day of the run that day d continues.
EndOfRun(days, d) == Min({e \in Nat : e >= d /\ e + 1 \notin days})

LEMMA RunEnds ==
  ASSUME NEW days \in SUBSET (1..MaxDay), NEW d \in Nat
  PROVE  /\ EndOfRun(days, d) \in Nat /\ d <= EndOfRun(days, d)
         /\ EndOfRun(days, d) + 1 \notin days
         /\ \A e \in d..EndOfRun(days, d) : e # d => e \in days
         /\ EndOfRun(days, d) =
                IF d + 1 \in days THEN EndOfRun(days, d + 1) ELSE d
<1> DEFINE ends(x) == {e \in Nat : e >= x /\ e + 1 \notin days}
<1>0. MaxDay \in Nat
  BY LibraryAssumption
<1>1. ASSUME NEW x \in Nat
      PROVE  /\ EndOfRun(days, x) \in ends(x)
             /\ \A e \in ends(x) : EndOfRun(days, x) <= e
  <2>1. MaxDay + x \in ends(x)
    BY <1>0
  <2>2. EndOfRun(days, x) = Min(ends(x)) /\ ends(x) \in SUBSET Nat
    BY DEF EndOfRun
  <2> HIDE DEF ends
  <2> QED BY <2>1, <2>2, LeastNumber
<1> DEFINE m == EndOfRun(days, d)
           n == EndOfRun(days, d + 1)
<1>2. /\ m \in Nat /\ m >= d /\ m + 1 \notin days
      /\ \A e \in Nat : e >= d /\ e + 1 \notin days => m <= e
  BY <1>1
<1>3. /\ n \in Nat /\ n >= d + 1 /\ n + 1 \notin days
      /\ \A e \in Nat : e >= d + 1 /\ e + 1 \notin days => n <= e
  BY <1>1
<1> HIDE DEF m, n
<1>4. ASSUME NEW e \in d..m, e # d PROVE e \in days
  <2>1. e - 1 \in Nat /\ e - 1 >= d /\ e - 1 < m /\ (e - 1) + 1 = e
    BY <1>2, <1>4
  <2> QED BY <1>2, <2>1
<1>5. m = IF d + 1 \in days THEN n ELSE d
  <2>1. CASE d + 1 \in days
    <3>1. m # d
      BY <1>2, <2>1
    <3>2. n <= m
      BY <1>2, <1>3, <3>1
    <3>3. m <= n
      BY <1>2, <1>3
    <3> QED BY <1>2, <1>3, <2>1, <3>2, <3>3
  <2>2. CASE d + 1 \notin days
    BY <1>2, <2>2
  <2> QED BY <2>1, <2>2
<1> QED BY <1>2, <1>4, <1>5 DEF m, n

\* The pass from the newest day to the oldest gives each day the length of what is
\* left of its run.
LEMMA RunsFound ==
  ASSUME NEW days \in SUBSET (1..MaxDay), NEW d \in 1..MaxDay
  PROVE  Runs(days)[d] = EndOfRun(days, d) - d + 1
<1> DEFINE Rec(run) ==
             run = [x \in 1..MaxDay |-> IF x + 1 \in days THEN run[x + 1] + 1 ELSE 1]
           f == [x \in 1..MaxDay |-> EndOfRun(days, x) - x + 1]
<1>0. MaxDay \in Nat
  BY LibraryAssumption
<1>1. \A x \in 1..MaxDay :
         f[x] = IF x + 1 \in days THEN f[x + 1] + 1 ELSE 1
  <2> TAKE x \in 1..MaxDay
  <2>1. x + 1 \in days => x + 1 \in 1..MaxDay
    OBVIOUS
  <2>2. x \in Nat /\ x + 1 \in Nat
    BY <1>0
  <2>3. EndOfRun(days, x) \in Nat /\ EndOfRun(days, x + 1) \in Nat
    BY <2>2, RunEnds
  <2>4. EndOfRun(days, x) = IF x + 1 \in days THEN EndOfRun(days, x + 1) ELSE x
    BY <2>2, RunEnds
  <2>5. x + 1 \in days => f[x + 1] = EndOfRun(days, x + 1) - (x + 1) + 1
    BY <2>1
  <2> QED BY <2>2, <2>3, <2>4, <2>5
<1>2. Rec(f)
  <2>1. f = [x \in 1..MaxDay |-> f[x]]
    OBVIOUS
  <2> HIDE DEF f
  <2> QED BY <1>1, <2>1
<1>3. Runs(days) = CHOOSE run : Rec(run)
  BY DEF Runs
<1> DEFINE g == Runs(days)
<1>4. Rec(g)
  <2> HIDE DEF Rec, f
  <2> QED BY <1>2, <1>3
<1> HIDE DEF g
<1>5. \A x \in 1..MaxDay : g[x] = IF x + 1 \in days THEN g[x + 1] + 1 ELSE 1
  BY <1>4
<1> HIDE DEF Rec
<1>6. ASSUME g[d] # f[d] PROVE FALSE
  <2> DEFINE S == {x \in 1..MaxDay : g[x] # f[x]}
  <2>1. S \in SUBSET (0..MaxDay) /\ S # {}
    BY <1>0, <1>6
  <2> HIDE DEF S
  <2>2. Max(S) \in S /\ \A x \in S : x <= Max(S)
    BY <1>0, <2>1, GreatestNumber
  <2> DEFINE x == Max(S)
  <2> HIDE DEF x
  <2>3. x \in 1..MaxDay /\ g[x] # f[x]
    BY <2>2 DEF S, x
  <2>4. x + 1 \in days
    BY <1>1, <1>5, <2>3
  <2>5. x + 1 \in 1..MaxDay
    BY <2>4
  <2>6. x + 1 \notin S
    <3>1. x \in Nat /\ \A y \in S : y <= x
      BY <2>2, <2>3 DEF x
    <3> QED BY <3>1
  <2>7. g[x + 1] = f[x + 1]
    BY <2>5, <2>6 DEF S
  <2> QED BY <1>1, <1>5, <2>3, <2>4, <2>7
<1> QED BY <1>6 DEF g

\* Days back from the newest, until one is missing.
Missing(days, i) == i >= Max(days) \/ Max(days) - i \notin days
FirstMissing(days, i) == Min({j \in Nat : j >= i /\ Missing(days, j)})

LEMMA FirstMissingFound ==
  ASSUME NEW days \in SUBSET (1..MaxDay), days # {}, NEW i \in Nat
  PROVE  /\ FirstMissing(days, i) \in Nat /\ i <= FirstMissing(days, i)
         /\ Missing(days, FirstMissing(days, i))
         /\ \A j \in Nat : i <= j /\ j < FirstMissing(days, i) => ~Missing(days, j)
         /\ FirstMissing(days, i) =
                IF Missing(days, i) THEN i ELSE FirstMissing(days, i + 1)
<1> DEFINE stops(x) == {j \in Nat : j >= x /\ Missing(days, j)}
<1>0. MaxDay \in Nat
  BY LibraryAssumption
<1>1. Max(days) \in Nat
  BY NewestDay
<1>2. ASSUME NEW x \in Nat
      PROVE  /\ FirstMissing(days, x) \in stops(x)
             /\ \A j \in stops(x) : FirstMissing(days, x) <= j
  <2>1. Max(days) + x \in stops(x)
    BY <1>1 DEF Missing
  <2>2. FirstMissing(days, x) = Min(stops(x)) /\ stops(x) \in SUBSET Nat
    BY DEF FirstMissing
  <2> HIDE DEF stops
  <2> QED BY <2>1, <2>2, LeastNumber
<1> DEFINE m == FirstMissing(days, i)
           n == FirstMissing(days, i + 1)
<1>3. /\ m \in Nat /\ m >= i /\ Missing(days, m)
      /\ \A j \in Nat : j >= i /\ Missing(days, j) => m <= j
  BY <1>2
<1>4. /\ n \in Nat /\ n >= i + 1 /\ Missing(days, n)
      /\ \A j \in Nat : j >= i + 1 /\ Missing(days, j) => n <= j
  BY <1>2
<1> HIDE DEF m, n
<1>5. m = IF Missing(days, i) THEN i ELSE n
  <2>1. CASE Missing(days, i)
    BY <1>3, <2>1
  <2>2. CASE ~Missing(days, i)
    <3>1. m # i
      BY <1>3, <2>2
    <3>2. n <= m
      BY <1>3, <1>4, <3>1
    <3>3. m <= n
      BY <1>3, <1>4
    <3> QED BY <1>3, <1>4, <2>2, <3>2, <3>3
  <2> QED BY <2>1, <2>2
<1>6. \A j \in Nat : i <= j /\ j < m => ~Missing(days, j)
  BY <1>3
<1> QED BY <1>3, <1>5, <1>6 DEF m, n

LEMMA CurrentStreakFound ==
  ASSUME NEW days \in SUBSET (1..MaxDay), days # {}
  PROVE  CurrentStreak(days) = FirstMissing(days, 0)
<1> DEFINE Rec(back) ==
             back = [i \in 0..MaxDay |->
                        IF i < Max(days) /\ Max(days) - i \in days
                          THEN back[i + 1] ELSE i]
           f == [i \in 0..MaxDay |-> FirstMissing(days, i)]
<1>0. MaxDay \in Nat
  BY LibraryAssumption
<1>1. Max(days) \in Nat /\ Max(days) <= MaxDay
  BY NewestDay
<1>2. \A i \in 0..MaxDay :
         ~Missing(days, i) <=> i < Max(days) /\ Max(days) - i \in days
  BY <1>1 DEF Missing
<1>3. \A i \in 0..MaxDay : ~Missing(days, i) => i + 1 \in 0..MaxDay
  BY <1>0, <1>1, <1>2
<1>4. \A i \in 0..MaxDay :
         f[i] = IF i < Max(days) /\ Max(days) - i \in days THEN f[i + 1] ELSE i
  <2> TAKE i \in 0..MaxDay
  <2>1. i \in Nat
    OBVIOUS
  <2>2. FirstMissing(days, i) =
          IF Missing(days, i) THEN i ELSE FirstMissing(days, i + 1)
    BY <2>1, FirstMissingFound
  <2>3. ~Missing(days, i) => f[i + 1] = FirstMissing(days, i + 1)
    BY <1>3
  <2> QED BY <1>2, <2>2, <2>3
<1>5. Rec(f)
  <2>1. f = [i \in 0..MaxDay |-> f[i]]
    OBVIOUS
  <2> HIDE DEF f
  <2> QED BY <1>4, <2>1
<1> DEFINE g == CHOOSE back : Rec(back)
<1>6. CurrentStreak(days) = g[0]
  BY DEF CurrentStreak
<1>7. Rec(g)
  <2> HIDE DEF Rec, f
  <2> QED BY <1>5
<1> HIDE DEF g
<1>8. \A i \in 0..MaxDay :
         g[i] = IF i < Max(days) /\ Max(days) - i \in days THEN g[i + 1] ELSE i
  BY <1>7
<1> HIDE DEF Rec
<1>9. ASSUME g[0] # f[0] PROVE FALSE
  <2> DEFINE S == {i \in 0..MaxDay : g[i] # f[i]}
  <2>1. S \in SUBSET (0..MaxDay) /\ S # {}
    BY <1>0, <1>9
  <2> HIDE DEF S
  <2>2. Max(S) \in S /\ \A i \in S : i <= Max(S)
    BY <1>0, <2>1, GreatestNumber
  <2> DEFINE i == Max(S)
  <2> HIDE DEF i
  <2>3. i \in 0..MaxDay /\ g[i] # f[i]
    BY <2>2 DEF S, i
  <2>4. i < Max(days) /\ Max(days) - i \in days
    BY <1>4, <1>8, <2>3
  <2>5. i + 1 \in 0..MaxDay
    BY <1>0, <1>1, <2>3, <2>4
  <2>6. i + 1 \notin S
    BY <1>0, <2>2, <2>3 DEF i
  <2>7. g[i + 1] = f[i + 1]
    BY <2>5, <2>6 DEF S
  <2> QED BY <1>4, <1>8, <2>3, <2>4, <2>7
<1> QED BY <1>0, <1>6, <1>9

LEMMA StreaksFound ==
  ASSUME NEW days \in SUBSET (1..MaxDay)
  PROVE  LET runs == {run \in days \X days : run[1] <= run[2]
                                         /\ run[1]..run[2] \subseteq days}
         IN  /\ \A run \in runs : run[2] - run[1] + 1 <= LongestStreak(days)
             /\ days # {} => \E run \in runs :
                    run[2] - run[1] + 1 = LongestStreak(days)
             /\ days # {} => \E run \in runs :
                    /\ run[2] = Max(days) /\ run[1] - 1 \notin days
                    /\ run[2] - run[1] + 1 = CurrentStreak(days)
<1> DEFINE runs == {run \in days \X days : run[1] <= run[2]
                                         /\ run[1]..run[2] \subseteq days}
           lengths == {Runs(days)[d] : d \in days}
<1>0. MaxDay \in Nat /\ days \subseteq Nat
  BY LibraryAssumption
<1>1. ASSUME NEW d \in days
      PROVE  /\ Runs(days)[d] = EndOfRun(days, d) - d + 1
             /\ Runs(days)[d] \in 0..MaxDay
             /\ EndOfRun(days, d) \in days /\ d <= EndOfRun(days, d)
             /\ d..EndOfRun(days, d) \subseteq days
  <2>1. d \in Nat /\ d \in 1..MaxDay
    BY <1>0
  <2>2. /\ EndOfRun(days, d) \in Nat /\ d <= EndOfRun(days, d)
        /\ \A e \in d..EndOfRun(days, d) : e # d => e \in days
    BY <2>1, RunEnds
  <2>3. EndOfRun(days, d) \in d..EndOfRun(days, d)
    BY <2>1, <2>2
  <2>4. EndOfRun(days, d) \in days
    BY <2>2, <2>3
  <2>5. EndOfRun(days, d) <= MaxDay
    <3>1. \A e \in days : e <= MaxDay
      BY <1>0
    <3> QED BY <2>4, <3>1
  <2>6. Runs(days)[d] = EndOfRun(days, d) - d + 1
    BY <2>1, RunsFound
  <2>7. Runs(days)[d] \in 0..MaxDay
    BY <1>0, <2>1, <2>2, <2>5, <2>6
  <2>8. d..EndOfRun(days, d) \subseteq days
    BY <2>2
  <2> QED BY <2>2, <2>4, <2>6, <2>7, <2>8
<1>2. days # {} => /\ LongestStreak(days) \in lengths
                   /\ \A n \in lengths : n <= LongestStreak(days)
  <2>1. lengths \in SUBSET (0..MaxDay)
    BY <1>1
  <2>2. days # {} => lengths # {}
    OBVIOUS
  <2>3. days # {} => LongestStreak(days) = Max(lengths)
    BY DEF LongestStreak
  <2> HIDE DEF lengths
  <2> QED BY <1>0, <2>1, <2>2, <2>3, GreatestNumber
<1>3. ASSUME NEW run \in runs PROVE run[2] - run[1] + 1 <= LongestStreak(days)
  <2> DEFINE d == run[1]
             e == run[2]
  <2>1. d \in days /\ e \in days /\ d <= e /\ d..e \subseteq days
    BY <1>3
  <2> HIDE DEF d, e
  <2>2. d \in Nat /\ e \in Nat /\ EndOfRun(days, d) \in Nat
    BY <1>0, <2>1, RunEnds
  <2>3. e <= EndOfRun(days, d)
    <3> SUFFICES ASSUME EndOfRun(days, d) < e PROVE FALSE
      BY <2>2
    <3>1. d <= EndOfRun(days, d) /\ EndOfRun(days, d) + 1 \notin days
      BY <2>2, RunEnds
    <3>2. EndOfRun(days, d) + 1 \in d..e
      BY <2>2, <3>1
    <3> QED BY <2>1, <3>1, <3>2
  <2>4. Runs(days)[d] = EndOfRun(days, d) - d + 1 /\ Runs(days)[d] \in Nat
    BY <1>0, <1>1, <2>1
  <2>5. Runs(days)[d] <= LongestStreak(days) /\ LongestStreak(days) \in Nat
    BY <1>0, <1>1, <1>2, <2>1
  <2> QED BY <2>2, <2>3, <2>4, <2>5 DEF d, e
<1>4. days # {} => \E run \in runs : run[2] - run[1] + 1 = LongestStreak(days)
  <2> SUFFICES ASSUME days # {} PROVE \E run \in runs :
                   run[2] - run[1] + 1 = LongestStreak(days)
    OBVIOUS
  <2>1. PICK d \in days : LongestStreak(days) = Runs(days)[d]
    BY <1>2
  <2> DEFINE run == <<d, EndOfRun(days, d)>>
  <2>2. run \in runs
    BY <1>1
  <2>3. run[2] - run[1] + 1 = LongestStreak(days)
    BY <1>1, <2>1
  <2> HIDE DEF runs, run
  <2> QED BY <2>2, <2>3
<1>5. days # {} => \E run \in runs :
         /\ run[2] = Max(days) /\ run[1] - 1 \notin days
         /\ run[2] - run[1] + 1 = CurrentStreak(days)
  <2> SUFFICES ASSUME days # {} PROVE \E run \in runs :
                   /\ run[2] = Max(days) /\ run[1] - 1 \notin days
                   /\ run[2] - run[1] + 1 = CurrentStreak(days)
    OBVIOUS
  <2> DEFINE m == Max(days)
             k == FirstMissing(days, 0)
  <2>1. m \in days /\ m \in Nat \ {0}
    BY NewestDay
  <2>2. /\ k \in Nat /\ Missing(days, k)
        /\ \A j \in Nat : j < k => ~Missing(days, j)
    BY FirstMissingFound
  <2>3. CurrentStreak(days) = k
    BY CurrentStreakFound
  <2>4. /\ Missing(days, k) <=> k >= m \/ m - k \notin days
        /\ \A j \in Nat : ~Missing(days, j) <=> ~(j >= m) /\ m - j \in days
    BY DEF Missing
  <2> DEFINE run == <<m - k + 1, m>>
  <2> HIDE DEF m, k
  <2>5. k > 0
    BY <2>1, <2>2, <2>4
  <2>6. k <= m
    BY <2>1, <2>2, <2>4
  <2>7. ASSUME NEW d \in (m - k + 1)..m PROVE d \in days
    <3>1. m - d \in Nat /\ m - d < k /\ m - (m - d) = d
      BY <2>1, <2>2, <2>6
    <3> QED BY <2>2, <2>4, <3>1
  <2>8. m - k \notin days
    <3>1. 0 \notin days
      OBVIOUS
    <3> QED BY <2>1, <2>2, <2>4, <2>6, <3>1
  <2>9. m - k + 1 \in days
    BY <2>1, <2>2, <2>5, <2>6, <2>7
  <2>10. run \in runs
    BY <2>1, <2>2, <2>5, <2>7, <2>9
  <2>11. run[2] = m /\ run[1] - 1 = m - k /\ run[2] - run[1] + 1 = k
    BY <2>1, <2>2
  <2> HIDE DEF runs, run
  <2> QED BY <2>3, <2>8, <2>10, <2>11 DEF m
<1> QED BY <1>3, <1>4, <1>5

\* analytics_service.py:573-592: the two passes over the active days find the longest
\* run of consecutive days and the one that ends at the newest, which is today's if
\* today is active.
THEOREM StreaksAreFound == DerivedSpec => []StreaksAreRuns
<1>1. AnalyticsTypeOK /\ NotAhead => StreaksCorrect
  <2> SUFFICES ASSUME AnalyticsTypeOK, NotAhead PROVE StreaksCorrect
    OBVIOUS
  <2> DEFINE days == ActiveDays(connected)
             runs == {run \in days \X days : run[1] <= run[2]
                                           /\ run[1]..run[2] \subseteq days}
             current(last) == \E run \in runs :
                 /\ run[2] = last /\ run[1] - 1 \notin days
                 /\ run[2] - run[1] + 1 = CurrentStreak(days)
  <2>1. days \in SUBSET (1..MaxDay)
    BY StoredTyped, OwnedStored DEF ActiveDays, SqlFilter, AnalyticsTypeOK, Submission
  <2>2. \A d \in days : d <= today
    BY OwnedStored DEF ActiveDays, SqlFilter, NotAhead
  <2>3. today \in Nat /\ MaxDay \in Nat
    BY LibraryAssumption DEF AnalyticsTypeOK
  <2> HIDE DEF days
  <2>4. today \in days => Max(days) = today
    <3>1. days \in SUBSET (0..MaxDay)
      BY <2>1
    <3>2. today \in days => Max(days) \in days /\ today <= Max(days)
      BY <2>3, <3>1, GreatestNumber
    <3>3. days \subseteq Nat
      BY <2>1, <2>3
    <3> DEFINE m == Max(days)
    <3> HIDE DEF m
    <3>4. today \in days => m \in Nat /\ m <= today /\ today <= m
      BY <2>2, <3>2, <3>3 DEF m
    <3>5. today \in days => m = today
      BY <2>3, <3>4
    <3> QED BY <3>5 DEF m
  <2>5. /\ \A run \in runs : run[2] - run[1] + 1 <= LongestStreak(days)
        /\ days # {} => \E run \in runs :
               run[2] - run[1] + 1 = LongestStreak(days)
        /\ days # {} => current(Max(days))
    BY <2>1, StreaksFound
  <2> HIDE DEF runs, current
  <2>6. today \in days => current(today)
    BY <2>4, <2>5
  <2> QED BY <2>5, <2>6, Zenon DEF StreaksCorrect, days, runs, current
<1>2. StreaksCorrect => StreaksAreRuns
  BY DEF StreaksAreRuns
<1>3. part # "analytics" => StreaksAreRuns
  BY DEF StreaksAreRuns
<1> QED BY <1>1, <1>2, <1>3, AnalyticsPart, AnalyticsTypeCorrect, NeverAhead, PTL

-----------------------------------------------------------------------------
(* Sums                                                                    *)

Chosen(s) == CHOOSE x \in s : TRUE

\* Disjoint parts of a finite set, and how many each has.
Counted(T, U, P, g) ==
    /\ IsFiniteSet(T) /\ IsFiniteSet(U)
    /\ P \in [T -> SUBSET U]
    /\ \A x, y \in T : x # y => P[x] \cap P[y] = {}
    /\ \A x \in T : g[x] = Cardinality(P[x])

Parts(P, s) == UNION {P[x] : x \in s}

\* What MapThenSumSet computes of T, for each of its subsets.
SumsUp(T, g, iter) ==
    \A s \in SUBSET T :
        iter[s] = IF s = {} THEN 0 ELSE g[Chosen(s)] + iter[s \ {Chosen(s)}]

LEMMA CardinalityOfParts ==
  ASSUME NEW T, NEW U, NEW P, NEW g, Counted(T, U, P, g), NEW s \in SUBSET T
  PROVE  /\ Cardinality(Parts(P, s)) \in Nat
         /\ Cardinality(Parts(P, s)) =
              IF s = {} THEN 0
              ELSE g[Chosen(s)] + Cardinality(Parts(P, s \ {Chosen(s)}))
<1> DEFINE x == Chosen(s)
           rest == Parts(P, s \ {x})
<1>1. \A t \in SUBSET T : Parts(P, t) \in SUBSET U /\ IsFiniteSet(Parts(P, t))
                           /\ Cardinality(Parts(P, t)) \in Nat
  <2> TAKE t \in SUBSET T
  <2>1. Parts(P, t) \in SUBSET U
    BY DEF Parts, Counted
  <2> QED BY <2>1, FS_Subset, FS_CardinalityType DEF Counted
<1>2. CASE s = {}
  <2>1. Parts(P, s) = {}
    BY <1>2 DEF Parts
  <2> QED BY <1>2, <2>1, FS_EmptySet
<1>3. CASE s # {}
  <2>1. x \in s /\ x \in T
    BY <1>3 DEF Chosen
  <2> HIDE DEF x
  <2>2. Parts(P, s) = P[x] \cup rest
    BY <2>1 DEF Parts
  <2>3. P[x] \cap rest = {}
    BY <2>1 DEF Parts, Counted
  <2>4. P[x] \in SUBSET U /\ IsFiniteSet(P[x]) /\ Cardinality(P[x]) = g[x]
    BY <2>1, FS_Subset DEF Counted
  <2>5. IsFiniteSet(rest) /\ Cardinality(rest) \in Nat /\ Cardinality(P[x]) \in Nat
    BY <1>1, <2>4, FS_CardinalityType
  <2> HIDE DEF rest
  <2>6. Cardinality(P[x] \cup rest) =
          Cardinality(P[x]) + Cardinality(rest) - Cardinality(P[x] \cap rest)
    BY <2>4, <2>5, FS_Union
  <2>7. Cardinality(P[x] \cap rest) = 0
    BY <2>3, FS_EmptySet
  <2>8. Cardinality(P[x] \cup rest) = Cardinality(P[x]) + Cardinality(rest)
    BY <2>5, <2>6, <2>7
  <2>9. Cardinality(Parts(P, s)) = g[x] + Cardinality(rest)
    BY <2>2, <2>4, <2>8
  <2> QED BY <1>1, <1>3, <2>9 DEF x, rest
<1> QED BY <1>2, <1>3

LEMMA SumExists ==
  ASSUME NEW T, NEW U, NEW P, NEW g, Counted(T, U, P, g)
  PROVE  SumsUp(T, g, [s \in SUBSET T |-> Cardinality(Parts(P, s))])
<1> DEFINE w == [s \in SUBSET T |-> Cardinality(Parts(P, s))]
<1>1. ASSUME NEW s \in SUBSET T
      PROVE  w[s] = IF s = {} THEN 0 ELSE g[Chosen(s)] + w[s \ {Chosen(s)}]
  <2>1. s \ {Chosen(s)} \in SUBSET T
    OBVIOUS
  <2>2. Cardinality(Parts(P, s)) =
          IF s = {} THEN 0
          ELSE g[Chosen(s)] + Cardinality(Parts(P, s \ {Chosen(s)}))
    BY CardinalityOfParts
  <2>3. w[s] = Cardinality(Parts(P, s))
        /\ w[s \ {Chosen(s)}] = Cardinality(Parts(P, s \ {Chosen(s)}))
    BY <2>1
  <2> HIDE DEF w
  <2> QED BY <2>2, <2>3
<1> HIDE DEF w
<1>2. SumsUp(T, g, w)
  BY <1>1 DEF SumsUp
<1> QED BY <1>2 DEF w

\* Summing up what parts have, in whatever order, gives what they have together.
LEMMA SumOfParts ==
  ASSUME NEW T, NEW U, NEW P, NEW g, Counted(T, U, P, g), NEW iter, SumsUp(T, g, iter)
  PROVE  iter[T] = Cardinality(Parts(P, T))
<1> DEFINE Bad(s) == s \in SUBSET T /\ iter[s] # Cardinality(Parts(P, s))
           sizes == {Cardinality(s) : s \in {t \in SUBSET T : Bad(t)}}
<1>1. \A s \in SUBSET T : IsFiniteSet(s) /\ Cardinality(s) \in Nat
  BY FS_Subset, FS_CardinalityType DEF Counted
<1>2. SUFFICES ASSUME sizes # {} PROVE FALSE
  OBVIOUS
<1>3. sizes \in SUBSET Nat
  BY <1>1
<1>4. Min(sizes) \in sizes /\ \A n \in sizes : Min(sizes) <= n
  <2> HIDE DEF sizes
  <2> QED BY <1>2, <1>3, LeastNumber
<1>5. PICK s \in SUBSET T : Bad(s) /\ \A t \in SUBSET T : Bad(t) =>
                                 Cardinality(s) <= Cardinality(t)
  BY <1>4
<1> DEFINE rest == s \ {Chosen(s)}
<1>6. s # {}
  BY <1>5, CardinalityOfParts DEF SumsUp
<1>7. Chosen(s) \in s
  BY <1>6 DEF Chosen
<1>8. Cardinality(rest) = Cardinality(s) - 1
  BY <1>1, <1>7, FS_RemoveElement
<1>9. ~Bad(rest)
  <2>1. rest \in SUBSET T /\ Cardinality(s) \in Nat
    BY <1>1
  <2> HIDE DEF rest, Bad
  <2> QED BY <1>5, <1>8, <2>1
<1>10. iter[rest] = Cardinality(Parts(P, rest))
  BY <1>9
<1> QED BY <1>5, <1>6, <1>10, CardinalityOfParts DEF SumsUp

LEMMA TotalSolved ==
  ASSUME NEW f, NEW U, NEW P,
         Counted(DOMAIN f, U, P, [x \in DOMAIN f |-> f[x].solved])
  PROVE  Total(f, LAMBDA s : s.solved) = Cardinality(Parts(P, DOMAIN f))
<1> DEFINE T == DOMAIN f
           g == [x \in T |-> f[x].solved]
           Rec(i) == i = [s \in SUBSET T |-> IF s = {} THEN 0
                            ELSE f[Chosen(s)].solved + i[s \ {Chosen(s)}]]
           w == [s \in SUBSET T |-> Cardinality(Parts(P, s))]
           iter == CHOOSE i : Rec(i)
<1>1. \A s \in SUBSET T : s # {} => g[Chosen(s)] = f[Chosen(s)].solved
  BY DEF Chosen
<1>2. Rec(w)
  <2>1. w = [s \in SUBSET T |-> w[s]] /\ SumsUp(T, g, w)
    BY SumExists
  <2> HIDE DEF w
  <2> QED BY <1>1, <2>1 DEF SumsUp
<1>3. Rec(iter)
  <2> HIDE DEF Rec, w
  <2> QED BY <1>2
<1>4. Total(f, LAMBDA s : s.solved) = iter[T]
  BY DEF Total, MapThenSumSet, MapThenFoldSet, Chosen
<1> HIDE DEF iter
<1>5. SumsUp(T, g, iter)
  BY <1>1, <1>3 DEF SumsUp
<1> HIDE DEF T, g, Rec, w
<1>6. iter[T] = Cardinality(Parts(P, T))
  BY <1>5, SumOfParts DEF T, g
<1> QED BY <1>4, <1>6 DEF T

LEMMA TotalSubmissions ==
  ASSUME NEW f, NEW U, NEW P,
         Counted(DOMAIN f, U, P, [x \in DOMAIN f |-> f[x].submissions])
  PROVE  Total(f, LAMBDA s : s.submissions) = Cardinality(Parts(P, DOMAIN f))
<1> DEFINE T == DOMAIN f
           g == [x \in T |-> f[x].submissions]
           Rec(i) == i = [s \in SUBSET T |-> IF s = {} THEN 0
                            ELSE f[Chosen(s)].submissions + i[s \ {Chosen(s)}]]
           w == [s \in SUBSET T |-> Cardinality(Parts(P, s))]
           iter == CHOOSE i : Rec(i)
<1>1. \A s \in SUBSET T : s # {} => g[Chosen(s)] = f[Chosen(s)].submissions
  BY DEF Chosen
<1>2. Rec(w)
  <2>1. w = [s \in SUBSET T |-> w[s]] /\ SumsUp(T, g, w)
    BY SumExists
  <2> HIDE DEF w
  <2> QED BY <1>1, <2>1 DEF SumsUp
<1>3. Rec(iter)
  <2> HIDE DEF Rec, w
  <2> QED BY <1>2
<1>4. Total(f, LAMBDA s : s.submissions) = iter[T]
  BY DEF Total, MapThenSumSet, MapThenFoldSet, Chosen
<1> HIDE DEF iter
<1>5. SumsUp(T, g, iter)
  BY <1>1, <1>3 DEF SumsUp
<1> HIDE DEF T, g, Rec, w
<1>6. iter[T] = Cardinality(Parts(P, T))
  BY <1>5, SumOfParts DEF T, g
<1> QED BY <1>4, <1>6 DEF T

LEMMA TotalAccepted ==
  ASSUME NEW f, NEW U, NEW P,
         Counted(DOMAIN f, U, P, [x \in DOMAIN f |-> f[x].accepted])
  PROVE  Total(f, LAMBDA s : s.accepted) = Cardinality(Parts(P, DOMAIN f))
<1> DEFINE T == DOMAIN f
           g == [x \in T |-> f[x].accepted]
           Rec(i) == i = [s \in SUBSET T |-> IF s = {} THEN 0
                            ELSE f[Chosen(s)].accepted + i[s \ {Chosen(s)}]]
           w == [s \in SUBSET T |-> Cardinality(Parts(P, s))]
           iter == CHOOSE i : Rec(i)
<1>1. \A s \in SUBSET T : s # {} => g[Chosen(s)] = f[Chosen(s)].accepted
  BY DEF Chosen
<1>2. Rec(w)
  <2>1. w = [s \in SUBSET T |-> w[s]] /\ SumsUp(T, g, w)
    BY SumExists
  <2> HIDE DEF w
  <2> QED BY <1>1, <2>1 DEF SumsUp
<1>3. Rec(iter)
  <2> HIDE DEF Rec, w
  <2> QED BY <1>2
<1>4. Total(f, LAMBDA s : s.accepted) = iter[T]
  BY DEF Total, MapThenSumSet, MapThenFoldSet, Chosen
<1> HIDE DEF iter
<1>5. SumsUp(T, g, iter)
  BY <1>1, <1>3 DEF SumsUp
<1> HIDE DEF T, g, Rec, w
<1>6. iter[T] = Cardinality(Parts(P, T))
  BY <1>5, SumOfParts DEF T, g
<1> QED BY <1>4, <1>6 DEF T

-----------------------------------------------------------------------------
(* What is counted twice                                                   *)

\* Whatever asks for an account counts the same rows.
LEMMA AccountRows ==
  ASSUME LibraryTypeOK, NEW a \in Accounts
  PROVE  /\ ScopeForAnalytics(a) = OwnedBy(a) /\ SqlFilter(a) = OwnedBy(a)
         /\ TimelineRows(a) = OwnedBy(a)
         /\ ScopedProblems(a) = ProblemsIn(OwnedBy(a))
         /\ OwnedBy(a) \in SUBSET Stored
         /\ \A r \in OwnedBy(a) : /\ ProblemOf(r) \in Problems
                                 /\ DifficultyOf[ProblemOf(r)] \in Difficulties
                                 /\ library[r].day \in 1..MaxDay
<1>1. a # Nobody
  BY LibraryAssumption DEF Owners
<1>2. ScopeForAnalytics(a) = OwnedBy(a) /\ SqlFilter(a) = OwnedBy(a)
  BY <1>1 DEF ScopeForAnalytics, SqlFilter
<1>3. TimelineRows(a) = OwnedBy(a)
  BY <1>2 DEF TimelineRows
<1>4. ScopedProblems(a) = ProblemsIn(OwnedBy(a))
  BY <1>1, <1>2 DEF ScopedProblems
<1>5. OwnedBy(a) \in SUBSET Stored
  BY OwnedStored
<1>6. ASSUME NEW r \in OwnedBy(a)
      PROVE  /\ ProblemOf(r) \in Problems
             /\ DifficultyOf[ProblemOf(r)] \in Difficulties
             /\ library[r].day \in 1..MaxDay
  <2>1. r \in Rows /\ library[r] \in Submission
    BY <1>5, StoredTyped
  <2> QED BY <2>1, RowParts, AnalyticsAssumption DEF Submission
<1> QED BY <1>2, <1>3, <1>4, <1>5, <1>6

LEMMA DifficultiesFinite == IsFiniteSet(Difficulties)
<1> DEFINE A == {} \cup {"Easy"}
           B == A \cup {"Medium"}
           C == B \cup {"Hard"}
           D == C \cup {"Unknown"}
<1>1. IsFiniteSet(A)
  BY FS_EmptySet, FS_AddElement
<1>2. IsFiniteSet(B)
  <2> HIDE DEF A
  <2> QED BY <1>1, FS_AddElement
<1>3. IsFiniteSet(C)
  <2> HIDE DEF B
  <2> QED BY <1>2, FS_AddElement
<1>4. IsFiniteSet(D)
  <2> HIDE DEF C
  <2> QED BY <1>3, FS_AddElement
<1>5. Difficulties = D
  BY DEF Difficulties
<1> QED BY <1>4, <1>5

LEMMA AcceptedStored ==
  ASSUME NEW R \in SUBSET Stored
  PROVE  /\ AcceptedIn(R) \in SUBSET R /\ SolvedIn(R) \in SUBSET ProblemsIn(R)
         /\ ProblemsIn(R) \in SUBSET Problems
         /\ IsFiniteSet(R) /\ IsFiniteSet(AcceptedIn(R))
         /\ IsFiniteSet(ProblemsIn(R)) /\ IsFiniteSet(SolvedIn(R))
<1>1. AcceptedIn(R) \in SUBSET R /\ SolvedIn(R) \in SUBSET ProblemsIn(R)
  BY DEF AcceptedIn, SolvedIn, ProblemsIn
<1>2. ProblemsIn(R) \in SUBSET Problems
  BY ProblemsInStored
<1> QED BY <1>1, <1>2, StoredFinite, ProblemsFinite

LEMMA SolvedByDifficulty ==
  ASSUME LibraryTypeOK, NEW a \in Accounts
  PROVE  Total(DifficultyStatistics(a), LAMBDA s : s.solved)
           = Cardinality(SolvedIn(OwnedBy(a)))
<1> DEFINE own == OwnedBy(a)
           f == DifficultyStatistics(a)
           Q(d) == {r \in own : DifficultyOf[ProblemOf(r)] = d}
           P == [d \in Difficulties |-> SolvedIn(Q(d))]
           g == [d \in DOMAIN f |-> f[d].solved]
<1>1. DOMAIN f = Difficulties
      /\ \A d \in Difficulties : f[d].solved = Cardinality(SolvedIn(Q(d)))
  BY AccountRows DEF DifficultyStatistics, Tally
<1>2. own \in SUBSET Stored
  BY AccountRows
<1>3. \A d \in Difficulties : SolvedIn(Q(d)) \in SUBSET Problems
  BY <1>2, AcceptedStored
<1>4. \A d \in Difficulties : \A p \in SolvedIn(Q(d)) : DifficultyOf[p] = d
  BY DEF SolvedIn, ProblemsIn, AcceptedIn
<1>5. Counted(Difficulties, Problems, P, g)
  <2> HIDE DEF f, Q
  <2> QED BY <1>1, <1>3, <1>4, DifficultiesFinite, LibraryAssumption DEF Counted
<1>6. Parts(P, Difficulties) = SolvedIn(own)
  <2>1. \A p : p \in SolvedIn(own) <=> \E d \in Difficulties : p \in SolvedIn(Q(d))
    BY AccountRows DEF SolvedIn, ProblemsIn, AcceptedIn
  <2> HIDE DEF own, Q
  <2> QED BY <2>1 DEF Parts
<1> HIDE DEF f, P
<1>7. Total(f, LAMBDA s : s.solved) = Cardinality(Parts(P, Difficulties))
  BY <1>1, <1>5, TotalSolved
<1> QED BY <1>6, <1>7 DEF f

LEMMA SubmissionsByDifficulty ==
  ASSUME LibraryTypeOK, NEW a \in Accounts
  PROVE  Total(DifficultyStatistics(a), LAMBDA s : s.submissions)
           = Cardinality(OwnedBy(a))
<1> DEFINE own == OwnedBy(a)
           f == DifficultyStatistics(a)
           Q(d) == {r \in own : DifficultyOf[ProblemOf(r)] = d}
           P == [d \in Difficulties |-> Q(d)]
           g == [d \in DOMAIN f |-> f[d].submissions]
<1>1. DOMAIN f = Difficulties
      /\ \A d \in Difficulties : f[d].submissions = Cardinality(Q(d))
  BY AccountRows DEF DifficultyStatistics, Tally
<1>2. own \in SUBSET Stored /\ IsFiniteSet(own)
  BY AccountRows, AcceptedStored
<1>3. Counted(Difficulties, own, P, g)
  <2> HIDE DEF f
  <2> QED BY <1>1, <1>2, DifficultiesFinite DEF Counted
<1>4. Parts(P, Difficulties) = own
  <2>1. \A r \in own : DifficultyOf[ProblemOf(r)] \in Difficulties
    BY AccountRows
  <2> HIDE DEF own
  <2> QED BY <2>1 DEF Parts
<1> HIDE DEF f, P
<1>5. Total(f, LAMBDA s : s.submissions) = Cardinality(Parts(P, Difficulties))
  BY <1>1, <1>3, TotalSubmissions
<1> QED BY <1>4, <1>5 DEF f

LEMMA AcceptedByDay ==
  ASSUME LibraryTypeOK, NEW a \in Accounts
  PROVE  Total(ProgressOverTime(a), LAMBDA s : s.accepted)
           = Cardinality(AcceptedIn(OwnedBy(a)))
<1> DEFINE own == OwnedBy(a)
           f == ProgressOverTime(a)
           T == 1..MaxDay
           Q(d) == {r \in own : library[r].day = d}
           P == [d \in T |-> AcceptedIn(Q(d))]
           g == [d \in DOMAIN f |-> f[d].accepted]
<1>1. DOMAIN f = T /\ \A d \in T : f[d].accepted = Cardinality(AcceptedIn(Q(d)))
  BY AccountRows DEF ProgressOverTime, Tally
<1>2. own \in SUBSET Stored /\ IsFiniteSet(own)
  BY AccountRows, AcceptedStored
<1>3. IsFiniteSet(T)
  BY LibraryAssumption, FS_Interval
<1>4. \A d \in T : /\ AcceptedIn(Q(d)) \in SUBSET own
                   /\ \A r \in AcceptedIn(Q(d)) : library[r].day = d
  BY DEF AcceptedIn
<1>5. Counted(T, own, P, g)
  <2> HIDE DEF f, Q, T
  <2> QED BY <1>1, <1>2, <1>3, <1>4 DEF Counted
<1>6. Parts(P, T) = AcceptedIn(own)
  <2>1. \A r : r \in AcceptedIn(own) <=> \E d \in T : r \in AcceptedIn(Q(d))
    BY AccountRows DEF AcceptedIn
  <2> HIDE DEF own, Q, T
  <2> QED BY <2>1 DEF Parts
<1> HIDE DEF f, P, T
<1>7. Total(f, LAMBDA s : s.accepted) = Cardinality(Parts(P, T))
  BY <1>1, <1>5, TotalAccepted
<1> QED BY <1>6, <1>7 DEF f

LEMMA SubmissionsInHeatmap ==
  ASSUME LibraryTypeOK, NEW a \in Accounts
  PROVE  Total(ActivityHeatmap(a), LAMBDA s : s.submissions)
           <= Cardinality(OwnedBy(a))
<1> DEFINE own == OwnedBy(a)
           f == ActivityHeatmap(a)
           T == {d \in 1..MaxDay : d + Window >= today}
           Q(d) == {r \in own : library[r].day = d}
           P == [d \in T |-> Q(d)]
           g == [d \in DOMAIN f |-> f[d].submissions]
<1>1. DOMAIN f = T /\ \A d \in T : f[d].submissions = Cardinality(Q(d))
  BY AccountRows DEF ActivityHeatmap, Tally
<1>2. own \in SUBSET Stored /\ IsFiniteSet(own)
  BY AccountRows, AcceptedStored
<1>3. IsFiniteSet(T)
  BY LibraryAssumption, FS_Interval, FS_Subset
<1>4. Counted(T, own, P, g)
  <2> HIDE DEF f, T
  <2> QED BY <1>1, <1>2, <1>3 DEF Counted
<1>5. Parts(P, T) \in SUBSET own
  <2> HIDE DEF T
  <2> QED BY DEF Parts
<1> HIDE DEF f, P, T, own
<1>6. Total(f, LAMBDA s : s.submissions) = Cardinality(Parts(P, T))
  BY <1>1, <1>4, TotalSubmissions
<1>7. Cardinality(Parts(P, T)) <= Cardinality(own)
  BY <1>2, <1>5, FS_Subset
<1> QED BY <1>6, <1>7 DEF f, own

\* A finite set in two parts.
LEMMA TwoParts ==
  ASSUME NEW A, NEW B, IsFiniteSet(A \cup B), A \cap B = {}
  PROVE  /\ Cardinality(A) \in Nat /\ Cardinality(B) \in Nat
         /\ Cardinality(A) + Cardinality(B) = Cardinality(A \cup B)
<1>1. IsFiniteSet(A) /\ IsFiniteSet(B)
  BY FS_Subset
<1>2. Cardinality(A) \in Nat /\ Cardinality(B) \in Nat
  BY <1>1, FS_CardinalityType
<1>3. Cardinality(A \cap B) = 0
  BY FS_EmptySet
<1>4. Cardinality(A \cup B)
        = Cardinality(A) + Cardinality(B) - Cardinality(A \cap B)
  BY <1>1, FS_Union
<1> QED BY <1>2, <1>3, <1>4

\* Solved problems took one attempt or several.
LEMMA SolvedInAttempts ==
  ASSUME LibraryTypeOK, NEW a \in Accounts
  PROVE  AttemptStatistics(a).single + AttemptStatistics(a).multiple
           = Cardinality(SolvedIn(OwnedBy(a)))
<1> DEFINE own == OwnedBy(a)
           tries(p) == Cardinality(AttemptsIn(own \cap Of(p)))
           single == {p \in SolvedIn(own) : tries(p) = 1}
           multiple == {p \in SolvedIn(own) : tries(p) > 1}
<1>1. /\ AttemptStatistics(a).single = Cardinality(single)
      /\ AttemptStatistics(a).multiple = Cardinality(multiple)
  BY AccountRows DEF AttemptStatistics
<1>2. own \in SUBSET Stored
  BY AccountRows
<1>3. ASSUME NEW p \in SolvedIn(own) PROVE tries(p) \in Nat /\ tries(p) # 0
  <2> DEFINE R == own \cap Of(p)
             F == [r \in R |-> AttemptOf(r)]
  <2>1. IsFiniteSet(R)
    BY <1>2, StoredFinite
  <2>2. F \in Surjection(R, AttemptsIn(R))
    BY DEF AttemptsIn, Surjection
  <2>3. R # {}
    BY <1>2 DEF SolvedIn, ProblemsIn, AcceptedIn, Of
  <2>4. AttemptsIn(R) # {}
    BY <2>3 DEF AttemptsIn
  <2>5. IsFiniteSet(AttemptsIn(R))
    <3> HIDE DEF F, R
    <3> QED BY <2>1, <2>2, FS_Surjection
  <2> QED BY <2>4, <2>5, FS_CardinalityType, FS_EmptySet
<1>4. single \cup multiple = SolvedIn(own) /\ single \cap multiple = {}
  <2> HIDE DEF tries
  <2> QED BY <1>3
<1>5. IsFiniteSet(single \cup multiple)
  BY <1>2, <1>4, AcceptedStored
<1> HIDE DEF single, multiple
<1> QED BY <1>1, <1>4, <1>5, TwoParts

\* An unsolved problem comes before a solved one.
LEMMA UnsolvedFirst ==
  ASSUME NEW s, NEW t, s.status = "Unsolved", t.status # "Unsolved"
  PROVE  Exceeds(Urgency(s), Urgency(t))
<1>1. Urgency(s)[1] = 1 /\ Urgency(t)[1] = 0
  BY DEF Urgency
<1>2. 1 \in DOMAIN Urgency(s)
  BY DEF Urgency
<1>3. \A j \in 1..(1 - 1) : Urgency(s)[j] = Urgency(t)[j]
  OBVIOUS
<1> QED BY <1>1, <1>2, <1>3 DEF Exceeds

\* The problems listed as struggles, and the unsolved ones of the account.
LEMMA StrugglesListed ==
  ASSUME LibraryTypeOK, NEW a \in Accounts,
         NEW listed \in StruggleProblems(a, StruggleLimit)
  PROVE  LET own == OwnedBy(a)
             U == ProblemsIn(own) \ SolvedIn(own)
         IN  /\ U \subseteq Struggles(a) /\ IsFiniteSet(Struggles(a))
             /\ DOMAIN listed \in
                  kSubset(AtMost(Cardinality(Struggles(a)), StruggleLimit), Struggles(a))
             /\ {p \in DOMAIN listed : listed[p].status = "Unsolved"}
                  = DOMAIN listed \cap U
             /\ U \subseteq DOMAIN listed \/ DOMAIN listed \subseteq U
<1> DEFINE own == OwnedBy(a)
           U == ProblemsIn(own) \ SolvedIn(own)
           S == Struggles(a)
           state(p) == Struggle(a, p)
<1>1. PICK T \in Firsts(S, StruggleLimit,
                LAMBDA p, q : Exceeds(Urgency(Struggle(a, p)), Urgency(Struggle(a, q)))) :
         listed = [p \in T |-> Struggle(a, p)]
  BY Zenon DEF StruggleProblems
<1>2. /\ T \in kSubset(AtMost(Cardinality(S), StruggleLimit), S)
      /\ \A x \in T, y \in S \ T : ~Exceeds(Urgency(state(y)), Urgency(state(x)))
  BY <1>1 DEF Firsts
<1>3. own \in SUBSET Stored
  BY AccountRows
<1>4. S \subseteq ProblemsIn(own)
  BY AccountRows DEF Struggles
<1>5. ASSUME NEW p \in ProblemsIn(own)
      PROVE  state(p).status = "Unsolved" <=> p \in U
  <2>1. state(p).status = "Unsolved" <=> AcceptedIn(own \cap Of(p)) = {}
    BY AccountRows DEF Struggle
  <2>2. AcceptedIn(own \cap Of(p)) = {} <=> p \notin SolvedIn(own)
    BY <1>3 DEF AcceptedIn, SolvedIn, ProblemsIn, Of
  <2> HIDE DEF state
  <2> QED BY <2>1, <2>2
<1>6. U \subseteq S
  <2>1. \A p \in U : p \in ScopedProblems(a)
    BY AccountRows
  <2> HIDE DEF own
  <2> QED BY <1>5, <2>1 DEF Struggles
<1>7. IsFiniteSet(S)
  <2>1. IsFiniteSet(ProblemsIn(own))
    BY <1>3, AcceptedStored
  <2> HIDE DEF S
  <2> QED BY <1>4, <2>1, FS_Subset
<1>8. DOMAIN listed = T /\ \A p \in T : listed[p] = state(p)
  BY <1>1
<1> HIDE DEF own, U, S, state
<1>9. T \subseteq S
  BY <1>2 DEF kSubset
<1>10. {p \in DOMAIN listed : listed[p].status = "Unsolved"} = T \cap U
  BY <1>4, <1>5, <1>8, <1>9
<1>11. U \subseteq T \/ T \subseteq U
  <2> SUFFICES ASSUME NEW y \in U \ T, NEW x \in T \ U PROVE FALSE
    OBVIOUS
  <2>1. state(y).status = "Unsolved" /\ state(x).status # "Unsolved"
    BY <1>4, <1>5, <1>6, <1>9
  <2>2. Exceeds(Urgency(state(y)), Urgency(state(x)))
    BY <2>1, UnsolvedFirst
  <2> QED BY <1>2, <1>6, <2>2
<1> QED BY <1>2, <1>6, <1>7, <1>8, <1>10, <1>11 DEF own, U, S

\* Of the account's unsolved problems, the list shows as many as it has room for.
LEMMA UnsolvedStruggles ==
  ASSUME LibraryTypeOK, NEW a \in Accounts,
         NEW listed \in StruggleProblems(a, StruggleLimit)
  PROVE  LET unsolved == {p \in DOMAIN listed : listed[p].status = "Unsolved"}
             U == ProblemsIn(OwnedBy(a)) \ SolvedIn(OwnedBy(a))
         IN  /\ unsolved \subseteq U
             /\ Cardinality(unsolved) = AtMost(Cardinality(U), StruggleLimit)
<1> DEFINE U == ProblemsIn(OwnedBy(a)) \ SolvedIn(OwnedBy(a))
           T == DOMAIN listed
           S == Struggles(a)
           unsolved == {p \in T : listed[p].status = "Unsolved"}
<1>1. /\ U \subseteq S /\ IsFiniteSet(S)
      /\ T \in kSubset(AtMost(Cardinality(S), StruggleLimit), S)
      /\ unsolved = T \cap U
      /\ U \subseteq T \/ T \subseteq U
  BY StrugglesListed
<1> HIDE DEF U, T, S, unsolved
<1>2. StruggleLimit \in Nat
  BY AnalyticsAssumption
<1>3. /\ T \subseteq S /\ IsFiniteSet(T)
      /\ Cardinality(T) = AtMost(Cardinality(S), StruggleLimit)
      /\ Cardinality(T) \in Nat /\ Cardinality(T) <= StruggleLimit
  BY <1>1, <1>2, FirstsBounded
<1>4. IsFiniteSet(U) /\ Cardinality(U) \in Nat /\ Cardinality(S) \in Nat
      /\ Cardinality(U) <= Cardinality(S)
  BY <1>1, FS_Subset, FS_CardinalityType
<1>5. CASE U \subseteq T
  <2>1. unsolved = U
    BY <1>1, <1>5
  <2>2. Cardinality(U) <= Cardinality(T)
    BY <1>3, <1>5, FS_Subset
  <2>3. Cardinality(U) = AtMost(Cardinality(U), StruggleLimit)
    BY <1>2, <1>3, <1>4, <2>2 DEF AtMost
  <2> QED BY <2>1, <2>3 DEF U, T, unsolved
<1>6. CASE T \subseteq U
  <2>1. unsolved = T
    BY <1>1, <1>6
  <2>2. Cardinality(T) <= Cardinality(U)
    BY <1>4, <1>6, FS_Subset
  <2>3. Cardinality(T) = AtMost(Cardinality(U), StruggleLimit)
    BY <1>2, <1>3, <1>4, <2>2 DEF AtMost
  <2> QED BY <1>6, <2>1, <2>3 DEF U, T, unsolved
<1> QED BY <1>1, <1>5, <1>6

LEMMA CountTagged ==
  ASSUME NEW S, IsFiniteSet(S), NEW tag
  PROVE  /\ IsFiniteSet({<<tag, x>> : x \in S})
         /\ Cardinality({<<tag, x>> : x \in S}) = Cardinality(S)
<1> DEFINE T == {<<tag, x>> : x \in S}
           F == [x \in S |-> <<tag, x>>]
<1>1. F \in Surjection(S, T)
  BY DEF Surjection
<1>2. F \in Injection(S, T)
  BY DEF Injection, IsInjective
<1> HIDE DEF F, T
<1>3. IsFiniteSet(T) /\ Cardinality(T) = Cardinality(S)
  BY <1>1, <1>2, FS_Surjection
<1> QED BY <1>3 DEF T

\* Three finite sets, disjoint.
LEMMA ThreeParts ==
  ASSUME NEW A, NEW B, NEW C, IsFiniteSet(A), IsFiniteSet(B), IsFiniteSet(C),
         A \cap B = {}, A \cap C = {}, B \cap C = {}
  PROVE  /\ IsFiniteSet(A \cup B \cup C)
         /\ Cardinality(A \cup B \cup C)
              = Cardinality(A) + Cardinality(B) + Cardinality(C)
<1> DEFINE D == A \cup B
<1>1. IsFiniteSet(D)
  BY FS_Union
<1>2. Cardinality(D) = Cardinality(A) + Cardinality(B)
  BY <1>1, TwoParts
<1>3. D \cap C = {}
  OBVIOUS
<1> HIDE DEF D
<1>4. IsFiniteSet(D \cup C)
  BY <1>1, FS_Union
<1>5. Cardinality(D) + Cardinality(C) = Cardinality(D \cup C)
  BY <1>3, <1>4, TwoParts
<1> QED BY <1>2, <1>4, <1>5 DEF D

\* A timeline has two events for each problem tried, and one for each solved, as far
\* as it has room.
LEMMA EventsCounted ==
  ASSUME LibraryTypeOK, NEW a \in Accounts,
         NEW events \in TimelineEvents(a, TimelineLimit)
  PROVE  LET tried == Cardinality(ProblemsIn(OwnedBy(a)))
             solved == Cardinality(SolvedIn(OwnedBy(a)))
         IN  /\ Cardinality(events) = AtMost(2 * tried + solved, TimelineLimit)
             /\ Cardinality(events) < TimelineLimit =>
                  /\ Cardinality({e \in events : e[1] = "solved"}) = solved
                  /\ Cardinality({e \in events : e[1] = "attempted"}) = tried
<1> DEFINE own == OwnedBy(a)
           S == SolvedIn(own)
           P == ProblemsIn(own)
           A == {<<"attempted", p>> : p \in P}
           B == {<<"solved", p>> : p \in S}
           C == {<<"imported", p>> : p \in P}
           all == A \cup B \cup C
<1>1. Events(a) = all
  BY AccountRows DEF Events
<1>2. IsFiniteSet(S) /\ IsFiniteSet(P)
  BY AccountRows, AcceptedStored
<1>3. events \in kSubset(AtMost(Cardinality(Events(a)), TimelineLimit), Events(a))
  BY DEF TimelineEvents, Firsts
<1> HIDE DEF S, P
<1>4. A \cap B = {} /\ A \cap C = {} /\ B \cap C = {}
  OBVIOUS
<1>5. /\ IsFiniteSet(A) /\ Cardinality(A) = Cardinality(P)
      /\ IsFiniteSet(B) /\ Cardinality(B) = Cardinality(S)
      /\ IsFiniteSet(C) /\ Cardinality(C) = Cardinality(P)
  BY <1>2, CountTagged
<1>6. {e \in all : e[1] = "solved"} = B /\ {e \in all : e[1] = "attempted"} = A
  OBVIOUS
<1> HIDE DEF A, B, C
<1>7. /\ IsFiniteSet(all)
      /\ Cardinality(all) = Cardinality(A) + Cardinality(B) + Cardinality(C)
  BY <1>4, <1>5, ThreeParts
<1> HIDE DEF all
<1>8. Cardinality(P) \in Nat /\ Cardinality(S) \in Nat
  BY <1>2, FS_CardinalityType
<1>9. Cardinality(all) = 2 * Cardinality(P) + Cardinality(S)
  BY <1>5, <1>7, <1>8
<1>10. /\ Cardinality(events) = AtMost(Cardinality(all), TimelineLimit)
       /\ Cardinality(events) < TimelineLimit => events = all
  BY <1>1, <1>3, <1>7, AnalyticsAssumption, FirstsBounded
<1> QED BY <1>5, <1>6, <1>9, <1>10 DEF S, P

\* A problem with rows has a first attempt.
LEMMA FirstAttemptExists ==
  ASSUME NEW R \in SUBSET Stored, NEW p \in ProblemsIn(R)
  PROVE  FirstAttempt(R, p) # {} /\ FirstAttempt(R, p) \subseteq R \cap Of(p)
<1> DEFINE rows == R \cap Of(p)
           numbers == {r[2] : r \in rows}
<1>1. \A r \in rows : r[2] \in Nat
  BY LibraryAssumption DEF Stored
<1>2. rows # {}
  BY DEF ProblemsIn, Of
<1>3. numbers \in SUBSET Nat /\ numbers # {}
  BY <1>1, <1>2
<1>4. Min(numbers) \in numbers
  <2> HIDE DEF numbers
  <2> QED BY <1>3, LeastNumber
<1>5. FirstAttempt(R, p) = {r \in rows : r[2] = Min(numbers)}
  BY DEF FirstAttempt
<1>6. PICK r \in rows : r[2] = Min(numbers)
  BY <1>4
<1> HIDE DEF numbers
<1> QED BY <1>5, <1>6

\* A problem solved at first is not one whose first attempt failed.
LEMMA SolvedAtOnceOrNot ==
  ASSUME LibraryTypeOK, NEW a \in Accounts
  PROVE  /\ BruteForceFirst(a) \subseteq Struggles(a)
         /\ Overview(a).atOnce + Cardinality(BruteForceFirst(a))
              = Cardinality(SolvedIn(OwnedBy(a)))
<1> DEFINE own == OwnedBy(a)
           atOnce == {p \in SolvedIn(own) : AcceptedIn(FirstAttempt(own, p)) # {}}
           later == {p \in SolvedIn(own) : AcceptedIn(FirstAttempt(own, p)) = {}}
<1>1. own \in SUBSET Stored
  BY AccountRows
<1>2. BruteForceFirst(a) = later
  BY AccountRows DEF BruteForceFirst
<1>3. Overview(a).atOnce = Cardinality(atOnce)
  BY AccountRows DEF Overview
<1>4. atOnce \cup later = SolvedIn(own) /\ atOnce \cap later = {}
  OBVIOUS
<1>5. IsFiniteSet(SolvedIn(own)) /\ SolvedIn(own) \subseteq ProblemsIn(own)
  BY <1>1, AcceptedStored
<1>6. ASSUME NEW p \in later PROVE p \in Struggles(a)
  <2>1. p \in ProblemsIn(own)
    BY <1>5
  <2>2. PICK r \in FirstAttempt(own, p) : r \in own \cap Of(p)
    BY <1>1, <2>1, FirstAttemptExists
  <2>3. ~Accepted(r)
    BY <2>2 DEF AcceptedIn
  <2> DEFINE failed == (own \cap Of(p)) \ AcceptedIn(own \cap Of(p))
  <2>4. failed # {} /\ failed \in SUBSET Stored
    BY <1>1, <2>2, <2>3 DEF AcceptedIn
  <2>5. Struggle(a, p).failed = Cardinality(failed)
    BY AccountRows DEF Struggle
  <2>6. p \in ScopedProblems(a)
    BY <2>1, AccountRows
  <2> HIDE DEF failed
  <2>7. Cardinality(failed) > 0
    BY <2>4, StoredFinite
  <2> QED BY <2>5, <2>6, <2>7 DEF Struggles
<1> HIDE DEF atOnce, later
<1>7. Cardinality(atOnce) + Cardinality(later) = Cardinality(SolvedIn(own))
  BY <1>4, <1>5, TwoParts
<1> QED BY <1>2, <1>3, <1>6, <1>7

\* A set of rows that is not empty has a newest one.
LEMMA LatestExists ==
  ASSUME LibraryTypeOK, NEW R \in SUBSET Stored, R # {}
  PROVE  LatestIn(R) # {}
<1> DEFINE days == {library[r].day : r \in R}
<1>1. days \in SUBSET (1..MaxDay) /\ days # {}
  BY StoredTyped DEF Submission
<1>2. Max(days) \in days /\ \A d \in days : d <= Max(days)
  <2> HIDE DEF days
  <2> QED BY <1>1, NewestDay
<1>3. PICK r \in R : library[r].day = Max(days)
  BY <1>2
<1>4. \A q \in R : library[q].day <= library[r].day
  BY <1>2, <1>3
<1> HIDE DEF days
<1> QED BY <1>4 DEF LatestIn

LEMMA UnsolvedFound ==
  ASSUME LibraryTypeOK, NEW a \in Accounts, Stored = OwnedBy(a)
  PROVE  LET found == Search(PhraseFilter("unsolved"))
             rowless == {p \in Problems : Of(p) = {}}
         IN  /\ found \ rowless = ProblemsIn(OwnedBy(a)) \ SolvedIn(OwnedBy(a))
             /\ rowless \subseteq found
<1> DEFINE f == PhraseFilter("unsolved")
<1>1. /\ f.solved = FALSE /\ f.topic = Unset /\ f.status = Unset /\ f.from = Unset
      /\ FALSE # Unset
  BY ViewsAssumption DEF PhraseFilter, Statuses
<1> HIDE DEF f
<1>2. \A p \in Problems : Matches(p, f) <=> LatestAccepted(Of(p)) = {}
  BY <1>1 DEF Matches
<1>3. ASSUME NEW p \in Problems
      PROVE  LatestAccepted(Of(p)) = {} <=> AcceptedIn(Of(p)) = {}
  <2>1. AcceptedIn(Of(p)) \in SUBSET Stored
    BY DEF AcceptedIn, Of
  <2>2. LatestAccepted(Of(p)) = LatestIn(AcceptedIn(Of(p)))
    BY DEF LatestAccepted, AcceptedIn
  <2>3. LatestIn({}) = {}
    BY DEF LatestIn
  <2> QED BY <2>1, <2>2, <2>3, LatestExists
<1>4. \A p \in Problems : AcceptedIn(Of(p)) = {} <=> p \notin SolvedIn(Stored)
  BY DEF SolvedIn, ProblemsIn, AcceptedIn, Of
<1>5. \A p \in Problems : Of(p) = {} <=> p \notin ProblemsIn(Stored)
  BY DEF ProblemsIn, Of
<1>6. SolvedIn(Stored) \subseteq ProblemsIn(Stored)
      /\ ProblemsIn(Stored) \subseteq Problems
  BY AcceptedStored
<1>7. Search(f) = Problems \ SolvedIn(Stored)
  BY <1>2, <1>3, <1>4 DEF Search
<1> QED BY <1>5, <1>6, <1>7 DEF f

\* analytics_service.py, search_service.py: what is counted twice is the same,
\* however it is counted, and the lists say what their cuts leave room for.
THEOREM CountsDoAgree == DerivedSpec => []CountsAgree
<1>1. ASSUME LibraryTypeOK, NEW a \in Accounts PROVE TotalsAgree(a) /\ ListsAgree(a)
  <2> DEFINE own == OwnedBy(a)
             o == Overview(a)
  <2>1. /\ o.problems = Cardinality(ProblemsIn(own))
        /\ o.submissions = Cardinality(own)
        /\ o.accepted = Cardinality(AcceptedIn(own))
        /\ o.solved = Cardinality(SolvedIn(own))
        /\ o.unsolved = Cardinality(ProblemsIn(own)) - Cardinality(SolvedIn(own))
    BY <1>1, AccountRows DEF Overview
  <2>2. LanguageTotals(a).accepted = Cardinality(AcceptedIn(own))
    BY <1>1, AccountRows DEF LanguageTotals, Tally
  <2>3. o.unsolved = Cardinality(ProblemsIn(own) \ SolvedIn(own))
    <3> DEFINE A == ProblemsIn(own) \ SolvedIn(own)
               B == SolvedIn(own)
               whole == ProblemsIn(own)
    <3>1. B \subseteq whole /\ IsFiniteSet(whole)
      BY <1>1, AccountRows, AcceptedStored
    <3>2. A \cup B = whole /\ A \cap B = {}
      BY <3>1
    <3> HIDE DEF A, B, whole, own, o
    <3>3. /\ Cardinality(A) \in Nat /\ Cardinality(B) \in Nat
          /\ Cardinality(A) + Cardinality(B) = Cardinality(whole)
      BY <3>1, <3>2, TwoParts
    <3>4. Cardinality(A) = Cardinality(whole) - Cardinality(B)
      BY <3>3
    <3> QED BY <2>1, <3>4 DEF A, B, whole
  <2> HIDE DEF own, o
  <2>4. Total(DifficultyStatistics(a), LAMBDA s : s.solved) = o.solved
    BY <1>1, <2>1, SolvedByDifficulty DEF own
  <2>5. Total(DifficultyStatistics(a), LAMBDA s : s.submissions) = o.submissions
    BY <1>1, <2>1, SubmissionsByDifficulty DEF own
  <2>6. Total(ProgressOverTime(a), LAMBDA s : s.accepted) = o.accepted
    BY <1>1, <2>1, AcceptedByDay DEF own
  <2>7. Total(ActivityHeatmap(a), LAMBDA s : s.submissions) <= o.submissions
    BY <1>1, <2>1, SubmissionsInHeatmap DEF own
  <2>8. AttemptStatistics(a).single + AttemptStatistics(a).multiple = o.solved
    BY <1>1, <2>1, SolvedInAttempts DEF own
  <2>9. o.atOnce + Cardinality(BruteForceFirst(a)) = o.solved
    BY <1>1, <2>1, SolvedAtOnceOrNot DEF own, o
  <2>10. TotalsAgree(a)
    BY <2>1, <2>2, <2>4, <2>5, <2>6, <2>7, <2>8, <2>9 DEF TotalsAgree, o
  <2>11. ASSUME NEW listed \in StruggleProblems(a, StruggleLimit)
         PROVE  /\ Cardinality({p \in DOMAIN listed : listed[p].status = "Unsolved"})
                     = AtMost(o.unsolved, StruggleLimit)
                /\ \/ BruteForceFirst(a) \subseteq DOMAIN listed
                   \/ Cardinality(DOMAIN listed) = StruggleLimit
    <3>1. Cardinality({p \in DOMAIN listed : listed[p].status = "Unsolved"})
            = AtMost(o.unsolved, StruggleLimit)
      BY <1>1, <2>3, UnsolvedStruggles DEF own
    <3> DEFINE S == Struggles(a)
               T == DOMAIN listed
    <3>2. /\ IsFiniteSet(S)
          /\ T \in kSubset(AtMost(Cardinality(S), StruggleLimit), S)
      BY <1>1, StrugglesListed
    <3>3. BruteForceFirst(a) \subseteq S
      BY <1>1, SolvedAtOnceOrNot
    <3> HIDE DEF S, T
    <3>4. \A y \in S \ T : Cardinality(T) = StruggleLimit
      BY <3>2, AnalyticsAssumption, FirstsBounded
    <3>5. BruteForceFirst(a) \subseteq T \/ Cardinality(T) = StruggleLimit
      BY <3>3, <3>4
    <3> QED BY <3>1, <3>5 DEF T
  <2>12. ASSUME NEW events \in TimelineEvents(a, TimelineLimit)
         PROVE  /\ Cardinality(events)
                     = AtMost(2 * o.problems + o.solved, TimelineLimit)
                /\ Cardinality(events) < TimelineLimit =>
                     /\ Cardinality({e \in events : e[1] = "solved"}) = o.solved
                     /\ Cardinality({e \in events : e[1] = "attempted"}) = o.problems
    BY <1>1, <2>1, EventsCounted DEF own
  <2>13. ListsAgree(a)
    BY <2>11, <2>12, Zenon DEF ListsAgree, o
  <2> QED BY <2>10, <2>13
<1>2. AnalyticsTypeOK => AnalyticsAgree
  BY <1>1 DEF AnalyticsAgree, AnalyticsTypeOK
<1>3. AnalyticsTypeOK => UnsolvedAgree
  <2> SUFFICES ASSUME LibraryTypeOK, NEW a \in Accounts, Stored = OwnedBy(a),
                      NEW listed \in StruggleProblems(a, StruggleLimit)
               PROVE  LET found == Search(PhraseFilter("unsolved"))
                          rowless == {p \in Problems : Of(p) = {}}
                          unsolved == {p \in DOMAIN listed :
                                           listed[p].status = "Unsolved"}
                      IN  /\ unsolved \subseteq found \ rowless
                          /\ rowless \subseteq found
                          /\ Cardinality(unsolved)
                               = AtMost(Cardinality(found \ rowless), StruggleLimit)
    BY Zenon DEF UnsolvedAgree, AnalyticsTypeOK
  <2> QED BY UnsolvedStruggles, UnsolvedFound
<1>4. AnalyticsAgree /\ UnsolvedAgree => CountsAgree
  BY DEF CountsAgree
<1>5. part # "analytics" => CountsAgree
  BY DEF CountsAgree
<1> QED BY <1>2, <1>3, <1>4, <1>5, AnalyticsPart, AnalyticsTypeCorrect, PTL
=============================================================================
