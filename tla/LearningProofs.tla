---------------------------- MODULE LearningProofs ----------------------------
(*****************************************************************************)
(* Proofs about the learning engine: for any history, catalogue and limits,  *)
(* recommendations leave nothing better out and roadmaps pass the validator. *)
(*****************************************************************************)
EXTENDS DerivedProofs

-----------------------------------------------------------------------------
(* Folds and sorted lists                                                    *)

\* What holds at 0 and of a number's successor holds up to n.
LEMMA Upwards ==
  ASSUME NEW n \in Nat, NEW G, 0 \in G, \A m \in 0..n : m \in G /\ m < n => m + 1 \in G
  PROVE  \A m \in 0..n : m \in G
<1> DEFINE bad == {m \in 0..n : m \notin G}
<1>1. SUFFICES ASSUME bad # {} PROVE FALSE
  OBVIOUS
<1>2. bad \in SUBSET Nat
  OBVIOUS
<1>3. Min(bad) \in bad /\ \A m \in bad : Min(bad) <= m
  <2> HIDE DEF bad
  <2> QED BY <1>1, <1>2, LeastNumber
<1>4. PICK m \in bad : \A k \in bad : m <= k
  BY <1>3
<1>5. m \in 1..n /\ m - 1 \in 0..n /\ m - 1 \notin bad
  BY <1>4
<1> QED BY <1>4, <1>5

\* What FoldLeft computes of the first elements of a sequence, and how far.
Folds(n, base, h, w) ==
    \A s \in SUBSET (1..n) :
        w[s] = IF s = {} THEN base ELSE h[w[s \ {Max(s)}], Max(s)]

LEMMA FoldExtends ==
  ASSUME NEW n \in Nat, NEW N \in Nat, n < N, NEW V, NEW base \in V,
         NEW h \in [V \X (1..N) -> V],
         NEW w \in [SUBSET (1..n) -> V], Folds(n, base, h, w)
  PROVE  \E x \in [SUBSET (1..(n + 1)) -> V] : Folds(n + 1, base, h, x)
<1> DEFINE k == n + 1
           x == [s \in SUBSET (1..k) |->
                    IF k \in s THEN h[w[s \ {k}], k] ELSE w[s]]
<1>1. \A s \in SUBSET (1..k) : s \ {k} \in SUBSET (1..n) /\ (k \notin s => s = s \ {k})
  OBVIOUS
<1>2. k \in 1..N
  OBVIOUS
<1>3. x \in [SUBSET (1..k) -> V]
  BY <1>1, <1>2
<1>4. ASSUME NEW s \in SUBSET (1..k)
      PROVE  x[s] = IF s = {} THEN base ELSE h[x[s \ {Max(s)}], Max(s)]
  <2>1. CASE k \in s
    <3>1. Max(s) = k
      <4>1. k \in Nat /\ s \in SUBSET (0..k) /\ s # {}
        BY <2>1
      <4>2. Max(s) \in s /\ \A m \in s : m <= Max(s)
        <5> HIDE DEF k
        <5> QED BY <4>1, GreatestNumber
      <4>3. Max(s) \in 1..k /\ k <= Max(s)
        BY <2>1, <4>2
      <4> QED BY <4>3
    <3>2. s \ {k} \in SUBSET (1..k) /\ k \notin s \ {k}
      OBVIOUS
    <3>3. x[s \ {k}] = w[s \ {k}]
      BY <3>2
    <3>4. x[s] = h[w[s \ {k}], k]
      BY <2>1, s \in SUBSET (1..k)
    <3> HIDE DEF x, k
    <3> QED BY <2>1, <3>1, <3>3, <3>4
  <2>2. CASE k \notin s /\ s # {}
    <3>1. s \in SUBSET (1..n) /\ n \in Nat /\ s \in SUBSET (0..n)
      BY <1>1, <2>2
    <3>2. Max(s) \in s
      BY <2>2, <3>1, GreatestNumber
    <3>3. s \ {Max(s)} \in SUBSET (1..k) /\ k \notin s \ {Max(s)}
      BY <2>2
    <3>4. x[s \ {Max(s)}] = w[s \ {Max(s)}] /\ x[s] = w[s]
      BY <2>2, <3>3
    <3> HIDE DEF x, k
    <3> QED BY <2>2, <3>1, <3>4 DEF Folds
  <2>3. CASE s = {}
    <3>1. x[s] = w[s] /\ s \in SUBSET (1..n)
      BY <2>3
    <3> HIDE DEF x, k
    <3> QED BY <2>3, <3>1 DEF Folds
  <2> QED BY <2>1, <2>2, <2>3
<1> HIDE DEF x
<1>5. Folds(k, base, h, x)
  BY <1>4 DEF Folds
<1> QED BY <1>3, <1>5

LEMMA FoldExists ==
  ASSUME NEW n \in Nat, NEW V, NEW base \in V, NEW h \in [V \X (1..n) -> V]
  PROVE  \E w \in [SUBSET (1..n) -> V] : Folds(n, base, h, w)
<1> DEFINE G == {m \in 0..n : \E w \in [SUBSET (1..m) -> V] : Folds(m, base, h, w)}
<1>1. 0 \in G
  <2> DEFINE w == [s \in SUBSET (1..0) |-> base]
  <2>1. w \in [SUBSET (1..0) -> V]
    OBVIOUS
  <2>2. \A s \in SUBSET (1..0) : s = {} /\ w[s] = base
    OBVIOUS
  <2> HIDE DEF w
  <2>3. Folds(0, base, h, w)
    BY <2>2 DEF Folds
  <2>4. 0 \in 0..n
    OBVIOUS
  <2> QED BY <2>1, <2>3, <2>4
<1>2. ASSUME NEW m \in 0..n, m \in G, m < n PROVE m + 1 \in G
  <2>1. PICK w \in [SUBSET (1..m) -> V] : Folds(m, base, h, w)
    BY <1>2
  <2>2. m \in Nat /\ m + 1 \in 0..n
    BY <1>2
  <2>3. \E x \in [SUBSET (1..(m + 1)) -> V] : Folds(m + 1, base, h, x)
    BY <1>2, <2>1, <2>2, FoldExtends
  <2> QED BY <2>2, <2>3
<1> HIDE DEF G
<1>3. n \in G
  BY <1>1, <1>2, Upwards
<1> QED BY <1>3 DEF G

\* The elements before the k-th, as FoldLeft takes them.
LEMMA FirstNumbers ==
  ASSUME NEW n \in Nat, NEW k \in 1..n
  PROVE  /\ 1..k \in SUBSET (1..n) /\ 1..k # {}
         /\ (1..k) \ {k} = 1..(k - 1)
         /\ Max(1..k) = k
<1>1. 1..k \in SUBSET (1..n) /\ k \in 1..k /\ k \in Nat /\ 1..k \in SUBSET (0..k)
  OBVIOUS
<1>2. Max(1..k) \in 1..k /\ \A m \in 1..k : m <= Max(1..k)
  BY <1>1, GreatestNumber
<1>3. Max(1..k) = k
  BY <1>1, <1>2
<1>4. (1..k) \ {k} = 1..(k - 1)
  OBVIOUS
<1> QED BY <1>1, <1>3, <1>4

\* Counting those before an element gives each its place in a list of them.
StrictOrder(S, B) ==
    /\ \A c \in S : <<c, c>> \notin B
    /\ \A c, d, e \in S : <<c, d>> \in B /\ <<d, e>> \in B => <<c, e>> \in B
    /\ \A c, d \in S : c # d => <<c, d>> \in B \/ <<d, c>> \in B

LEMMA PlacesDiffer ==
  ASSUME NEW S, IsFiniteSet(S), NEW B, StrictOrder(S, B),
         NEW place, place = [c \in S |-> 1 + Cardinality({d \in S : <<d, c>> \in B})]
  PROVE  place \in Bijection(S, 1..Cardinality(S))
<1> DEFINE ahead(c) == {d \in S : <<d, c>> \in B}
           n == Cardinality(S)
<1>1. n \in Nat
  BY FS_CardinalityType
<1>2. ASSUME NEW c \in S
      PROVE  /\ IsFiniteSet(ahead(c)) /\ Cardinality(ahead(c)) \in Nat
             /\ place[c] = 1 + Cardinality(ahead(c))
             /\ place[c] \in Nat /\ place[c] >= 1
             /\ Cardinality(ahead(c) \cup {c}) = place[c]
  <2>1. ahead(c) \in SUBSET S /\ c \notin ahead(c)
    BY DEF StrictOrder
  <2>2. place[c] = 1 + Cardinality(ahead(c))
    OBVIOUS
  <2> HIDE DEF ahead
  <2>3. IsFiniteSet(ahead(c)) /\ Cardinality(ahead(c)) \in Nat
    BY <2>1, FS_Subset, FS_CardinalityType
  <2>4. Cardinality(ahead(c) \cup {c}) = Cardinality(ahead(c)) + 1
    BY <2>1, <2>3, FS_AddElement
  <2>5. place[c] \in Nat /\ place[c] >= 1
    BY <2>2, <2>3
  <2> QED BY <2>2, <2>3, <2>4, <2>5
<1>3. ASSUME NEW c \in S PROVE place[c] \in 1..n
  <2>1. ahead(c) \cup {c} \in SUBSET S
    OBVIOUS
  <2> HIDE DEF ahead
  <2>2. place[c] \in Nat /\ place[c] >= 1
    BY <1>2
  <2>3. Cardinality(ahead(c) \cup {c}) <= n
    BY <2>1, FS_Subset
  <2> QED BY <1>1, <1>2, <2>2, <2>3
<1>4. ASSUME NEW c \in S, NEW d \in S, <<c, d>> \in B PROVE place[c] < place[d]
  <2>1. ahead(c) \cup {c} \in SUBSET ahead(d)
    BY <1>4 DEF StrictOrder
  <2> HIDE DEF ahead
  <2>2. Cardinality(ahead(c) \cup {c}) <= Cardinality(ahead(d))
    BY <1>2, <2>1, FS_Subset
  <2>3. Cardinality(ahead(c) \cup {c}) = place[c] /\ place[c] \in Nat
        /\ place[d] = 1 + Cardinality(ahead(d)) /\ Cardinality(ahead(d)) \in Nat
    BY <1>2
  <2> QED BY <2>2, <2>3
<1>5. place \in Injection(S, 1..n)
  <2>1. place \in [S -> 1..n]
    BY <1>3
  <2>2. ASSUME NEW c \in S, NEW d \in S, place[c] = place[d] PROVE c = d
    <3>1. place[c] \in Nat
      BY <1>3
    <3>2. c # d => place[c] < place[d] \/ place[d] < place[c]
      BY <1>4 DEF StrictOrder
    <3> QED BY <2>2, <3>1, <3>2
  <2> QED BY <2>1, <2>2 DEF Injection, IsInjective
<1>6. IsFiniteSet(1..n) /\ Cardinality(1..n) = n
  BY <1>1, FS_Interval
<1>7. place \in Surjection(S, 1..n)
  <2> HIDE DEF n
  <2> QED BY <1>5, <1>6, FS_Injection DEF n
<1> QED BY <1>5, <1>7 DEF Bijection

\* What a recommendation or a phase of the roadmap ranks candidates for.
SeedTyped(seed) ==
    /\ seed.patterns \subseteq Patterns /\ seed.targets \subseteq Patterns
    /\ seed.topics \subseteq Topics /\ seed.weak \subseteq Topics

LEMMA PatternsForTopics ==
  ASSUME NEW T \in SUBSET Topics
  PROVE  PatternsFor(T) \in SUBSET Patterns
BY LearningAssumption DEF PatternsFor

LEMMA Counts ==
  ASSUME NEW P, P \in SUBSET Patterns \/ P \in SUBSET Topics
                 \/ P \in SUBSET Families \/ P \in SUBSET Structures
  PROVE  Cardinality(P) \in Nat
<1>1. IsFiniteSet(Patterns) /\ IsFiniteSet(Topics)
  BY LearningAssumption
<1>2. IsFiniteSet(Families) /\ IsFiniteSet(Structures)
  <2>1. IsFiniteSet(SUBSET Patterns)
    BY <1>1, FS_SUBSET
  <2> QED BY <2>1, FS_Subset, LearningAssumption
<1> QED BY <1>1, <1>2, FS_Subset, FS_CardinalityType

LEMMA ShareTyped ==
  ASSUME NEW weight \in Nat, NEW shared \in Nat, NEW total \in Nat
  PROVE  (IF total = 0 THEN 0 ELSE AtMost(weight, (weight * shared) \div total)) \in Nat
<1>1. weight * shared \in Nat
  OBVIOUS
<1>2. CASE total # 0
  <2>1. (weight * shared) \div total \in Nat
    BY <1>1, <1>2
  <2> QED BY <2>1 DEF AtMost
<1> QED BY <1>2

LEMMA ScoreTyped ==
  ASSUME NEW c \in Candidate, NEW seed, SeedTyped(seed)
  PROVE  Score120(c, seed) \in Nat
<1> DEFINE ps == CandidatePatterns(c)
           portion(weight, shared, total) ==
               IF total = 0 THEN 0
               ELSE AtMost(weight, (weight * shared) \div total)
           share(weight, have, want) ==
               portion(weight, Cardinality(have \cap want), Cardinality(want))
           step == Band[c.difficulty] - seed.ceiling
           fit == CASE Band[c.difficulty] < 0 -> 36
                    [] Band[c.difficulty] >= 0 /\ step = 0 -> 120
                    [] Band[c.difficulty] >= 0 /\ step = 1 -> 108
                    [] Band[c.difficulty] >= 0 /\ step < 0 -> 48
                    [] OTHER -> 12
           progress ==
               CASE ps \cap seed.strengths # {}
                    /\ ps \cap (seed.practised \ seed.strengths) = {} -> 108
                 [] ps # {} /\ ps \cap seed.practised = {} -> 180
                 [] ps \cap (seed.practised \ seed.strengths) # {} -> 54
                 [] OTHER -> 36
           aims == seed.targets \cup seed.patterns
           a1 == share(360, ps, seed.patterns)
           a2 == share(180, Touched(Families, ps), Touched(Families, seed.patterns))
           a3 == share(120, c.topics, seed.topics)
           a4 == share(120, Touched(Structures, ps), Touched(Structures, seed.patterns))
           a5 == portion(240, Cardinality(ps \cap aims)
                               + Cardinality(c.topics \cap seed.weak),
                      Cardinality(aims) + Cardinality(seed.weak))
<1>1. ps \in SUBSET Patterns /\ c.topics \in SUBSET Topics
  BY PatternsForTopics DEF Candidate, CandidatePatterns
<1> HIDE DEF ps
<1>2. fit \in Nat
  <2> HIDE DEF step
  <2> QED OBVIOUS
<1>3. progress \in Nat
  OBVIOUS
<1>4. a1 \in Nat
  <2>1. Cardinality(ps \cap seed.patterns) \in Nat /\ Cardinality(seed.patterns) \in Nat
    BY <1>1, Counts DEF SeedTyped
  <2> QED BY <2>1, ShareTyped
<1>5. a2 \in Nat
  <2>1. /\ Cardinality(Touched(Families, ps) \cap Touched(Families, seed.patterns)) \in Nat
        /\ Cardinality(Touched(Families, seed.patterns)) \in Nat
    BY Counts DEF Touched
  <2> QED BY <2>1, ShareTyped
<1>6. a3 \in Nat
  <2>1. Cardinality(c.topics \cap seed.topics) \in Nat /\ Cardinality(seed.topics) \in Nat
    BY <1>1, Counts DEF SeedTyped
  <2> QED BY <2>1, ShareTyped
<1>7. a4 \in Nat
  <2>1. /\ Cardinality(Touched(Structures, ps) \cap Touched(Structures, seed.patterns))
             \in Nat
        /\ Cardinality(Touched(Structures, seed.patterns)) \in Nat
    BY Counts DEF Touched
  <2> QED BY <2>1, ShareTyped
<1>8. a5 \in Nat
  <2>1. Cardinality(ps \cap aims) \in Nat /\ Cardinality(aims) \in Nat
        /\ Cardinality(c.topics \cap seed.weak) \in Nat /\ Cardinality(seed.weak) \in Nat
    BY <1>1, Counts DEF SeedTyped
  <2> HIDE DEF aims
  <2>2. Cardinality(ps \cap aims) + Cardinality(c.topics \cap seed.weak) \in Nat
        /\ Cardinality(aims) + Cardinality(seed.weak) \in Nat
    BY <2>1
  <2> QED BY <2>2, ShareTyped
<1>9. Score120(c, seed) = a1 + a2 + a3 + a4 + a5 + fit + progress
  BY DEF Score120, ps
<1> HIDE DEF a1, a2, a3, a4, a5, fit, progress
<1> QED BY <1>2, <1>3, <1>4, <1>5, <1>6, <1>7, <1>8, <1>9

\* Titles that differ make a ranking a list of all the candidates, each once.
LEMMA RankingListsAll ==
  ASSUME NEW S \in SUBSET Candidate, IsFiniteSet(S),
         \A c, d \in S : c.title = d.title => c = d,
         NEW seed, SeedTyped(seed)
  PROVE  LET R == Ranked(S, seed)
         IN  /\ R \in [1..Cardinality(S) -> S] /\ IsInjective(R)
             /\ \A c \in S : \E i \in 1..Cardinality(S) : R[i] = c
<1> DEFINE score == [c \in S |-> Score120(c, seed)]
           before(c, d) ==
               \/ score[c] > score[d]
               \/ score[c] = score[d] /\ c.local /\ ~d.local
               \/ score[c] = score[d] /\ c.local = d.local /\ c.title < d.title
           place == [c \in S |-> 1 + Cardinality({d \in S : before(d, c)})]
           n == Cardinality(S)
           R == [i \in 1..n |-> CHOOSE c \in S : place[c] = i]
           B == {p \in S \X S : before(p[1], p[2])}
<1>1. Ranked(S, seed) = R
  BY DEF Ranked
<1>2. \A c \in S : score[c] \in Nat /\ c.local \in BOOLEAN /\ c.title \in Nat
  BY ScoreTyped DEF Candidate
<1> HIDE DEF score
<1>3. StrictOrder(S, B)
  <2>1. \A c, d \in S : <<c, d>> \in B <=> before(c, d)
    OBVIOUS
  <2> HIDE DEF B
  <2>2. \A c \in S : ~before(c, c)
    BY <1>2
  <2>3. \A c, d, e \in S : before(c, d) /\ before(d, e) => before(c, e)
    BY <1>2
  <2>4. \A c, d \in S : c # d => before(c, d) \/ before(d, c)
    BY <1>2
  <2> HIDE DEF before
  <2> QED BY <2>1, <2>2, <2>3, <2>4 DEF StrictOrder
<1>4. place \in Bijection(S, 1..n)
  <2>1. \A c \in S : {d \in S : <<d, c>> \in B} = {d \in S : before(d, c)}
    OBVIOUS
  <2> HIDE DEF B, before
  <2>2. place = [c \in S |-> 1 + Cardinality({d \in S : <<d, c>> \in B})]
    BY <2>1
  <2> HIDE DEF place
  <2> QED BY <1>3, <2>2, PlacesDiffer
<1> HIDE DEF place
<1>5. \A i \in 1..n : \E c \in S : place[c] = i
  BY <1>4 DEF Bijection, Surjection
<1>6. \A c \in S : place[c] \in 1..n
  BY <1>4 DEF Bijection, Surjection
<1>7. \A c, d \in S : place[c] = place[d] => c = d
  BY <1>4 DEF Bijection, Injection, IsInjective
<1> HIDE DEF n
<1>8. \A i \in 1..n : R[i] \in S /\ place[R[i]] = i
  BY <1>5
<1>9. R \in [1..n -> S]
  BY <1>8
<1> HIDE DEF R
<1>10. IsInjective(R)
  BY <1>8, <1>9 DEF IsInjective
<1>11. \A c \in S : R[place[c]] = c
  BY <1>6, <1>7, <1>8
<1> QED BY <1>1, <1>6, <1>9, <1>10, <1>11 DEF n

-----------------------------------------------------------------------------
(* Candidates and recommendations                                            *)

LEMMA LocalCandidates ==
  ASSUME LibraryTypeOK
  PROVE  /\ Local \in SUBSET Candidate /\ IsFiniteSet(Local)
         /\ \A c \in Local : c.local /\ c.key \in Problems /\ c.title = TitleOf[c.key]
         /\ \A c, d \in Local : c.key = d.key => c = d
<1> DEFINE as(p) == [key |-> p, title |-> TitleOf[p], topics |-> TopicsOf[p],
                     difficulty |-> DifficultyOf[p], local |-> TRUE]
           P == ProblemsIn(Stored)
           F == [p \in P |-> as(p)]
<1>1. P \in SUBSET Problems /\ IsFiniteSet(P)
  BY ProblemsInStored, ProblemsFinite
<1> HIDE DEF P
<1>2. Local = {as(p) : p \in P}
  BY DEF Local, P
<1>3. \A p \in P : as(p) \in Candidate
  BY <1>1, LearningAssumption, AnalyticsAssumption, LibraryAssumption DEF Candidate
<1>4. F \in Surjection(P, Local)
  BY <1>2 DEF Surjection
<1>5. IsFiniteSet(Local)
  <2> HIDE DEF F
  <2> QED BY <1>1, <1>4, FS_Surjection
<1>6. ASSUME NEW c \in Local
      PROVE  c.local /\ c.key \in P /\ c = as(c.key)
  <2>1. PICK p \in P : c = as(p)
    BY <1>2
  <2> QED BY <2>1
<1>7. \A c \in Local : c.title = TitleOf[c.key]
  BY <1>6
<1>8. \A c, d \in Local : c.key = d.key => c = d
  <2> HIDE DEF as
  <2> QED BY <1>6
<1>9. Local \in SUBSET Candidate
  <2> HIDE DEF as
  <2> QED BY <1>2, <1>3
<1> QED BY <1>1, <1>5, <1>6, <1>7, <1>8, <1>9

\* filter_candidates lets through every title once, and no problem that is solved.
LEMMA PoolIsFit ==
  ASSUME LearningTypeOK, NEW profile
  PROVE  /\ Pool(profile) \in SUBSET Candidate /\ IsFiniteSet(Pool(profile))
         /\ \A c \in Pool(profile) : c.key \notin profile.solved
         /\ \A c, d \in Pool(profile) : c.title = d.title \/ c.key = d.key => c = d
<1> DEFINE listed == IF memo = NoList THEN {} ELSE memo
<1>1. listed \in SUBSET Published
  BY DEF LearningTypeOK
<1>2. /\ Published \in SUBSET Candidate /\ IsFiniteSet(Published)
      /\ \A c, d \in Published : c.key = d.key \/ c.title = d.title => c = d
      /\ \A c \in Published : ~c.local
  BY LearningAssumption
<1>3. /\ Local \in SUBSET Candidate /\ IsFiniteSet(Local)
      /\ \A c \in Local : c.local /\ c.key \in Problems /\ c.title = TitleOf[c.key]
      /\ \A c, d \in Local : c.key = d.key => c = d
  BY LocalCandidates DEF LearningTypeOK, AnalyticsTypeOK
<1>4. Merged \in SUBSET (Local \cup listed)
      /\ \A c \in Merged : c \in Local \/ (c \in listed /\ \A d \in Local : d.key # c.key)
  BY DEF Merged
<1>5. /\ Pool(profile) \in SUBSET Merged
      /\ \A c \in Pool(profile) : c.key \notin profile.solved
      /\ \A c \in Pool(profile) :
             c.local \/ \A d \in Pool(profile) : d.local => d.title # c.title
  BY DEF Pool
<1> HIDE DEF listed
<1>6. IsFiniteSet(Pool(profile))
  <2>1. IsFiniteSet(Local \cup listed)
    <3>1. IsFiniteSet(listed)
      BY <1>1, <1>2, FS_Subset
    <3> QED BY <1>3, <3>1, FS_Union
  <2> QED BY <1>4, <1>5, <2>1, FS_Subset
<1>7. ASSUME NEW c \in Pool(profile), NEW d \in Pool(profile),
             c.title = d.title \/ c.key = d.key
      PROVE  c = d
  <2>1. CASE c \in Local /\ d \in Local
    BY <1>3, <1>7, <2>1, LearningAssumption DEF IsInjective
  <2>2. CASE c \in Local /\ d \in listed
    BY <1>1, <1>2, <1>3, <1>4, <1>5, <1>7, <2>2
  <2>3. CASE c \in listed /\ d \in Local
    BY <1>1, <1>2, <1>3, <1>4, <1>5, <1>7, <2>3
  <2>4. CASE c \in listed /\ d \in listed
    BY <1>1, <1>2, <1>7, <2>4
  <2> QED BY <1>4, <1>5, <2>1, <2>2, <2>3, <2>4
<1> QED BY <1>1, <1>2, <1>3, <1>4, <1>5, <1>6, <1>7

LEMMA SeedTopicsTyped ==
  ASSUME LibraryTypeOK, NEW account
  PROVE  SeedTopics(Profile(account)) \in SUBSET Topics
<1> DEFINE R == ScopeForAnalytics(account)
           last == LatestAccepted(R)
           seed == IF last = {} THEN Unset ELSE ProblemOf(CHOOSE r \in last : TRUE)
<1>1. R \in SUBSET Stored
  BY ScopeStored
<1> HIDE DEF R
<1>2. last \in SUBSET Stored
  BY <1>1 DEF LatestAccepted, LatestIn
<1>3. \A r \in Stored : ProblemOf(r) \in Problems
  BY RowParts DEF Stored
<1>4. seed = Unset \/ seed \in Problems
  <2> HIDE DEF last
  <2> QED BY <1>2, <1>3
<1>5. Profile(account).seed = seed
  BY DEF Profile, R
<1> HIDE DEF seed
<1> QED BY <1>4, <1>5, LibraryAssumption DEF SeedTopics

LEMMA ProfileTyped ==
  ASSUME LibraryTypeOK, NEW account
  PROVE  /\ Profile(account).weakTopics \in SUBSET Topics
         /\ Profile(account).gaps \in SUBSET Patterns
         /\ Profile(account).practised \in SUBSET Patterns
         /\ Profile(account).solved = SolvedIn(ScopeForAnalytics(account))
<1> DEFINE R == ScopeForAnalytics(account)
<1>1. StruggleTopics(R) \in SUBSET Topics
  BY DEF StruggleTopics
<1>2. Unpracticed(R) \in SUBSET Patterns
  BY LearningAssumption DEF Unpracticed
<1>3. PatternsFor({t \in Topics : OnTopic(R, t) # {}}) \in SUBSET Patterns
  BY PatternsForTopics
<1> QED BY <1>1, <1>2, <1>3 DEF Profile

LEMMA NextSeedTyped ==
  ASSUME LibraryTypeOK, NEW account
  PROVE  SeedTyped(NextSeed(Profile(account)))
<1> DEFINE profile == Profile(account)
<1>1. SeedTopics(profile) \in SUBSET Topics /\ profile.weakTopics \in SUBSET Topics
      /\ profile.gaps \in SUBSET Patterns
  BY SeedTopicsTyped, ProfileTyped
<1> HIDE DEF profile
<1>2. PatternsFor(SeedTopics(profile)) \in SUBSET Patterns
      /\ PatternsFor(profile.weakTopics) \in SUBSET Patterns
      /\ FirstOf(5, profile.gaps) \in SUBSET Patterns
  BY <1>1, PatternsForTopics DEF FirstOf
<1> QED BY <1>1, <1>2 DEF NextSeed, SeedTyped, profile

\* FoldLeft takes one candidate after the other.
LEMMA ChoicesInSteps ==
  ASSUME NEW n \in Nat, NEW S, NEW R \in [1..n -> S]
  PROVE  \E acc : /\ acc[0] = <<>>
                  /\ \A k \in 1..n : acc[k] = AddChoice(acc[k - 1], R[k])
                  /\ acc[n] = FoldLeft(AddChoice, <<>>, R)
<1> DEFINE V == Seq(S)
           h == [x \in V \X (1..n) |-> AddChoice(x[1], R[x[2]])]
           Rec(i) == i = [s \in SUBSET (DOMAIN R) |->
                            IF s = {} THEN <<>>
                            ELSE AddChoice(i[s \ {Max(s)}], R[Max(s)])]
           iter == CHOOSE i : Rec(i)
           acc == [k \in 0..n |-> iter[1..k]]
<1>1. FoldLeft(AddChoice, <<>>, R) = iter[DOMAIN R]
  BY DEF FoldLeft, MapThenFoldSet
<1>2. DOMAIN R = 1..n
  OBVIOUS
<1>3. h \in [V \X (1..n) -> V]
  <2>1. ASSUME NEW v \in V, NEW k \in 1..n PROVE AddChoice(v, R[k]) \in V
    <3>1. R[k] \in S
      OBVIOUS
    <3> QED BY <3>1 DEF AddChoice
  <2> QED BY <2>1
<1>4. <<>> \in V
  OBVIOUS
<1>5. PICK w \in [SUBSET (1..n) -> V] : Folds(n, <<>>, h, w)
  <2> HIDE DEF h, V
  <2> QED BY <1>3, <1>4, FoldExists
<1>6. Rec(w)
  <2>1. ASSUME NEW s \in SUBSET (1..n), s # {}
        PROVE  w[s] = AddChoice(w[s \ {Max(s)}], R[Max(s)])
    <3>1. n \in Nat /\ s \in SUBSET (0..n)
      OBVIOUS
    <3>2. Max(s) \in 1..n /\ s \ {Max(s)} \in SUBSET (1..n)
      BY <2>1, <3>1, GreatestNumber
    <3>3. w[s \ {Max(s)}] \in V
      BY <3>2
    <3>4. w[s] = h[w[s \ {Max(s)}], Max(s)]
      <4> HIDE DEF h
      <4> QED BY <1>5, <2>1 DEF Folds
    <3> QED BY <3>2, <3>3, <3>4
  <2>2. w[{}] = <<>>
    BY <1>5 DEF Folds
  <2>3. w = [s \in SUBSET (1..n) |-> w[s]]
    OBVIOUS
  <2> HIDE DEF h, V
  <2> QED BY <1>2, <2>1, <2>2, <2>3
<1>7. Rec(iter)
  <2> HIDE DEF Rec
  <2> QED BY <1>6
<1> HIDE DEF iter
<1>8. \A s \in SUBSET (1..n) :
          iter[s] = IF s = {} THEN <<>> ELSE AddChoice(iter[s \ {Max(s)}], R[Max(s)])
  BY <1>2, <1>7
<1>9. acc[0] = <<>>
  <2>1. 1..0 = {} /\ 0 \in 0..n
    OBVIOUS
  <2> QED BY <1>8, <2>1
<1>10. ASSUME NEW k \in 1..n PROVE acc[k] = AddChoice(acc[k - 1], R[k])
  <2>1. 1..k \in SUBSET (1..n) /\ 1..k # {} /\ (1..k) \ {k} = 1..(k - 1)
        /\ Max(1..k) = k
    BY FirstNumbers
  <2>2. iter[1..k] = AddChoice(iter[(1..k) \ {k}], R[k])
    BY <1>8, <2>1
  <2>3. acc[k] = iter[1..k] /\ acc[k - 1] = iter[1..(k - 1)]
    OBVIOUS
  <2> HIDE DEF acc
  <2> QED BY <2>1, <2>2, <2>3
<1>11. acc[n] = iter[1..n]
  OBVIOUS
<1> HIDE DEF acc
<1> QED BY <1>1, <1>2, <1>9, <1>10, <1>11

LEMMA ToSetAppend ==
  ASSUME NEW S, NEW s \in Seq(S), NEW x \in S
  PROVE  /\ Append(s, x) \in Seq(S) /\ Len(Append(s, x)) = Len(s) + 1
         /\ ToSet(Append(s, x)) = ToSet(s) \cup {x}
         /\ IsInjective(s) /\ x \notin ToSet(s) => IsInjective(Append(s, x))
<1> DEFINE t == Append(s, x)
           n == Len(s)
<1>1. /\ n \in Nat /\ DOMAIN s = 1..n /\ DOMAIN t = 1..(n + 1)
      /\ \A i \in 1..n : t[i] = s[i]
      /\ t[n + 1] = x
      /\ t \in Seq(S) /\ Len(t) = n + 1
  OBVIOUS
<1>2. \A i \in 1..(n + 1) : i \in 1..n \/ i = n + 1
  BY <1>1
<1>3. \A i \in 1..n : i \in 1..(n + 1)
  BY <1>1
<1>4. n + 1 \in 1..(n + 1)
  BY <1>1
<1> HIDE DEF t, n
<1>5. ToSet(t) = ToSet(s) \cup {x}
  BY <1>1, <1>2, <1>3, <1>4 DEF ToSet
<1>6. ASSUME IsInjective(s), x \notin ToSet(s) PROVE IsInjective(t)
  <2>1. \A i \in 1..n : s[i] # x
    BY <1>1, <1>6 DEF ToSet
  <2>2. \A i, j \in 1..n : s[i] = s[j] => i = j
    BY <1>1, <1>6 DEF IsInjective
  <2>3. \A i, j \in 1..(n + 1) : t[i] = t[j] => i = j
    BY <1>1, <1>2, <2>1, <2>2
  <2> QED BY <1>1, <2>3 DEF IsInjective
<1> QED BY <1>1, <1>5, <1>6 DEF t, n

LEMMA ToSetCounted ==
  ASSUME NEW S, NEW s \in Seq(S), IsInjective(s)
  PROVE  IsFiniteSet(ToSet(s)) /\ Cardinality(ToSet(s)) = Len(s)
<1> DEFINE n == Len(s)
           Q == ToSet(s)
<1>1. n \in Nat /\ DOMAIN s = 1..n /\ s \in [1..n -> S]
  OBVIOUS
<1>2. s \in Surjection(1..n, Q) /\ s \in Injection(1..n, Q)
  <2>1. \A i \in 1..n : s[i] \in Q
    BY <1>1 DEF ToSet
  <2>2. \A q \in Q : \E i \in 1..n : s[i] = q
    BY <1>1 DEF ToSet
  <2>3. \A i, j \in 1..n : s[i] = s[j] => i = j
    BY <1>1 DEF IsInjective
  <2> HIDE DEF n, Q
  <2>4. s \in [1..n -> Q]
    BY <1>1, <2>1
  <2> QED BY <2>2, <2>3, <2>4 DEF Surjection, Injection
<1> HIDE DEF n, Q
<1>3. IsFiniteSet(1..n) /\ Cardinality(1..n) = n
  BY <1>1, FS_Interval
<1>4. IsFiniteSet(Q) /\ Cardinality(Q) = n
  BY <1>2, <1>3, FS_Surjection
<1> QED BY <1>4 DEF n, Q

\* After k candidates: those chosen have come up, no two with the same first pattern;
\* any other shares it with a better one chosen, or came when the list was full.
ChosenSoFar(chosen, S, R, k) ==
    /\ chosen \in Seq(S) /\ IsInjective(chosen) /\ Len(chosen) <= Limit
    /\ \A d \in ToSet(chosen) : \E i \in 1..k : R[i] = d
    /\ \A c, d \in ToSet(chosen) : Primary(c) = Primary(d) /\ Primary(c) # {} => c = d
    /\ \A j \in 1..k :
           \/ R[j] \in ToSet(chosen)
           \/ /\ Primary(R[j]) # {}
              /\ \E i \in 1..(j - 1) :
                     R[i] \in ToSet(chosen) /\ Primary(R[i]) = Primary(R[j])
           \/ /\ Len(chosen) = Limit
              /\ \A d \in ToSet(chosen) : \E i \in 1..(j - 1) : R[i] = d

LEMMA ChoiceStep ==
  ASSUME NEW n \in Nat, NEW S, NEW R \in [1..n -> S], IsInjective(R),
         NEW k \in 0..n, k < n, NEW chosen, ChosenSoFar(chosen, S, R, k)
  PROVE  ChosenSoFar(AddChoice(chosen, R[k + 1]), S, R, k + 1)
<1> DEFINE c == R[k + 1]
           Q == ToSet(chosen)
           skip == \/ Len(chosen) = Limit
                   \/ Primary(c) # {} /\ \E d \in Q : Primary(d) = Primary(c)
<1>1. /\ k \in Nat /\ k + 1 \in 1..n /\ c \in S
      /\ \A i \in 1..(k + 1) : i \in 1..k \/ i = k + 1
      /\ \A i \in 1..k : i \in 1..(k + 1) /\ i # k + 1 /\ i \in 1..n
      /\ (k + 1) - 1 = k /\ Limit \in Nat
  BY LearningAssumption
<1>2. /\ chosen \in Seq(S) /\ IsInjective(chosen) /\ Len(chosen) <= Limit
      /\ Len(chosen) \in Nat
  BY DEF ChosenSoFar
<1>3. \A d \in Q : \E i \in 1..k : R[i] = d
  BY DEF ChosenSoFar
<1>4. c \notin Q
  BY <1>1, <1>3 DEF IsInjective
<1> HIDE DEF c, Q
<1>5. CASE skip
  <2>1. AddChoice(chosen, c) = chosen
    BY <1>5 DEF AddChoice, Q
  <2>2. \/ /\ Primary(c) # {}
           /\ \E i \in 1..k : R[i] \in Q /\ Primary(R[i]) = Primary(c)
        \/ Len(chosen) = Limit
    BY <1>3, <1>5
  <2>3. \A d \in Q : \E i \in 1..(k + 1) : R[i] = d
    BY <1>1, <1>3
  <2>4. ASSUME NEW j \in 1..(k + 1)
        PROVE  \/ R[j] \in Q
               \/ /\ Primary(R[j]) # {}
                  /\ \E i \in 1..(j - 1) : R[i] \in Q /\ Primary(R[i]) = Primary(R[j])
               \/ /\ Len(chosen) = Limit
                  /\ \A d \in Q : \E i \in 1..(j - 1) : R[i] = d
    <3>1. CASE j \in 1..k
      BY <3>1 DEF ChosenSoFar, Q
    <3>2. CASE j = k + 1
      <4>1. R[j] = c /\ 1..(j - 1) = 1..k
        BY <1>1, <3>2 DEF c
      <4> QED BY <1>3, <2>2, <4>1
    <3> QED BY <1>1, <3>1, <3>2
  <2>5. ChosenSoFar(chosen, S, R, k + 1)
    BY <1>2, <2>3, <2>4 DEF ChosenSoFar, Q
  <2> QED BY <2>1, <2>5 DEF c
<1>6. CASE ~skip
  <2> DEFINE next == Append(chosen, c)
  <2>1. AddChoice(chosen, c) = next
    BY <1>6 DEF AddChoice, Q
  <2>2. /\ next \in Seq(S) /\ Len(next) = Len(chosen) + 1
        /\ ToSet(next) = Q \cup {c} /\ IsInjective(next)
    BY <1>1, <1>2, <1>4, ToSetAppend DEF Q
  <2>3. Len(next) <= Limit
    BY <1>1, <1>2, <1>6, <2>2
  <2>4. \A d \in Q \cup {c} : \E i \in 1..(k + 1) : R[i] = d
    BY <1>1, <1>3 DEF c
  <2>5. \A d, e \in Q \cup {c} : Primary(d) = Primary(e) /\ Primary(d) # {} => d = e
    <3>1. \A d, e \in Q : Primary(d) = Primary(e) /\ Primary(d) # {} => d = e
      BY DEF ChosenSoFar, Q
    <3>2. \A d \in Q : Primary(c) # {} => Primary(d) # Primary(c)
      BY <1>6
    <3> QED BY <3>1, <3>2
  <2>6. ASSUME NEW j \in 1..(k + 1)
        PROVE  \/ R[j] \in Q \cup {c}
               \/ /\ Primary(R[j]) # {}
                  /\ \E i \in 1..(j - 1) :
                         R[i] \in Q \cup {c} /\ Primary(R[i]) = Primary(R[j])
    <3>1. CASE j \in 1..k
      <4>1. \/ R[j] \in Q
            \/ /\ Primary(R[j]) # {}
               /\ \E i \in 1..(j - 1) : R[i] \in Q /\ Primary(R[i]) = Primary(R[j])
            \/ Len(chosen) = Limit
        BY <3>1 DEF ChosenSoFar, Q
      <4> QED BY <1>6, <4>1
    <3>2. CASE j = k + 1
      BY <3>2 DEF c
    <3> QED BY <1>1, <3>1, <3>2
  <2> HIDE DEF next
  <2>7. ChosenSoFar(next, S, R, k + 1)
    BY <2>2, <2>3, <2>4, <2>5, <2>6 DEF ChosenSoFar
  <2> QED BY <2>1, <2>7 DEF c
<1> QED BY <1>5, <1>6

LEMMA ChosenAtTheEnd ==
  ASSUME NEW n \in Nat, NEW S, NEW R \in [1..n -> S], IsInjective(R)
  PROVE  ChosenSoFar(FoldLeft(AddChoice, <<>>, R), S, R, n)
<1>1. PICK acc : /\ acc[0] = <<>>
                 /\ \A k \in 1..n : acc[k] = AddChoice(acc[k - 1], R[k])
                 /\ acc[n] = FoldLeft(AddChoice, <<>>, R)
  BY ChoicesInSteps
<1> DEFINE G == {k \in 0..n : ChosenSoFar(acc[k], S, R, k)}
<1>2. 0 \in G
  <2>1. ToSet(<<>>) = {} /\ <<>> \in Seq(S) /\ Len(<<>>) = 0 /\ IsInjective(<<>>)
    BY DEF ToSet, IsInjective
  <2>2. 0 <= Limit /\ 1..0 = {} /\ 0 \in 0..n
    BY LearningAssumption
  <2>3. ChosenSoFar(<<>>, S, R, 0)
    BY <2>1, <2>2 DEF ChosenSoFar
  <2> QED BY <1>1, <2>2, <2>3
<1>3. ASSUME NEW k \in 0..n, k \in G, k < n PROVE k + 1 \in G
  <2>1. k + 1 \in 1..n /\ k + 1 \in 0..n /\ (k + 1) - 1 = k
    BY <1>3
  <2>2. acc[k + 1] = AddChoice(acc[k], R[k + 1])
    BY <1>1, <2>1
  <2>3. ChosenSoFar(AddChoice(acc[k], R[k + 1]), S, R, k + 1)
    BY <1>3, ChoiceStep
  <2> QED BY <2>1, <2>2, <2>3
<1> HIDE DEF G
<1>4. \A k \in 0..n : k \in G
  BY <1>2, <1>3, Upwards
<1>5. n \in G
  BY <1>4
<1> QED BY <1>1, <1>5 DEF G

\* Chosen without a pattern are at most all of those, and the others at most one for
\* each first pattern; while the list has room, exactly so.
LEMMA ChoicesCounted ==
  ASSUME NEW pool, IsFiniteSet(pool), NEW chosen \in Seq(pool), IsInjective(chosen),
         Len(chosen) <= Limit,
         \A c, d \in ToSet(chosen) : Primary(c) = Primary(d) /\ Primary(c) # {} => c = d,
         Len(chosen) < Limit =>
             \A c \in pool : \/ c \in ToSet(chosen)
                             \/ /\ Primary(c) # {}
                                /\ \E d \in ToSet(chosen) : Primary(d) = Primary(c)
  PROVE  LET plain == {c \in pool : Primary(c) = {}}
         IN  Len(chosen) = AtMost(Limit, Cardinality(plain)
                               + Cardinality({Primary(c) : c \in pool \ plain}))
<1> DEFINE plain == {c \in pool : Primary(c) = {}}
           firsts == {Primary(c) : c \in pool \ plain}
           Q == ToSet(chosen)
           Qp == Q \cap plain
           Qn == Q \ plain
           Qf == {Primary(c) : c \in Qn}
           F == [c \in Qn |-> Primary(c)]
           G == [c \in pool \ plain |-> Primary(c)]
<1>1. IsFiniteSet(Q) /\ Cardinality(Q) = Len(chosen) /\ Len(chosen) \in Nat
  BY ToSetCounted
<1>2. Q \in SUBSET pool
  BY DEF ToSet
<1>3. IsFiniteSet(plain) /\ IsFiniteSet(pool \ plain)
  BY FS_Subset
<1>4. G \in Surjection(pool \ plain, firsts)
  BY DEF Surjection
<1>5. IsFiniteSet(firsts)
  <2> HIDE DEF G, plain, firsts
  <2> QED BY <1>3, <1>4, FS_Surjection
<1>6. Qf \in SUBSET firsts
  BY <1>2
<1>7. IsFiniteSet(Qn) /\ IsFiniteSet(Qp)
  BY <1>1, FS_Subset
<1>8. \A c \in Qn : Primary(c) # {}
  BY <1>2
<1>9. F \in Surjection(Qn, Qf) /\ F \in Injection(Qn, Qf)
  <2>1. \A c, d \in Qn : F[c] = F[d] => c = d
    BY <1>8
  <2>2. F \in [Qn -> Qf] /\ \A t \in Qf : \E c \in Qn : F[c] = t
    OBVIOUS
  <2> HIDE DEF F, Qf, Qn
  <2> QED BY <2>1, <2>2 DEF Surjection, Injection, IsInjective
<1>10. Cardinality(Qf) = Cardinality(Qn)
  <2> HIDE DEF F, Qf, Qn
  <2> QED BY <1>7, <1>9, FS_Surjection
<1>11. /\ Cardinality(Qp) \in Nat /\ Cardinality(Qn) \in Nat
       /\ Cardinality(Qp) + Cardinality(Qn) = Len(chosen)
  <2>1. Qp \cup Qn = Q /\ Qp \cap Qn = {}
    OBVIOUS
  <2> HIDE DEF Qp, Qn, Q
  <2>2. IsFiniteSet(Qp \cup Qn)
    BY <1>1, <2>1
  <2>3. /\ Cardinality(Qp) \in Nat /\ Cardinality(Qn) \in Nat
        /\ Cardinality(Qp) + Cardinality(Qn) = Cardinality(Qp \cup Qn)
    BY <2>1, <2>2, TwoParts
  <2> QED BY <1>1, <2>1, <2>3
<1>12. Cardinality(Qp) <= Cardinality(plain) /\ Cardinality(plain) \in Nat
  <2>1. Qp \in SUBSET plain
    OBVIOUS
  <2> HIDE DEF Qp, plain
  <2> QED BY <1>3, <2>1, FS_Subset, FS_CardinalityType
<1>13. Cardinality(Qf) <= Cardinality(firsts) /\ Cardinality(firsts) \in Nat
  <2> HIDE DEF Qf, firsts
  <2> QED BY <1>5, <1>6, FS_Subset, FS_CardinalityType
<1>14. ASSUME Len(chosen) < Limit PROVE Qp = plain /\ Qf = firsts
  <2>1. \A c \in pool : \/ c \in Q
                        \/ Primary(c) # {} /\ \E d \in Q : Primary(d) = Primary(c)
    BY <1>14
  <2>2. plain \subseteq Qp
    BY <2>1
  <2>3. ASSUME NEW c \in pool \ plain PROVE \E d \in Qn : Primary(d) = Primary(c)
    <3>1. PICK d \in Q : Primary(d) = Primary(c)
      BY <2>1
    <3>2. Primary(c) # {}
      OBVIOUS
    <3>3. d \notin plain
      BY <3>1, <3>2
    <3> QED BY <3>1, <3>3
  <2>4. firsts \subseteq Qf
    <3> HIDE DEF Qn
    <3> QED BY <2>3
  <2> QED BY <1>6, <2>2, <2>4
<1> DEFINE total == Cardinality(plain) + Cardinality(firsts)
<1> HIDE DEF plain, firsts, Qp, Qn, Qf
<1>15. Len(chosen) <= total /\ total \in Nat
  BY <1>10, <1>11, <1>12, <1>13
<1>16. Len(chosen) < Limit => Len(chosen) = total
  BY <1>10, <1>11, <1>14
<1>17. Limit \in Nat
  BY LearningAssumption
<1> HIDE DEF total
<1>18. Len(chosen) = AtMost(Limit, total)
  BY <1>1, <1>15, <1>16, <1>17 DEF AtMost
<1> QED BY <1>18 DEF total, plain, firsts

LEMMA RecommendationsAreFull ==
  ASSUME LearningTypeOK
  PROVE  RecommendationsFull
<1> DEFINE profile == Profile(connected)
           pool == Pool(profile)
           seed == NextSeed(profile)
           ranked == Ranked(pool, seed)
           chosen == FoldLeft(AddChoice, <<>>, ranked)
           n == Cardinality(pool)
           Q == ToSet(chosen)
           place(c) == CHOOSE i \in DOMAIN ranked : ranked[i] = c
           plain == {c \in pool : Primary(c) = {}}
           total == Cardinality(plain) + Cardinality({Primary(c) : c \in pool \ plain})
<1>1. LibraryTypeOK
  BY DEF LearningTypeOK, AnalyticsTypeOK
<1>2. pool \in SUBSET Candidate /\ IsFiniteSet(pool) /\ n \in Nat
      /\ \A c, d \in pool : c.title = d.title => c = d
  <2> HIDE DEF profile
  <2> QED BY PoolIsFit, FS_CardinalityType
<1>3. SeedTyped(seed)
  BY <1>1, NextSeedTyped
<1> HIDE DEF profile, seed
<1>4. /\ ranked \in [1..n -> pool] /\ IsInjective(ranked)
      /\ \A c \in pool : \E i \in 1..n : ranked[i] = c
  <2> HIDE DEF pool
  <2> QED BY <1>2, <1>3, RankingListsAll
<1> HIDE DEF ranked
<1>5. ChosenSoFar(chosen, pool, ranked, n)
  <2> HIDE DEF n, pool
  <2> QED BY <1>2, <1>4, ChosenAtTheEnd
<1> HIDE DEF chosen, n, pool
<1>6. /\ chosen \in Seq(pool) /\ IsInjective(chosen) /\ Len(chosen) <= Limit
      /\ \A c, d \in Q : Primary(c) = Primary(d) /\ Primary(c) # {} => c = d
      /\ \A d \in Q : \E i \in 1..n : ranked[i] = d
  BY <1>5 DEF ChosenSoFar
<1>7. \A i \in 1..n : place(ranked[i]) = i
  <2>1. DOMAIN ranked = 1..n
    BY <1>4
  <2> QED BY <1>4, <2>1 DEF IsInjective
<1> HIDE DEF place, Q
<1>8. ASSUME NEW c \in pool \ Q
      PROVE  \/ /\ Primary(c) # {}
                /\ \E d \in Q : Primary(d) = Primary(c) /\ place(d) < place(c)
             \/ Len(chosen) = Limit /\ \A d \in Q : place(d) < place(c)
  <2>1. PICK j \in 1..n : ranked[j] = c
    BY <1>4
  <2>2. \/ /\ Primary(c) # {}
           /\ \E i \in 1..(j - 1) : ranked[i] \in Q /\ Primary(ranked[i]) = Primary(c)
        \/ /\ Len(chosen) = Limit
           /\ \A d \in Q : \E i \in 1..(j - 1) : ranked[i] = d
    BY <1>5, <2>1 DEF ChosenSoFar, Q
  <2>3. place(c) = j /\ \A i \in 1..(j - 1) : place(ranked[i]) = i /\ i < j
    BY <1>2, <1>7, <2>1
  <2> QED BY <2>2, <2>3
<1>9. Len(chosen) = AtMost(Limit, total)
  <2>1. Len(chosen) < Limit =>
             \A c \in pool : \/ c \in Q
                             \/ /\ Primary(c) # {}
                                /\ \E d \in Q : Primary(d) = Primary(c)
    BY <1>6, <1>8
  <2> HIDE DEF total
  <2> QED BY <1>2, <1>6, <2>1, ChoicesCounted DEF Q, total
<1>10. \A c \in pool \ Q :
           \/ \E d \in Q : Primary(d) = Primary(c) /\ place(d) < place(c)
           \/ \A d \in Q : place(d) < place(c)
  BY <1>8
<1>11. Recommendations(connected) = chosen
  BY DEF Recommendations, chosen, ranked, seed, pool, profile
<1> QED BY <1>6, <1>9, <1>10, <1>11
      DEF RecommendationsFull, place, Q, ranked, seed, pool, profile

-----------------------------------------------------------------------------
(* The roadmap                                                               *)

PhaseSpec == [targets : SUBSET Patterns, topics : SUBSET Topics]

\* Phases aim at something, and no two at the same.
Apart(specs) ==
    /\ specs \in Seq(PhaseSpec)
    /\ \A i \in DOMAIN specs : specs[i].targets # {}
    /\ \A i, j \in DOMAIN specs :
           i # j => specs[i].targets \cap specs[j].targets = {}

LEMMA PhaseTyped ==
  ASSUME LibraryTypeOK, NEW account, NEW phase \in ToSet(PhaseOrder), NEW aimed
  PROVE  /\ PhaseTargets(phase, aimed, Profile(account)) \in SUBSET Patterns
         /\ PhaseTopics(phase, Profile(account)) \in SUBSET Topics
<1> DEFINE profile == Profile(account)
           seed == PatternsFor(SeedTopics(profile))
           near == UNION {AdjacentOf(p) :
                       p \in seed \cup profile.strengths \cup profile.practised}
<1>1. SeedTopics(profile) \in SUBSET Topics /\ profile.weakTopics \in SUBSET Topics
      /\ profile.gaps \in SUBSET Patterns /\ profile.practised \in SUBSET Patterns
  BY SeedTopicsTyped, ProfileTyped
<1> HIDE DEF profile
<1>2. seed \in SUBSET Patterns /\ PatternsFor(profile.weakTopics) \in SUBSET Patterns
  BY <1>1, PatternsForTopics
<1>3. near \in SUBSET Patterns
  BY DEF AdjacentOf
<1>4. phase \in {"reinforce", "strengthen", "progress", "build", "combine"}
  BY DEF PhaseOrder, ToSet
<1>5. ASSUME NEW ps \in SUBSET Patterns
      PROVE  /\ FirstOf(2, ps \ aimed) \in SUBSET Patterns
             /\ NewFirst(ps, profile) \in SUBSET Patterns
             /\ Pair(ps) \in SUBSET Patterns
             /\ FirstOf(2, ps) \in SUBSET Patterns
  BY DEF FirstOf, NewFirst, Pair
<1>6. /\ FirstOf(2, PatternsFor(profile.weakTopics) \ aimed) \in SUBSET Patterns
      /\ FirstOf(2, profile.gaps \ aimed) \in SUBSET Patterns
      /\ Pair(FirstOf(2, profile.practised \ aimed)) \in SUBSET Patterns
  BY <1>1, <1>2, <1>5
<1>7. FirstOf(2, NewFirst(near \ aimed, profile)) \in SUBSET Patterns
  <2>1. near \ aimed \in SUBSET Patterns
    BY <1>3
  <2> HIDE DEF near
  <2>2. NewFirst(near \ aimed, profile) \in SUBSET Patterns
    BY <1>5, <2>1
  <2> QED BY <1>5, <2>2
<1>8. PhaseTargets(phase, aimed, profile) \in SUBSET Patterns
  <2>1. phase = "reinforce" => PhaseTargets(phase, aimed, profile) = seed
    BY DEF PhaseTargets
  <2>2. phase = "strengthen" => PhaseTargets(phase, aimed, profile)
             = FirstOf(2, PatternsFor(profile.weakTopics) \ aimed)
    BY DEF PhaseTargets
  <2>3. phase = "progress" => PhaseTargets(phase, aimed, profile)
             = FirstOf(2, NewFirst(near \ aimed, profile))
    BY DEF PhaseTargets
  <2>4. phase = "build" => PhaseTargets(phase, aimed, profile)
             = FirstOf(2, profile.gaps \ aimed)
    BY DEF PhaseTargets
  <2>5. phase = "combine" => PhaseTargets(phase, aimed, profile)
             = Pair(FirstOf(2, profile.practised \ aimed))
    BY DEF PhaseTargets
  <2> HIDE DEF seed, near
  <2> QED BY <1>2, <1>4, <1>6, <1>7, <2>1, <2>2, <2>3, <2>4, <2>5
<1>9. PhaseTopics(phase, profile) \in SUBSET Topics
  BY <1>1, <1>4 DEF PhaseTopics
<1> QED BY <1>8, <1>9 DEF profile

LEMMA AddPhaseApart ==
  ASSUME NEW specs, Apart(specs), NEW targets \in SUBSET Patterns,
         NEW topics \in SUBSET Topics
  PROVE  Apart(AddPhase(specs, targets, topics))
<1> DEFINE spec == [targets |-> targets \ Aimed(specs), topics |-> topics]
           next == Append(specs, spec)
           n == Len(specs)
<1>1. CASE targets \subseteq Aimed(specs)
  BY <1>1 DEF AddPhase
<1>2. CASE ~(targets \subseteq Aimed(specs))
  <2>1. AddPhase(specs, targets, topics) = next
    BY <1>2 DEF AddPhase
  <2>2. spec \in PhaseSpec /\ spec.targets # {} /\ spec.targets = targets \ Aimed(specs)
    BY <1>2 DEF PhaseSpec
  <2>3. specs \in Seq(PhaseSpec) /\ n \in Nat /\ DOMAIN specs = 1..n
    BY DEF Apart
  <2>4. \A i \in 1..n : specs[i].targets \subseteq Aimed(specs)
    BY <2>3 DEF Aimed, ToSet
  <2> HIDE DEF spec
  <2>5. /\ next \in Seq(PhaseSpec) /\ DOMAIN next = 1..(n + 1)
        /\ \A i \in 1..n : next[i] = specs[i]
        /\ next[n + 1] = spec
    BY <2>2, <2>3
  <2>6. \A i \in 1..(n + 1) : i \in 1..n \/ i = n + 1
    BY <2>3
  <2> HIDE DEF next, n
  <2>7. \A i \in 1..n : /\ next[i].targets # {}
                        /\ next[i].targets \cap spec.targets = {}
    BY <2>2, <2>3, <2>4, <2>5 DEF Apart
  <2>8. \A i, j \in 1..n : i # j => next[i].targets \cap next[j].targets = {}
    BY <2>3, <2>5 DEF Apart
  <2>9. Apart(next)
    BY <2>2, <2>5, <2>6, <2>7, <2>8 DEF Apart
  <2> QED BY <2>1, <2>9
<1> QED BY <1>1, <1>2

\* FoldLeft plans one phase after the other.
LEMMA PlanInSteps ==
  ASSUME LibraryTypeOK, NEW account
  PROVE  LET profile == Profile(account)
             n == Len(PhaseOrder)
         IN  \E acc :
                 /\ acc[0] = <<>>
                 /\ \A k \in 1..n : acc[k] = AddPhase(acc[k - 1],
                        PhaseTargets(PhaseOrder[k], Aimed(acc[k - 1]), profile),
                        PhaseTopics(PhaseOrder[k], profile))
                 /\ Plan(profile) = FirstPhases(acc[n])
<1> DEFINE profile == Profile(account)
           n == Len(PhaseOrder)
           V == Seq(PhaseSpec)
           add(v, k) == AddPhase(v, PhaseTargets(PhaseOrder[k], Aimed(v), profile),
                                 PhaseTopics(PhaseOrder[k], profile))
           h == [x \in V \X (1..n) |-> add(x[1], x[2])]
           Rec(i) == i = [s \in SUBSET (DOMAIN PhaseOrder) |->
                            IF s = {} THEN <<>>
                            ELSE add(i[s \ {Max(s)}], Max(s))]
           iter == CHOOSE i : Rec(i)
           acc == [k \in 0..n |-> iter[1..k]]
<1>1. Plan(profile) = FirstPhases(iter[DOMAIN PhaseOrder])
  <2> HIDE DEF profile
  <2> QED BY DEF Plan, FoldLeft, MapThenFoldSet
<1>2. DOMAIN PhaseOrder = 1..n /\ n \in Nat
  BY DEF PhaseOrder
<1>3. ASSUME NEW v \in V, NEW k \in 1..n PROVE add(v, k) \in V
  <2>1. PhaseOrder[k] \in ToSet(PhaseOrder)
    BY <1>2 DEF ToSet
  <2> DEFINE targets == PhaseTargets(PhaseOrder[k], Aimed(v), profile)
             topics == PhaseTopics(PhaseOrder[k], profile)
  <2>2. targets \in SUBSET Patterns /\ topics \in SUBSET Topics
    BY <2>1, PhaseTyped
  <2> HIDE DEF targets, topics
  <2>3. [targets |-> targets \ Aimed(v), topics |-> topics] \in PhaseSpec
    BY <2>2 DEF PhaseSpec
  <2>4. AddPhase(v, targets, topics) \in V
    BY <2>3 DEF AddPhase
  <2> QED BY <2>4 DEF targets, topics
<1> HIDE DEF n, add
<1>4. h \in [V \X (1..n) -> V]
  BY <1>3
<1>5. <<>> \in V
  OBVIOUS
<1>6. PICK w \in [SUBSET (1..n) -> V] : Folds(n, <<>>, h, w)
  <2> HIDE DEF h, V
  <2> QED BY <1>2, <1>4, <1>5, FoldExists
<1>7. Rec(w)
  <2>1. ASSUME NEW s \in SUBSET (1..n), s # {}
        PROVE  w[s] = add(w[s \ {Max(s)}], Max(s))
    <3>1. n \in Nat /\ s \in SUBSET (0..n)
      BY <1>2
    <3>2. Max(s) \in 1..n /\ s \ {Max(s)} \in SUBSET (1..n)
      BY <2>1, <3>1, GreatestNumber
    <3>3. w[s \ {Max(s)}] \in V
      BY <3>2
    <3>4. w[s] = h[w[s \ {Max(s)}], Max(s)]
      <4> HIDE DEF h
      <4> QED BY <1>6, <2>1 DEF Folds
    <3> QED BY <3>2, <3>3, <3>4
  <2>2. w[{}] = <<>>
    BY <1>6 DEF Folds
  <2>3. w = [s \in SUBSET (1..n) |-> w[s]]
    OBVIOUS
  <2> HIDE DEF h, V
  <2> QED BY <1>2, <2>1, <2>2, <2>3
<1>8. Rec(iter)
  <2> HIDE DEF Rec
  <2> QED BY <1>7
<1> HIDE DEF iter
<1>9. \A s \in SUBSET (1..n) :
          iter[s] = IF s = {} THEN <<>> ELSE add(iter[s \ {Max(s)}], Max(s))
  BY <1>2, <1>8
<1>10. acc[0] = <<>>
  <2>1. 1..0 = {} /\ 0 \in 0..n
    BY <1>2
  <2> QED BY <1>9, <2>1
<1>11. ASSUME NEW k \in 1..n PROVE acc[k] = add(acc[k - 1], k)
  <2>1. 1..k \in SUBSET (1..n) /\ 1..k # {} /\ (1..k) \ {k} = 1..(k - 1)
        /\ Max(1..k) = k
    BY <1>2, FirstNumbers
  <2>2. iter[1..k] = add(iter[(1..k) \ {k}], k)
    BY <1>9, <2>1
  <2>3. acc[k] = iter[1..k] /\ acc[k - 1] = iter[1..(k - 1)]
    BY <1>2
  <2> HIDE DEF acc
  <2> QED BY <2>1, <2>2, <2>3
<1>12. acc[n] = iter[1..n]
  BY <1>2
<1> HIDE DEF acc
<1> QED BY <1>1, <1>2, <1>10, <1>11, <1>12 DEF n, add

LEMMA PlanApart ==
  ASSUME LibraryTypeOK, NEW account
  PROVE  Apart(Plan(Profile(account)))
<1> DEFINE profile == Profile(account)
           n == Len(PhaseOrder)
           targets(specs, k) == PhaseTargets(PhaseOrder[k], Aimed(specs), profile)
           topics(k) == PhaseTopics(PhaseOrder[k], profile)
<1>1. PICK acc : /\ acc[0] = <<>>
                 /\ \A k \in 1..n : acc[k] = AddPhase(acc[k - 1],
                        targets(acc[k - 1], k), topics(k))
                 /\ Plan(profile) = FirstPhases(acc[n])
  BY PlanInSteps
<1>2. n \in Nat /\ DOMAIN PhaseOrder = 1..n
  BY DEF PhaseOrder
<1>3. ASSUME NEW specs, NEW k \in 1..n
      PROVE  targets(specs, k) \in SUBSET Patterns /\ topics(k) \in SUBSET Topics
  <2>1. PhaseOrder[k] \in ToSet(PhaseOrder)
    BY <1>2 DEF ToSet
  <2> QED BY <2>1, PhaseTyped
<1> HIDE DEF n, targets, topics
<1> DEFINE G == {k \in 0..n : Apart(acc[k])}
<1>4. 0 \in G
  <2>1. Apart(<<>>)
    BY DEF Apart
  <2> QED BY <1>1, <1>2, <2>1
<1>5. ASSUME NEW k \in 0..n, k \in G, k < n PROVE k + 1 \in G
  <2>1. k + 1 \in 1..n /\ k + 1 \in 0..n /\ (k + 1) - 1 = k
    BY <1>2, <1>5
  <2>2. acc[k + 1] = AddPhase(acc[k], targets(acc[k], k + 1), topics(k + 1))
    BY <1>1, <2>1
  <2>3. targets(acc[k], k + 1) \in SUBSET Patterns /\ topics(k + 1) \in SUBSET Topics
    BY <1>3, <2>1
  <2>4. Apart(AddPhase(acc[k], targets(acc[k], k + 1), topics(k + 1)))
    BY <1>5, <2>3, AddPhaseApart
  <2> QED BY <2>1, <2>2, <2>4
<1> HIDE DEF G
<1>6. \A k \in 0..n : k \in G
  BY <1>2, <1>4, <1>5, Upwards
<1>7. Apart(acc[n])
  BY <1>2, <1>6 DEF G
<1> DEFINE specs == acc[n]
           m == AtMost(Len(specs), MaxPhases)
           first == SubSeq(specs, 1, m)
<1>8. specs \in Seq(PhaseSpec) /\ DOMAIN specs = 1..Len(specs) /\ Len(specs) \in Nat
  BY <1>7 DEF Apart
<1>9. m \in Nat /\ m <= Len(specs)
  BY <1>8, LearningAssumption DEF AtMost
<1> HIDE DEF specs, m
<1>10. /\ first \in Seq(PhaseSpec) /\ DOMAIN first = 1..m
       /\ \A i \in 1..m : first[i] = specs[i] /\ i \in DOMAIN specs
  BY <1>8, <1>9
<1> HIDE DEF first
<1>11. Apart(first)
  BY <1>7, <1>10 DEF Apart, specs
<1> QED BY <1>1, <1>11 DEF FirstPhases, first, m, specs

LEMMA PhaseSeedTyped ==
  ASSUME LibraryTypeOK, NEW account, NEW spec \in PhaseSpec
  PROVE  SeedTyped(PhaseSeed(Profile(account), spec))
<1> DEFINE profile == Profile(account)
<1>1. SeedTopics(profile) \in SUBSET Topics
  BY SeedTopicsTyped
<1> HIDE DEF profile
<1>2. spec.targets \in SUBSET Patterns /\ spec.topics \in SUBSET Topics
  BY DEF PhaseSpec
<1>3. SeedTyped(PhaseSeed(profile, spec))
  BY <1>1, <1>2 DEF PhaseSeed, SeedTyped
<1> QED BY <1>3 DEF profile

\* A phase gets candidates of the pool that fit and that no earlier phase has.
LEMMA SelectedFit ==
  ASSUME LearningTypeOK, NEW account, NEW spec \in PhaseSpec, NEW used
  PROVE  LET profile == Profile(account)
             P == SelectProblems(profile, spec, Pool(profile), used)
         IN  /\ P # {} => Cardinality(P) >= MinProblems
             /\ P \in SUBSET Pool(profile)
             /\ \A c \in P : c.key \notin used /\ AllowedDifficulty(c, profile)
<1> DEFINE profile == Profile(account)
           pool == Pool(profile)
           usable == {c \in pool : c.key \notin used /\ AllowedDifficulty(c, profile)}
           near == UNION {AdjacentOf(p) : p \in spec.targets}
           primary == {c \in usable : CandidatePatterns(c) \cap spec.targets # {}}
           secondary == {c \in usable \ primary : CandidatePatterns(c) \cap near # {}}
           more == IF Cardinality(primary) >= MinProblems THEN {} ELSE secondary
           seed == PhaseSeed(profile, spec)
           ranked == Ranked(primary, seed) \o Ranked(more, seed)
<1>1. SeedTyped(seed)
  BY PhaseSeedTyped DEF LearningTypeOK, AnalyticsTypeOK
<1>2. pool \in SUBSET Candidate /\ IsFiniteSet(pool)
      /\ \A c, d \in pool : c.title = d.title => c = d
  <2> HIDE DEF profile
  <2> QED BY PoolIsFit
<1> HIDE DEF profile, pool, seed
<1>3. usable \in SUBSET pool /\ primary \in SUBSET usable /\ more \in SUBSET usable
  OBVIOUS
<1>4. RankedForPhase(usable, profile, spec) = ranked
  BY DEF RankedForPhase, seed
<1> HIDE DEF usable, primary, more
<1>5. ASSUME NEW S \in SUBSET usable PROVE Ranked(S, seed) \in Seq(usable)
  <2>1. S \in SUBSET Candidate /\ IsFiniteSet(S)
        /\ \A c, d \in S : c.title = d.title => c = d
    BY <1>2, <1>3, FS_Subset
  <2>2. Ranked(S, seed) \in [1..Cardinality(S) -> S]
    BY <1>1, <2>1, RankingListsAll
  <2>3. Cardinality(S) \in Nat
    BY <2>1, FS_CardinalityType
  <2>4. Ranked(S, seed) \in [1..Cardinality(S) -> usable]
    BY <2>2
  <2> QED BY <2>3, <2>4
<1>6. ranked \in Seq(usable)
  BY <1>3, <1>5
<1> HIDE DEF ranked
<1>7. Best(ranked) \in SUBSET usable
  <2> DEFINE m == AtMost(Len(ranked), MaxProblems)
  <2>1. Len(ranked) \in Nat /\ m \in Nat /\ m <= Len(ranked)
    BY <1>6, LearningAssumption DEF AtMost
  <2> HIDE DEF m
  <2>2. DOMAIN SubSeq(ranked, 1, m) = 1..m
        /\ \A i \in 1..m : SubSeq(ranked, 1, m)[i] \in usable
    BY <1>6, <2>1
  <2> QED BY <2>2 DEF Best, ToSet, m
<1> DEFINE P == SelectProblems(profile, spec, pool, used)
<1>8. P = Enough(Best(ranked))
  BY <1>4 DEF SelectProblems, usable
<1> HIDE DEF P
<1>9. P = {} \/ (P = Best(ranked) /\ ~(Cardinality(P) < MinProblems))
  BY <1>8 DEF Enough
<1>10. P # {} => Cardinality(P) >= MinProblems
  <2>1. IsFiniteSet(Best(ranked))
    BY <1>2, <1>3, <1>7, FS_Subset
  <2>2. Cardinality(Best(ranked)) \in Nat /\ MinProblems \in Nat
    BY <2>1, FS_CardinalityType, LearningAssumption
  <2> QED BY <1>9, <2>2
<1>11. P \in SUBSET pool /\ \A c \in P : c.key \notin used /\ AllowedDifficulty(c, profile)
  BY <1>7, <1>9 DEF usable
<1> QED BY <1>10, <1>11 DEF P, pool, profile

Milestone(pool) == [targets : SUBSET Patterns, problems : SUBSET pool]

\* Milestones built of the first k phases.
MilestonesSoFar(ms, plan, pool, profile, k) ==
    /\ ms \in Seq(Milestone(pool))
    /\ \A i \in DOMAIN ms :
           /\ ms[i].problems # {} /\ Cardinality(ms[i].problems) >= MinProblems
           /\ \A c \in ms[i].problems : AllowedDifficulty(c, profile)
           /\ \E j \in 1..k : plan[j].targets = ms[i].targets
           /\ ms[i].targets # {}
    /\ \A i, j \in DOMAIN ms : i # j =>
           /\ ms[i].targets \cap ms[j].targets = {}
           /\ \A c \in ms[i].problems, d \in ms[j].problems : c.key # d.key

LEMMA MilestoneStep ==
  ASSUME LearningTypeOK, NEW account, NEW plan, Apart(plan),
         NEW k \in 0..Len(plan), k < Len(plan),
         NEW ms,
         MilestonesSoFar(ms, plan, Pool(Profile(account)), Profile(account), k)
  PROVE  LET profile == Profile(account)
             pool == Pool(profile)
             P == SelectProblems(profile, plan[k + 1], pool, Keys(ms))
         IN  MilestonesSoFar(Extended(ms, plan[k + 1], P), plan, pool, profile, k + 1)
<1> DEFINE profile == Profile(account)
           pool == Pool(profile)
           spec == plan[k + 1]
           P == SelectProblems(profile, spec, pool, Keys(ms))
           m == [targets |-> spec.targets, problems |-> P]
           next == Append(ms, m)
           n == Len(ms)
<1>1. /\ k \in Nat /\ k + 1 \in DOMAIN plan /\ DOMAIN plan = 1..Len(plan)
      /\ \A j \in 1..k : j \in DOMAIN plan /\ j # k + 1 /\ j \in 1..(k + 1)
      /\ k + 1 \in 1..(k + 1)
  BY DEF Apart
<1>2. spec \in PhaseSpec /\ spec.targets # {} /\ spec.targets \in SUBSET Patterns
      /\ \A j \in 1..k : plan[j].targets \cap spec.targets = {}
  <2>1. spec \in PhaseSpec /\ spec.targets # {}
    BY <1>1 DEF Apart
  <2>2. \A j \in 1..k : plan[j].targets \cap plan[k + 1].targets = {}
    BY <1>1 DEF Apart
  <2> QED BY <2>1, <2>2 DEF PhaseSpec
<1> HIDE DEF spec
<1>3. /\ P # {} => Cardinality(P) >= MinProblems
      /\ P \in SUBSET pool
      /\ \A c \in P : c.key \notin Keys(ms) /\ AllowedDifficulty(c, profile)
  BY <1>2, SelectedFit
<1> HIDE DEF P, pool, profile
<1>4. MilestonesSoFar(ms, plan, pool, profile, k)
  BY DEF pool, profile
<1>5. ms \in Seq(Milestone(pool)) /\ n \in Nat /\ DOMAIN ms = 1..n
  BY <1>4 DEF MilestonesSoFar
<1>6. CASE P = {}
  <2>1. Extended(ms, spec, P) = ms
    BY <1>6 DEF Extended
  <2>2. MilestonesSoFar(ms, plan, pool, profile, k + 1)
    BY <1>1, <1>4 DEF MilestonesSoFar
  <2> QED BY <2>1, <2>2 DEF P, pool, profile, spec
<1>7. CASE P # {}
  <2>1. Extended(ms, spec, P) = next
    BY <1>7 DEF Extended
  <2>2. m \in Milestone(pool) /\ m.targets = spec.targets /\ m.problems = P
    BY <1>2, <1>3 DEF Milestone
  <2>3. \A i \in 1..n : \A d \in ms[i].problems : d.key \in Keys(ms)
    BY <1>5 DEF Keys, ToSet
  <2> HIDE DEF m
  <2>4. /\ next \in Seq(Milestone(pool)) /\ DOMAIN next = 1..(n + 1)
        /\ \A i \in 1..n : next[i] = ms[i]
        /\ next[n + 1] = m
    BY <1>5, <2>2
  <2>5. \A i \in 1..(n + 1) : i \in 1..n \/ i = n + 1
    BY <1>5
  <2> HIDE DEF next, n
  <2>6. ASSUME NEW i \in 1..n
        PROVE  /\ next[i].problems # {} /\ Cardinality(next[i].problems) >= MinProblems
               /\ \A c \in next[i].problems : AllowedDifficulty(c, profile)
               /\ \E j \in 1..(k + 1) : plan[j].targets = next[i].targets
               /\ next[i].targets # {}
               /\ next[i].targets \cap m.targets = {}
               /\ \A c \in next[i].problems, d \in m.problems : c.key # d.key
    <3>1. next[i] = ms[i]
      BY <2>4
    <3>2. PICK j \in 1..k : plan[j].targets = ms[i].targets
      BY <1>4, <1>5 DEF MilestonesSoFar
    <3>3. j \in 1..(k + 1) /\ ms[i].targets \cap m.targets = {}
      BY <1>1, <1>2, <2>2, <3>2
    <3>4. \A c \in ms[i].problems, d \in m.problems : c.key # d.key
      BY <1>3, <2>2, <2>3
    <3>5. /\ ms[i].problems # {} /\ Cardinality(ms[i].problems) >= MinProblems
          /\ \A c \in ms[i].problems : AllowedDifficulty(c, profile)
          /\ ms[i].targets # {}
      BY <1>4, <1>5 DEF MilestonesSoFar
    <3> QED BY <3>1, <3>2, <3>3, <3>4, <3>5
  <2>7. /\ m.problems # {} /\ Cardinality(m.problems) >= MinProblems
        /\ \A c \in m.problems : AllowedDifficulty(c, profile)
        /\ \E j \in 1..(k + 1) : plan[j].targets = m.targets
        /\ m.targets # {}
    BY <1>1, <1>2, <1>3, <1>7, <2>2 DEF spec
  <2>8. ASSUME NEW i \in 1..n, NEW j \in 1..n, i # j
        PROVE  /\ next[i].targets \cap next[j].targets = {}
               /\ \A c \in next[i].problems, d \in next[j].problems : c.key # d.key
    <3>1. /\ ms[i].targets \cap ms[j].targets = {}
          /\ \A c \in ms[i].problems, d \in ms[j].problems : c.key # d.key
      BY <1>4, <1>5, <2>8 DEF MilestonesSoFar
    <3>2. next[i] = ms[i] /\ next[j] = ms[j]
      BY <2>4
    <3> QED BY <3>1, <3>2
  <2>9. ASSUME NEW i \in DOMAIN next, NEW j \in DOMAIN next, i # j
        PROVE  /\ next[i].targets \cap next[j].targets = {}
               /\ \A c \in next[i].problems, d \in next[j].problems : c.key # d.key
    <3>1. CASE i \in 1..n /\ j \in 1..n
      BY <2>8, <2>9, <3>1
    <3>2. CASE i \in 1..n /\ j = n + 1
      BY <2>4, <2>6, <3>2
    <3>3. CASE i = n + 1 /\ j \in 1..n
      BY <2>4, <2>6, <3>3
    <3> QED BY <2>4, <2>5, <2>9, <3>1, <3>2, <3>3
  <2>10. MilestonesSoFar(next, plan, pool, profile, k + 1)
    BY <2>4, <2>5, <2>6, <2>7, <2>9 DEF MilestonesSoFar
  <2> QED BY <2>1, <2>10 DEF P, pool, profile, spec
<1> QED BY <1>6, <1>7

\* FoldLeft builds one milestone after the other.
LEMMA MilestonesInSteps ==
  ASSUME LearningTypeOK, NEW account, Apart(Plan(Profile(account)))
  PROVE  LET profile == Profile(account)
             pool == Pool(profile)
             plan == Plan(profile)
         IN  \E acc :
                 /\ acc[0] = <<>>
                 /\ \A k \in 1..Len(plan) : acc[k] = Extended(acc[k - 1], plan[k],
                        SelectProblems(profile, plan[k], pool, Keys(acc[k - 1])))
                 /\ Milestones(profile, pool) = acc[Len(plan)]
<1> DEFINE profile == Profile(account)
           pool == Pool(profile)
           plan == Plan(profile)
           n == Len(plan)
           V == Seq(Milestone(pool))
           add(v, k) == Extended(v, plan[k],
                            SelectProblems(profile, plan[k], pool, Keys(v)))
           h == [x \in V \X (1..n) |-> add(x[1], x[2])]
           Rec(i) == i = [s \in SUBSET (DOMAIN plan) |->
                            IF s = {} THEN <<>>
                            ELSE add(i[s \ {Max(s)}], Max(s))]
           iter == CHOOSE i : Rec(i)
           acc == [k \in 0..n |-> iter[1..k]]
<1>1. Milestones(profile, pool) = iter[DOMAIN plan]
  <2> HIDE DEF profile, pool
  <2> QED BY DEF Milestones, FoldLeft, MapThenFoldSet
<1>2. DOMAIN plan = 1..n /\ n \in Nat /\ plan \in Seq(PhaseSpec)
  BY DEF Apart
<1>3. ASSUME NEW v \in V, NEW k \in 1..n PROVE add(v, k) \in V
  <2> DEFINE spec == plan[k]
             P == SelectProblems(profile, spec, pool, Keys(v))
  <2> HIDE DEF plan
  <2>1. spec \in PhaseSpec
    BY <1>2
  <2> HIDE DEF spec
  <2>2. P \in SUBSET pool
    BY <2>1, SelectedFit
  <2> HIDE DEF P
  <2>3. [targets |-> spec.targets, problems |-> P] \in Milestone(pool)
    BY <2>1, <2>2 DEF Milestone, PhaseSpec
  <2>4. Extended(v, spec, P) \in V
    <3> HIDE DEF pool
    <3> QED BY <2>3 DEF Extended
  <2> QED BY <2>4 DEF P, spec
<1> HIDE DEF n, add, plan, pool, profile
<1>4. h \in [V \X (1..n) -> V]
  BY <1>3
<1>5. <<>> \in V
  OBVIOUS
<1>6. PICK w \in [SUBSET (1..n) -> V] : Folds(n, <<>>, h, w)
  <2> HIDE DEF h, V
  <2> QED BY <1>2, <1>4, <1>5, FoldExists
<1>7. Rec(w)
  <2>1. ASSUME NEW s \in SUBSET (1..n), s # {}
        PROVE  w[s] = add(w[s \ {Max(s)}], Max(s))
    <3>1. n \in Nat /\ s \in SUBSET (0..n)
      BY <1>2
    <3>2. Max(s) \in 1..n /\ s \ {Max(s)} \in SUBSET (1..n)
      BY <2>1, <3>1, GreatestNumber
    <3>3. w[s \ {Max(s)}] \in V
      BY <3>2
    <3>4. w[s] = h[w[s \ {Max(s)}], Max(s)]
      <4> HIDE DEF h
      <4> QED BY <1>6, <2>1 DEF Folds
    <3> QED BY <3>2, <3>3, <3>4
  <2>2. w[{}] = <<>>
    BY <1>6 DEF Folds
  <2>3. w = [s \in SUBSET (1..n) |-> w[s]]
    OBVIOUS
  <2> HIDE DEF h, V
  <2> QED BY <1>2, <2>1, <2>2, <2>3
<1>8. Rec(iter)
  <2> HIDE DEF Rec
  <2> QED BY <1>7
<1> HIDE DEF iter
<1>9. \A s \in SUBSET (1..n) :
          iter[s] = IF s = {} THEN <<>> ELSE add(iter[s \ {Max(s)}], Max(s))
  BY <1>2, <1>8
<1>10. acc[0] = <<>>
  <2>1. 1..0 = {} /\ 0 \in 0..n
    BY <1>2
  <2> QED BY <1>9, <2>1
<1>11. ASSUME NEW k \in 1..n PROVE acc[k] = add(acc[k - 1], k)
  <2>1. 1..k \in SUBSET (1..n) /\ 1..k # {} /\ (1..k) \ {k} = 1..(k - 1)
        /\ Max(1..k) = k
    BY <1>2, FirstNumbers
  <2>2. iter[1..k] = add(iter[(1..k) \ {k}], k)
    BY <1>9, <2>1
  <2>3. acc[k] = iter[1..k] /\ acc[k - 1] = iter[1..(k - 1)]
    BY <1>2
  <2> HIDE DEF acc
  <2> QED BY <2>1, <2>2, <2>3
<1>12. acc[n] = iter[1..n]
  BY <1>2
<1> HIDE DEF acc
<1> QED BY <1>1, <1>2, <1>10, <1>11, <1>12 DEF n, add, plan, pool, profile

LEMMA MilestonesBuilt ==
  ASSUME LearningTypeOK, NEW account
  PROVE  LET profile == Profile(account)
             pool == Pool(profile)
             plan == Plan(profile)
         IN  MilestonesSoFar(Milestones(profile, pool), plan, pool, profile, Len(plan))
<1> DEFINE profile == Profile(account)
           pool == Pool(profile)
           plan == Plan(profile)
           n == Len(plan)
<1>1. Apart(plan)
  BY PlanApart DEF LearningTypeOK, AnalyticsTypeOK
<1>2. PICK acc :
          /\ acc[0] = <<>>
          /\ \A k \in 1..n : acc[k] = Extended(acc[k - 1], plan[k],
                 SelectProblems(profile, plan[k], pool, Keys(acc[k - 1])))
          /\ Milestones(profile, pool) = acc[n]
  BY <1>1, MilestonesInSteps
<1>3. n \in Nat
  BY <1>1 DEF Apart
<1> DEFINE Sofar(ms, k) == MilestonesSoFar(ms, plan, pool, profile, k)
           G == {k \in 0..n : Sofar(acc[k], k)}
<1>4. ASSUME NEW k \in 0..n, k < n, Sofar(acc[k], k)
      PROVE  Sofar(Extended(acc[k], plan[k + 1],
                 SelectProblems(profile, plan[k + 1], pool, Keys(acc[k]))), k + 1)
  <2> DEFINE ms == acc[k]
  <2> HIDE DEF ms, plan
  <2>1. MilestonesSoFar(ms, plan, pool, profile, k)
    BY <1>4 DEF ms
  <2> QED BY <1>1, <1>4, <2>1, MilestoneStep DEF ms
<1> HIDE DEF plan, pool, profile
<1>5. 0 \in G
  <2>1. <<>> \in Seq(Milestone(pool)) /\ DOMAIN <<>> = {}
    OBVIOUS
  <2>2. Sofar(<<>>, 0)
    BY <2>1 DEF MilestonesSoFar
  <2> QED BY <1>2, <1>3, <2>2
<1> HIDE DEF n, Sofar
<1>6. ASSUME NEW k \in 0..n, k \in G, k < n PROVE k + 1 \in G
  <2>1. k + 1 \in 1..n /\ k + 1 \in 0..n /\ (k + 1) - 1 = k
    BY <1>3, <1>6
  <2>2. acc[k + 1] = Extended(acc[k], plan[k + 1],
                 SelectProblems(profile, plan[k + 1], pool, Keys(acc[k])))
    BY <1>2, <2>1
  <2>3. Sofar(acc[k + 1], k + 1)
    BY <1>4, <1>6, <2>2
  <2> QED BY <2>1, <2>3
<1> HIDE DEF G
<1>7. \A k \in 0..n : k \in G
  BY <1>3, <1>5, <1>6, Upwards
<1>8. Sofar(acc[n], n)
  BY <1>3, <1>7 DEF G
<1> QED BY <1>2, <1>8 DEF Sofar, n, plan, pool, profile

\* The first elements of a sequence, and what they hold.
LEMMA FirstElements ==
  ASSUME NEW S, NEW s \in Seq(S), NEW k \in 0..Len(s)
  PROVE  /\ SubSeq(s, 1, k) \in Seq(S)
         /\ \A x \in ToSet(SubSeq(s, 1, k)) : \E i \in 1..k : s[i] = x
         /\ k < Len(s) => Append(SubSeq(s, 1, k), s[k + 1]) = SubSeq(s, 1, k + 1)
         /\ k = 0 => SubSeq(s, 1, k) = <<>>
         /\ k = Len(s) => SubSeq(s, 1, k) = s
<1> DEFINE t == SubSeq(s, 1, k)
<1>1. t \in Seq(S) /\ DOMAIN t = 1..k /\ Len(t) = k /\ \A i \in 1..k : t[i] = s[i]
  OBVIOUS
<1>2. k = 0 => t = <<>>
  OBVIOUS
<1>3. k = Len(s) => t = s
  OBVIOUS
<1>4. ASSUME k < Len(s) PROVE Append(t, s[k + 1]) = SubSeq(s, 1, k + 1)
  <2> DEFINE u == SubSeq(s, 1, k + 1)
             v == Append(t, s[k + 1])
  <2>1. u \in Seq(S) /\ Len(u) = k + 1 /\ \A i \in 1..(k + 1) : u[i] = s[i]
    BY <1>4
  <2>2. s[k + 1] \in S
    BY <1>4
  <2> HIDE DEF t
  <2>3. v \in Seq(S) /\ Len(v) = k + 1 /\ v[k + 1] = s[k + 1]
        /\ \A i \in 1..k : v[i] = s[i]
    BY <1>1, <2>2
  <2>4. \A i \in 1..(k + 1) : i \in 1..k \/ i = k + 1
    OBVIOUS
  <2> HIDE DEF u, v
  <2>5. \A i \in 1..(k + 1) : u[i] = v[i]
    BY <2>1, <2>3, <2>4
  <2>6. u = v
    BY <2>1, <2>3, <2>5
  <2> QED BY <2>6 DEF u, v
<1> HIDE DEF t
<1>5. \A x \in ToSet(t) : \E i \in 1..k : s[i] = x
  BY <1>1 DEF ToSet
<1> QED BY <1>1, <1>2, <1>3, <1>4, <1>5 DEF t

\* FoldLeft keeps the milestones that do not offend: all of them, if none does.
LEMMA NothingRepaired ==
  ASSUME NEW S, NEW ms \in Seq(S), NEW pool,
         \A i \in DOMAIN ms : ~Offends(ms[i], SubSeq(ms, 1, i - 1), pool)
  PROVE  Repaired(ms, pool) = ms
<1> DEFINE n == Len(ms)
           V == Seq(S)
           add(v, k) == IF Offends(ms[k], v, pool) THEN v ELSE Append(v, ms[k])
           h == [x \in V \X (1..n) |-> add(x[1], x[2])]
           Rec(i) == i = [s \in SUBSET (DOMAIN ms) |->
                            IF s = {} THEN <<>>
                            ELSE add(i[s \ {Max(s)}], Max(s))]
           iter == CHOOSE i : Rec(i)
<1>1. Repaired(ms, pool) = iter[DOMAIN ms]
  BY DEF Repaired, FoldLeft, MapThenFoldSet
<1>2. DOMAIN ms = 1..n /\ n \in Nat
  OBVIOUS
<1>3. ASSUME NEW v \in V, NEW k \in 1..n PROVE add(v, k) \in V
  <2>1. ms[k] \in S
    OBVIOUS
  <2> QED BY <2>1
<1> HIDE DEF n, add
<1>4. h \in [V \X (1..n) -> V]
  BY <1>3
<1>5. <<>> \in V
  OBVIOUS
<1>6. PICK w \in [SUBSET (1..n) -> V] : Folds(n, <<>>, h, w)
  <2> HIDE DEF h, V
  <2> QED BY <1>2, <1>4, <1>5, FoldExists
<1>7. Rec(w)
  <2>1. ASSUME NEW s \in SUBSET (1..n), s # {}
        PROVE  w[s] = add(w[s \ {Max(s)}], Max(s))
    <3>1. n \in Nat /\ s \in SUBSET (0..n)
      BY <1>2
    <3>2. Max(s) \in 1..n /\ s \ {Max(s)} \in SUBSET (1..n)
      BY <2>1, <3>1, GreatestNumber
    <3>3. w[s \ {Max(s)}] \in V
      BY <3>2
    <3>4. w[s] = h[w[s \ {Max(s)}], Max(s)]
      <4> HIDE DEF h
      <4> QED BY <1>6, <2>1 DEF Folds
    <3> QED BY <3>2, <3>3, <3>4
  <2>2. w[{}] = <<>>
    BY <1>6 DEF Folds
  <2>3. w = [s \in SUBSET (1..n) |-> w[s]]
    OBVIOUS
  <2> HIDE DEF h, V
  <2> QED BY <1>2, <2>1, <2>2, <2>3
<1>8. Rec(iter)
  <2> HIDE DEF Rec
  <2> QED BY <1>7
<1> HIDE DEF iter
<1>9. \A s \in SUBSET (1..n) :
          iter[s] = IF s = {} THEN <<>> ELSE add(iter[s \ {Max(s)}], Max(s))
  BY <1>2, <1>8
<1> DEFINE G == {k \in 0..n : iter[1..k] = SubSeq(ms, 1, k)}
<1>10. 0 \in G
  <2>1. 1..0 = {} /\ 0 \in 0..n
    BY <1>2
  <2>2. SubSeq(ms, 1, 0) = <<>>
    BY <1>2, <2>1, FirstElements DEF n
  <2>3. iter[1..0] = <<>>
    BY <1>9, <2>1
  <2> QED BY <2>1, <2>2, <2>3
<1>11. ASSUME NEW k \in 0..n, k \in G, k < n PROVE k + 1 \in G
  <2>1. k + 1 \in 1..n /\ k + 1 \in 0..n /\ (k + 1) - 1 = k
    BY <1>2, <1>11
  <2>2. 1..(k + 1) \in SUBSET (1..n) /\ 1..(k + 1) # {}
        /\ (1..(k + 1)) \ {k + 1} = 1..k /\ Max(1..(k + 1)) = k + 1
    BY <1>2, <2>1, FirstNumbers
  <2>3. iter[1..(k + 1)] = add(iter[(1..(k + 1)) \ {k + 1}], k + 1)
    BY <1>9, <2>2
  <2>4. iter[(1..(k + 1)) \ {k + 1}] = SubSeq(ms, 1, k)
    BY <1>11, <2>2
  <2>5. ~Offends(ms[k + 1], SubSeq(ms, 1, k), pool)
    BY <1>2, <2>1
  <2>6. add(SubSeq(ms, 1, k), k + 1) = Append(SubSeq(ms, 1, k), ms[k + 1])
    BY <2>5 DEF add
  <2>7. Append(SubSeq(ms, 1, k), ms[k + 1]) = SubSeq(ms, 1, k + 1)
    BY <1>11, FirstElements DEF n
  <2> HIDE DEF add
  <2> QED BY <2>1, <2>3, <2>4, <2>6, <2>7
<1> HIDE DEF G
<1>12. \A k \in 0..n : k \in G
  BY <1>2, <1>10, <1>11, Upwards
<1>13. iter[1..n] = SubSeq(ms, 1, n)
  BY <1>2, <1>12 DEF G
<1>14. SubSeq(ms, 1, n) = ms
  BY <1>2, FirstElements DEF n
<1> QED BY <1>1, <1>2, <1>13, <1>14

LEMMA RoadmapIsSound ==
  ASSUME LearningTypeOK
  PROVE  RoadmapSound
<1> DEFINE profile == Profile(connected)
           pool == Pool(profile)
           plan == Plan(profile)
           ms == Milestones(profile, pool)
           n == Len(ms)
<1>1. MilestonesSoFar(ms, plan, pool, profile, Len(plan))
  BY MilestonesBuilt
<1>2. /\ \A c \in pool : c.key \notin profile.solved
      /\ \A c, d \in pool : c.title = d.title => c = d
      /\ IsFiniteSet(pool)
  <2> HIDE DEF profile
  <2> QED BY PoolIsFit
<1>3. profile.solved = SolvedIn(ScopeForAnalytics(connected))
  BY ProfileTyped DEF LearningTypeOK, AnalyticsTypeOK
<1>4. RoadmapSound <=> SoundMilestones(ms, pool, profile)
  BY DEF RoadmapSound
<1> HIDE DEF plan, ms, pool, profile
<1>5. ms \in Seq(Milestone(pool)) /\ n \in Nat /\ DOMAIN ms = 1..n
  BY <1>1 DEF MilestonesSoFar
<1>6. ASSUME NEW i \in 1..n
      PROVE  /\ ms[i].problems \in SUBSET pool
             /\ ms[i].problems # {} /\ Cardinality(ms[i].problems) >= MinProblems
             /\ \A c \in ms[i].problems : AllowedDifficulty(c, profile)
             /\ ms[i].targets # {}
  <2>1. ms[i] \in Milestone(pool)
    BY <1>5
  <2>2. ms[i].problems \in SUBSET pool
    BY <2>1 DEF Milestone
  <2> QED BY <1>1, <1>5, <2>2 DEF MilestonesSoFar
<1>7. ASSUME NEW i \in 1..n, NEW j \in 1..n, i # j
      PROVE  /\ ms[i].targets \cap ms[j].targets = {}
             /\ \A c \in ms[i].problems, d \in ms[j].problems : c.key # d.key
  BY <1>1, <1>5, <1>7 DEF MilestonesSoFar
<1> HIDE DEF n
<1>8. ASSUME NEW i \in 1..n
      PROVE  ~Offends(ms[i], SubSeq(ms, 1, i - 1), pool)
  <2> DEFINE earlier == SubSeq(ms, 1, i - 1)
             m == ms[i]
  <2>1. \A x \in ToSet(earlier) : \E j \in 1..(i - 1) : ms[j] = x
    <3>1. i - 1 \in 0..Len(ms)
      BY <1>5 DEF n
    <3> QED BY <1>5, <3>1, FirstElements
  <2>2. \A j \in 1..(i - 1) : j \in 1..n /\ j # i
    BY <1>5
  <2> HIDE DEF earlier, m
  <2>3. \A x \in ToSet(earlier) : /\ x.problems \in SUBSET pool
                                  /\ \A c \in m.problems, d \in x.problems : c.key # d.key
    BY <1>6, <1>7, <2>1, <2>2 DEF m
  <2>4. m.problems \in SUBSET pool /\ Cardinality(m.problems) >= MinProblems
    BY <1>6 DEF m
  <2>5. ASSUME NEW c \in m.problems
        PROVE  /\ \E d \in pool : d.key = c.key
               /\ c.key \notin Keys(earlier) /\ c.title \notin Titles(earlier)
               /\ \A d \in m.problems \ {c} : d.title # c.title
    <3>1. c \in pool /\ \A d \in m.problems \ {c} : d.title # c.title
      BY <1>2, <2>4
    <3>2. c.key \notin Keys(earlier)
      BY <2>3 DEF Keys
    <3>3. c.title \notin Titles(earlier)
      BY <1>2, <2>3, <3>1 DEF Titles
    <3> QED BY <3>1, <3>2, <3>3
  <2>6. ~(Cardinality(m.problems) < MinProblems)
    <3>1. IsFiniteSet(m.problems)
      BY <1>2, <2>4, FS_Subset
    <3>2. Cardinality(m.problems) \in Nat /\ MinProblems \in Nat
      BY <3>1, FS_CardinalityType, LearningAssumption
    <3> QED BY <2>4, <3>2
  <2>7. ~Offends(m, earlier, pool)
    BY <2>5, <2>6 DEF Offends
  <2> QED BY <2>7 DEF m, earlier
<1>9. ASSUME n > 1 PROVE Cardinality({m.targets : m \in ToSet(ms)}) > 1
  <2> DEFINE T == {m.targets : m \in ToSet(ms)}
             F == [i \in 1..n |-> ms[i].targets]
             two == {ms[1].targets, ms[2].targets}
  <2>1. 1 \in 1..n /\ 2 \in 1..n
    BY <1>5, <1>9 DEF n
  <2>2. two \in SUBSET T
    BY <1>5, <2>1 DEF ToSet
  <2>3. ms[1].targets # ms[2].targets
    BY <1>6, <1>7, <2>1
  <2>4. F \in Surjection(1..n, T)
    BY <1>5 DEF Surjection, ToSet
  <2> HIDE DEF T, F
  <2>5. IsFiniteSet(T)
    <3>1. IsFiniteSet(1..n)
      BY <1>5, FS_Interval DEF n
    <3> QED BY <2>4, <3>1, FS_Surjection
  <2>6. Cardinality(two) = 2
    <3>1. IsFiniteSet({ms[1].targets}) /\ Cardinality({ms[1].targets}) = 1
      BY FS_Singleton
    <3>2. two = {ms[1].targets} \cup {ms[2].targets}
      OBVIOUS
    <3>3. Cardinality({ms[1].targets} \cup {ms[2].targets}) = 1 + 1
      BY <2>3, <3>1, FS_AddElement
    <3> QED BY <3>2, <3>3
  <2> HIDE DEF two
  <2>7. Cardinality(two) <= Cardinality(T) /\ Cardinality(T) \in Nat
    BY <2>2, <2>5, FS_Subset, FS_CardinalityType
  <2> QED BY <2>6, <2>7 DEF T
<1>10. ValidRoadmap(ms, pool)
  BY <1>5, <1>8, <1>9 DEF ValidRoadmap, n
<1>11. Repaired(ms, pool) = ms
  BY <1>5, <1>8, NothingRepaired
<1>12. \A i, j \in DOMAIN ms : i # j => ms[i].targets \cap ms[j].targets = {}
  BY <1>5, <1>7
<1>13. \A m \in ToSet(ms) : \A c \in m.problems :
           /\ Band[c.difficulty] <= profile.ceiling + 1
           /\ c.key \notin SolvedIn(ScopeForAnalytics(connected))
  <2>1. \A m \in ToSet(ms) : \E i \in 1..n : ms[i] = m
    BY <1>5 DEF ToSet
  <2> QED BY <1>2, <1>3, <1>6, <2>1 DEF AllowedDifficulty
<1> QED BY <1>4, <1>10, <1>11, <1>12, <1>13 DEF SoundMilestones

LEMMA LearningPart == DerivedSpec => [](part = "learning" => LearningTypeOK)
<1>1. DerivedSpec => [](part # "memory" => CollectiveTypeOK)
  BY CollectiveTypes
<1>2. (part # "memory" => CollectiveTypeOK) => (part = "learning" => LearningTypeOK)
  BY DEF CollectiveTypeOK
<1> QED BY <1>1, <1>2, PTL

\* learning/recommend.py:75-101: the recommendations are as many as the limit and the
\* first patterns of the candidates allow, and whatever is left out is worse than those
\* chosen, or than one that shares its first pattern.
THEOREM RecommendationsAreBest == DerivedSpec => []RecommendationsBest
<1>1. (part = "learning" => LearningTypeOK) => RecommendationsBest
  BY RecommendationsAreFull DEF RecommendationsBest
<1> QED BY <1>1, LearningPart, PTL

\* learning/roadmap.py:312-359, 426-546, 554-666: whatever the history, the catalogue
\* and the limits, the roadmap passes its own validator, no repair drops a milestone,
\* and every problem is unsolved, within reach and in one phase only.
THEOREM RoadmapsAreSound == DerivedSpec => []RoadmapsSound
<1>1. (part = "learning" => LearningTypeOK) => RoadmapsSound
  BY RoadmapIsSound DEF RoadmapsSound
<1> QED BY <1>1, LearningPart, PTL
=============================================================================
