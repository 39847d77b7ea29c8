SPECIFICATION MCSpec
CONSTANTS
    Problems = {"p", "q", "n"}
    Topics = {"x", "y", "z"}
    TopicsOf <- MCTopics
    DifficultyOf <- MCDifficulty
    Rows <- MCRows
    Accounts = {a, b}
    Manual = Manual
    Nobody = Nobody
    Failures = {"TLE"}
    MaxDay = 3
    MaxText = 2
    Absent = Absent
    Unset = Unset
    MaxStarts = 2
    Mistaken <- MCMistaken
    Window = 1
    DueAfter = 1
    QueueLimit = 2
    DueLimit = 1
    StruggleLimit = 1
    TimelineLimit = 3
    HalfSample = 2
    Patterns = {1, 2, 3, 4}
    PatternsOf <- MCPatternsOf
    Adjacent <- MCAdjacent
    Foundational = {2, 4}
    Families = {{1, 2}, {3, 4}}
    Structures = {{1, 4}}
    TitleOf <- MCTitle
    Published <- MCPublished
    RecentDays = 1
    MinProblems = 2
    MaxProblems = 2
    MaxPhases = 5
    Limit = 2
    NoList = NoList
    Cost <- MCCost
    Nested <- MCNested
    Techniques <- MCTechniques
SYMMETRY Symmetry
CHECK_DEADLOCK FALSE
INVARIANTS
    DerivedTypeOK
    ConnectedViewsAgree
    DisconnectedViewsExact
    AnswersCurrent
    VectorsUsable
    SearchStaysInAccount
    CountsAgree
    StreaksAreRuns
    NoneDueMissed
    RoadmapsSound
    RecommendationsBest
    UntriedIsNoStruggle
    InsightGrounded
PROPERTIES
    RevisionMonotone
