SPECIFICATION MCSpec
CONSTANTS
    VaultThreads = {t1, t2}
    VaultUsers = {u1}
    Default = Default
    MasterKeys = {k1, k2}
    MaxSecrets = 2
    Missing = Missing
    Torn = Torn
    Writers = {w1, w2}
    Fields = {f, g}
    MaxChange = 3
    Absent = Absent
    Garbled = Garbled
    Pooled = {p1, p2}
    Private = {w}
    Sessions = {s1, s2}
    MaxDeletes = 2
    NoHandle = NoHandle
    Requested <- MCRequested
    MaxAllowed = 5
    BackoffMax = 8
    RateLimitMaxWait = 10
    RetryAfter = {0, 100}
    MaxCalls = 2
    Importers = {i1, i2}
    Entries = {e1, e2, e3}
    e1 = e1
    e2 = e2
    e3 = e3
    p = p
    q = q
    x = x
    TitleSlug <- MCTitleSlug
    ExternalIds = {x}
    Named <- MCNamed
    NewIds = {n1, n2, n3, n4}
    Account = Account
    NoAccount = NoAccount
    Files <- MCFiles
    NoRow = NoRow
SYMMETRY Symmetry
CONSTRAINT Followed
CHECK_DEADLOCK FALSE
INVARIANTS
    BoundaryTypeOK
    PayloadDecrypts
    RevokedGone
    OutdatedOnlyAfterFallback
    CallsBounded
    ImportedOnce
    NoGhostUnlessReopened
PROPERTIES
    SettingsImplement
