SPECIFICATION PartsSpec
CONSTANTS
    Users = {u1, u2}
    Public = {p1}
    Auth = {a1}
    Ui = {ui}
    MaxRecord = 3
    WindowLimit = 2
    PageSize = 1
    NoUser = NoUser
    NoConn = NoConn
SYMMETRY Symmetry
CONSTRAINT Enough
INVARIANTS
    TypeOK
    CoverageHonest
    AuthComplete
    IdleDisconnectSticks
PROPERTIES
    WatermarkMonotone
