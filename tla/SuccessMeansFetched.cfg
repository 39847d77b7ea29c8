SPECIFICATION Spec
CONSTANTS
    Users = {u1}
    Public = {p1}
    Auth = {}
    Ui = {ui}
    MaxRecord = 1
    WindowLimit = 1
    PageSize = 1
    NoUser = NoUser
    NoConn = NoConn
SYMMETRY Symmetry
INVARIANTS
    SuccessMeansFetched
