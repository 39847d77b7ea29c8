SPECIFICATION Spec
CONSTANTS
    Users = {u1, u2}
    Public = {}
    Auth = {a1}
    Ui = {ui}
    MaxRecord = 2
    WindowLimit = 1
    PageSize = 1
    NoUser = NoUser
    NoConn = NoConn
SYMMETRY Symmetry
INVARIANTS
    AuthAlwaysComplete
