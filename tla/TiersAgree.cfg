SPECIFICATION Spec
CONSTANTS
    Threads = {t1}
    Ids = {i}
    Accounts = {a}
    Earlier = {}
    Locals = {l}
    Local = Local
    NoRow = NoRow
SYMMETRY Symmetry
INVARIANTS
    TiersAgree
