SPECIFICATION Spec
CONSTANTS
    Threads = {t1, t2}
    Ids = {i}
    Accounts = {a}
    Earlier = {e}
    Locals = {l}
    Local = Local
    NoRow = NoRow
SYMMETRY Symmetry
INVARIANTS
    TypeOK
    ExportsFollow
    AddedStored
    TiersAgreeIfWhole
PROPERTIES
    RowsOnlyImprove
