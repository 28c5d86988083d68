CONSTANTS
    Clients = {c1, c2}
    Ids = {1, 2}
    Names = {n1, n2}
SPECIFICATION Spec
SYMMETRY ClientsAndNames
CHECK_DEADLOCK FALSE
INVARIANTS
    UntouchedRowsExact
    IntersectionRowsHold
    NamelessRowsNeedTruncate
