CONSTANTS
    Items = {i1}
    Rows <- MCRows
    Names = {a}
    Requests = {t1, t2}
    MaxRevision = 3
SYMMETRY Interchangeable
SPECIFICATION Spec
INVARIANT LosersAreUnreferenced
CHECK_DEADLOCK FALSE
