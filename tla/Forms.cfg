CONSTANTS
    Items = {i1}
    Rows <- MCRows
    Names = {a, b}
    Requests = {t1, t2}
    MaxRevision = 3
SYMMETRY Interchangeable
SPECIFICATION Spec
INVARIANTS NoOrphanPhoto NoBrokenPhoto
PROPERTIES SavedStatusIsCurrent
CHECK_DEADLOCK FALSE
