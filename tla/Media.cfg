CONSTANTS
    j1 = j1
    e1 = e1
    e2 = e2
    n1 = n1
    n2 = n2
    kJob = kJob
    kEntry = kEntry
    Jobs = {j1}
    Entries = {e1, e2}
    Notes = {n1, n2}
    JobOf <- MCJobOf
    EntryOf <- MCEntryOf
    Keys = {kEntry}
    Home <- MCHome
    MaxRows = 2
    Requests = {t1, t2}
    Workers = {w1, w2}
    Batch = 1
    MaxAttempts = 2
    NoNote = NoNote
    NoKey = NoKey
SYMMETRY Interchangeable
SPECIFICATION Spec
INVARIANTS NoOrphan NoBrokenRow AttemptsBounded
PROPERTIES ImplementsFileLifecycle
