CONSTANTS
    j1 = j1
    e1 = e1
    e2 = e2
    n1 = n1
    n2 = n2
    kJob = kJob
    kEntry = kEntry
    Jobs = {j1}
    Entries = {e1}
    Notes = {}
    JobOf <- MCJobOf
    EntryOf <- MCEntryOf
    Keys = {kJob, kEntry}
    Home <- MCHome
    MaxRows = 2
    Requests = {t1}
    Workers = {w1}
    Batch = 2
    MaxAttempts = 2
    NoNote = NoNote
    NoKey = NoKey
SPECIFICATION LiveSpec
PROPERTIES Swept
