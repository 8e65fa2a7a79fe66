SPECIFICATION BoardSpec
CONSTANTS
  Workers = {w1}
  Days = {1, 2}
  Absences = {a1}
  Allocations = {x1}
  Bookers = {r1, r2}
  NoRow = NoRow
CHECK_DEADLOCK FALSE
INVARIANT NoAllocationWithoutItsWorker
