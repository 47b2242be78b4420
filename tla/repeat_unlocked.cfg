SPECIFICATION Spec
CONSTANTS
    w1 = w1
    w2 = w2
    Workers = {w1, w2}
    Intervals = {1}
    BatchSize = 3
    ScanLimit = 3
    RowLocks = FALSE
    MaxUnlocked = 1
    MaxOccurrences = 3
    MaxRevisions = 2
    MaxTime = 1
    MaxFaults = 0
CHECK_DEADLOCK FALSE
SYMMETRY WorkerSymmetry
CONSTRAINT TwoUnderWay
INVARIANTS
    OnlyLastWaits
