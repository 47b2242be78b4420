SPECIFICATION FairSpec
CONSTANTS
    w1 = w1
    w2 = w2
    Workers = {w1}
    Intervals = {2}
    BatchSize = 1
    ScanLimit = 2
    RowLocks = TRUE
    MaxUnlocked = 0
    MaxOccurrences = 3
    MaxRevisions = 2
    MaxTime = 2
    MaxFaults = 1
CHECK_DEADLOCK FALSE
INVARIANTS
    TypeOK
    SeriesIsALine
PROPERTIES
    SeriesContinues
    SuccessorContinuesSource
    KeepsSeries
    ReservationIsDurable
