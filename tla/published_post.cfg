SPECIFICATION Spec
CONSTANTS
    w1 = w1
    w2 = w2
    e1 = e1
    e2 = e2
    Posts <- OnePost
    Intents <- TimerOrNever
    Workers = {w1, w2}
    Editors = {e1, e2}
    ViewsWorker = FALSE
    BatchSize = 1
    MaxEdits = 2
    MaxFaults = 1
CHECK_DEADLOCK FALSE
SYMMETRY Symmetry
INVARIANTS
    TypeOK
    DeletedOnce
    ChannelShowsRevision
PROPERTIES
    NothingReservedAfterwards
