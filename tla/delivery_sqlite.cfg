SPECIFICATION Spec
CONSTANTS
    p1 = p1
    p2 = p2
    e1 = e1
    e2 = e2
    r1 = r1
    r2 = r2
    NoPublication = NoPublication
    Publications = {p1}
    Executors = {e1, e2}
    Recoverers = {r1}
    PostActionCount = 2
    TimedDelete = {}
    Repeating = {p1}
    Barred = {}
    LeaseTTL = 1
    RecoveryTTL = 1
    RowLocks = FALSE
    HookFaults = TRUE
    BulkRemoval = TRUE
    StudioPlanner = TRUE
    MaxIntent = 1
    MaxFlips = 1
    MaxTokens = 3
    MaxFaults = 1
CHECK_DEADLOCK FALSE
SYMMETRY WorkerSymmetry
INVARIANTS
    AtMostOneSend
    LedgerIsTruthful
