SPECIFICATION FairSpec
CONSTANTS
    p1 = p1
    p2 = p2
    e1 = e1
    e2 = e2
    r1 = r1
    r2 = r2
    NoPublication = NoPublication
    Publications = {p1}
    Executors = {e1, e2}
    Recoverers = {r1}
    PostActionCount = 2
    TimedDelete = {p1}
    Repeating = {}
    Barred = {}
    LeaseTTL = 2
    RecoveryTTL = 1
    RowLocks = TRUE
    HookFaults = TRUE
    BulkRemoval = FALSE
    StudioPlanner = TRUE
    MaxIntent = 2
    MaxFlips = 2
    MaxTokens = 5
    MaxFaults = 2
CHECK_DEADLOCK FALSE
PROPERTIES
    ExpiredIsNeverPublished
    SendingEnds
    KeepsLifecycle
INVARIANTS
    TypeOK
    NothingSentUnlessClaimed
    PublishedAsPlanned
