SPECIFICATION FairSpec
CONSTANTS
    Requests = {q1, q2}
    Worker = worker
    Texts = {1, 2}
    Kinds = {"plain", "structured"}
    Instructions = {1, 2}
    KeepRecent = 1
    MaxEvents = 4
CHECK_DEADLOCK FALSE
INVARIANTS
    TypeOK
    PointersHold
    DraftAsSeen
PROPERTIES
    CurrentIsEarned
    UntouchedIsEnriched
