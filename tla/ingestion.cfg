SPECIFICATION FairSpec
CONSTANTS
    Sources = 2
    Telegram <- Second
    Fresh <- First
    Worker = "worker"
    Requests = {"q1"}
    Page = 1
    Window = 1
    MaxMessages <- OneAndThree
    MaxAsked = 1
    MaxFailures = 1
    MaxFaults = 1
CHECK_DEADLOCK FALSE
INVARIANTS
    TypeOK
    NoGap
    LeaseHeld
PROPERTIES
    Drained
