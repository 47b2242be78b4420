SPECIFICATION FairSpec
CONSTANTS
    w1 = w1
    w2 = w2
    e1 = e1
    e2 = e2
    Posts <- OnePost
    Intents <- TimerOrViews
    Workers = {w1}
    Editors = {e1}
    ViewsWorker = TRUE
    BatchSize = 1
    MaxEdits = 0
    MaxFaults = 1
CHECK_DEADLOCK FALSE
PROPERTIES
    ViewsDelete
