SPECIFICATION FairSpec
CONSTANTS
    a1 = a1
    t1 = t1
    t2 = t2
    q1 = q1
    Automations = {a1}
    Tickers = {t1, t2}
    Requests = {q1}
    Skills = {"attention", "series"}
    PerTick = 2
    Occurrences = 1
    MaxAsked = 1
    MaxFlips = 1
    MaxFaults = 1
CONSTRAINT OneDisturbance
CHECK_DEADLOCK FALSE
INVARIANTS
    TypeOK
    RunOnce
PROPERTIES
    NoneSkipped
    DueIsHandled
