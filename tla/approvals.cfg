SPECIFICATION Spec
CONSTANTS
    q1 = q1
    q2 = q2
    Drafts = 2
    Requests = {q1, q2}
    RowLocks <- BothDatabases
    MaxApprovals = 2
    MaxChanges = 1
    MaxFaults = 1
CHECK_DEADLOCK FALSE
SYMMETRY Symmetry
INVARIANTS
    TypeOK
    ScheduledOnce
    OneTarget
