SPECIFICATION FairSpec
CONSTANTS
    r1 = r1
    r2 = r2
    k1 = k1
    k2 = k2
    Requests = {r1, r2}
    RowLocks <- BothDatabases
    Texts = {1, 2}
    ClientKeys = {k1}
    MaxRequests = 3
    MaxSource = 2
    MaxFaults = 1
CHECK_DEADLOCK FALSE
INVARIANTS
    TypeOK
    AtMostOneCall
PROPERTIES
    SentAsReviewed
    RequestsEnd
