SPECIFICATION FairSpec
CONSTANTS
    MIB <- MCMib
    OIDS <- MCOids
    Value = {v1, v2, v3}
    v1 = v1
    v2 = v2
    v3 = v3
    MaxRequests = 1
    Setups <- MCCrash
    BulkMax = 2
    MinBulk = 1
    Pending = Pending
    BackendError = BackendError
    NoOid = NoOid
    NotCached = NotCached
    EndOfMib = EndOfMib
    NoSuchObject = NoSuchObject
    EndOfMibView = EndOfMibView
PROPERTIES
    EveryFutureCompletes
\* an exception leaves the step and the program ends
CHECK_DEADLOCK FALSE
