SPECIFICATION FairSpec
CONSTANTS
    MIB <- MCEndMib
    OIDS <- MCEndOids
    Value = {v1, v2, v3}
    v1 = v1
    v2 = v2
    v3 = v3
    MaxRequests = 3
    Setups <- MCStacks
    BulkMax = 2
    MinBulk = 1
    Pending = Pending
    BackendError = BackendError
    NoOid = NoOid
    NotCached = NotCached
    EndOfMib = EndOfMib
    NoSuchObject = NoSuchObject
    EndOfMibView = EndOfMibView
INVARIANTS
    TypeOK
    CacheIsTruthful
    NoFutureLost
    NextsAskedOnce
PROPERTIES
    FalseMeansAllDone
    ImplementsQueryService
    FuturesComplete
\* getbulk may raise: the exception leaves the step and the program ends
CHECK_DEADLOCK FALSE
