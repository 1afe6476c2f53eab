SPECIFICATION Spec
CONSTANTS
    MIB <- MCMib
    OIDS <- MCOids
    Value = {v1, v2, v3}
    v1 = v1
    v2 = v2
    v3 = v3
    MaxRequests = 3
    Setups <- MCSticky
    BulkMax = 2
    MinBulk = 1
    Pending = Pending
    BackendError = BackendError
    NoOid = NoOid
    NotCached = NotCached
    EndOfMib = EndOfMib
    NoSuchObject = NoSuchObject
    EndOfMibView = EndOfMibView
PROPERTIES
    FailuresAreNotCached
\* an exception leaves the step and the program ends
CHECK_DEADLOCK FALSE
