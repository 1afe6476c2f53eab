SPECIFICATION Spec
CONSTANTS
    MIB <- MCGapMib
    OIDS <- MCGapOids
    Value = {v1, v2, v3}
    v1 = v1
    v2 = v2
    v3 = v3
    MaxRequests = 3
    Setups <- MCAhead
    BulkMax = 2
    MinBulk = 1
    Pending = Pending
    BackendError = BackendError
    NoOid = NoOid
    NotCached = NotCached
    EndOfMib = EndOfMib
    NoSuchObject = NoSuchObject
    EndOfMibView = EndOfMibView
INVARIANTS
    ExistingObjectsAreFound
