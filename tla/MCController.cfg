SPECIFICATION FairSpec
CONSTANTS
    v1 = v1
    v2 = v2
    v3 = v3
    Value = {v1, v2, v3}
    NoOid = NoOid
    NotCached = NotCached
    EndOfMib = EndOfMib
    NoSuchObject = NoSuchObject
    EndOfMibView = EndOfMibView
    Pending = Pending
    BackendError = BackendError
    Nothing = Nothing
    MIB <- MCMib
    OIDS <- MCOids
    sysObjectID <- MCSys
    Families <- MCFamilies
    Detail <- MCDetail
    Early <- MCEarly
    MaxCalls = 16
    MayFail = TRUE
INVARIANTS
    TypeOK
    NoGeneratorForgotten
    FailuresAreReported
    TablesAreComplete
    AllPluginsRan
PROPERTIES
    RunReturns
\* the program ends when run returns
CHECK_DEADLOCK FALSE
