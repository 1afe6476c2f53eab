SPECIFICATION Spec
CONSTANTS
    OIDS <- MCOids
    Value = {v1}
    NoOid = NoOid
    NotCached = NotCached
    EndOfMib = EndOfMib
    NoSuchObject = NoSuchObject
    EndOfMibView = EndOfMibView
INVARIANTS
    TypeOK
    NextsDisjoint
    NextsWithinEnd
    ReportedObjectsExist
    NextFromSetIsItsLoop
    NextIsLearned
    EndIsAnswered
    InvalidatedIsForgotten
PROPERTIES
    UncontradictedIsKept
    ImplementsNextClaims
