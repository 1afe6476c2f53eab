SPECIFICATION FairSpec
CONSTANTS
    walk1 = walk1
    walk2 = walk2
    case1 = case1
    case2 = case2
    Stdout = Stdout
    Garbage = Garbage
    Absent = Absent
    Paths <- MCPaths
    all_oids <- MCOids
    Inputs <- MCInputs
    Workers = 2
INVARIANTS
    TypeOK
    NothingElseIsWritten
    DestinationsAreWhole
    SuccessIsComplete
    NoLitter
PROPERTIES
    MainAndJobsEnd
\* the program ends
CHECK_DEADLOCK FALSE
