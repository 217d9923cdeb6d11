SPECIFICATION FairSpec
CONSTANTS
    Conns = {c1}
    Keys = {k1, k2}
    Requests <- AllRequests
    Unset = Unset
    Garbage = Garbage
    Null = Null
    Idler = Idler
    IdleEnabled = TRUE
    PruneEnabled = TRUE
    MaxRequests = 2
    MaxAcceptErrors = 1
INVARIANT AnsweredAsAsked
PROPERTIES ShutdownCompletesUnlessStuck ClientsReleased
\* the agent exits
CHECK_DEADLOCK FALSE
