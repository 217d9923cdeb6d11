SPECIFICATION FairSpec
CONSTANTS
    Conns = {c1, c2}
    Keys = {k1}
    Requests <- ShutdownOnly
    Unset = Unset
    Garbage = Garbage
    Null = Null
    Idler = Idler
    IdleEnabled = TRUE
    PruneEnabled = TRUE
    MaxRequests = 1
    MaxAcceptErrors = 0
PROPERTY ShutdownCompletes
\* the agent exits
CHECK_DEADLOCK FALSE
