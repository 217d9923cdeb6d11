SPECIFICATION Spec
CONSTANTS
    Keys = {k1}
    Headers = {h1}
    NoKey = NoKey
    NoExpiry = NoExpiry
    Malformed = Malformed
    Absent = Absent
    IdleTimeout = 2
    PruneInterval = 1
    Latency = 1
    MaxTime = 5
INVARIANTS TypeOK BoundedStaleness IdleAgentStops
PROPERTIES KeptAlive ContractKept
\* the clock is bounded
CHECK_DEADLOCK FALSE
