SPECIFICATION FairSpec
CONSTANTS
    Getters = {g1, g2}
    Shutdowners = {s1}
    Keys = {k1}
    NoKey = NoKey
    Nobody = Nobody
    IdleShutdowns = TRUE
    MaxDials = 1
    MaxFaults = 1
PROPERTY ClientsTerminate
\* all processes terminate
CHECK_DEADLOCK FALSE
