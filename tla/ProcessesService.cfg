SPECIFICATION Spec
CONSTANTS
    Getters = {g1, g2}
    Shutdowners = {s1}
    Keys = {k1, k2}
    NoKey = NoKey
    Nobody = Nobody
    IdleShutdowns = TRUE
    MaxDials = 1
    MaxFaults = 1
SYMMETRY ClientSymmetry
INVARIANTS TypeOK OneAgent ListenerReachable LaunchRaceWon
PROPERTY ServiceSpec
\* all processes terminate
CHECK_DEADLOCK FALSE
