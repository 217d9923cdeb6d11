SPECIFICATION Spec
CONSTANTS
    Headers = {}
    NoKey = NoKey
    NoExpiry = NoExpiry
    Malformed = Malformed
    Absent = Absent
    Getters = {g1, g2}
    DefaultLife = 1
    MaxLogins = 1
    MaxTime = 2
    Keys <- MCKeys
    URIs <- MCURIs
    Setups <- MCSetups
    Challenges <- MCChallenges
    Responses <- MCResponses
    DockerFiles <- MCDockerFiles
    Dockers <- MCDockers
    Pairs <- MCPairs
SYMMETRY MCSymmetry
INVARIANTS TypeOK TokenFitsRequest ChainPasswordIsSent ExpiryWithinDelay
PROPERTIES GetsLeadOn
\* every process ends
CHECK_DEADLOCK FALSE
