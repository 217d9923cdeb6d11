SPECIFICATION Spec
CONSTANTS
    Registered = {}
    Headers = {}
    NoKey = NoKey
    NoExpiry = NoExpiry
    Malformed = Malformed
    Absent = Absent
    Getters = {g1, g2}
    Secrets = {"old", "new"}
    SignatureLife = 1
    MaxChanges = 1
    MaxTime = 2
    Keys <- MCKeys
    URIs <- MCURIs
    Setups <- MCSetups
    Services <- MCServices
    Life <- MCLife
SYMMETRY MCSymmetry
INVARIANTS TypeOK AnswersSuit ExpiryHonest RoutedIsSupported UndisturbedGetIsAtomic SetupTellsTruth
\* every process ends
CHECK_DEADLOCK FALSE
