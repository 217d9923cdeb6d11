SPECIFICATION Spec
CONSTANTS
    Installers = {i1, i2}
    Getters = {g1, g2}
    None = None
    Setups <- MCSetups
SYMMETRY MCSymmetry
INVARIANT InstalledRuns
\* every process terminates
CHECK_DEADLOCK FALSE
