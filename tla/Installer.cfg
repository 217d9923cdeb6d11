SPECIFICATION Spec
CONSTANTS
    Installers = {i1, i2, i3}
    Getters = {g1, g2}
    None = None
    Setups <- MCSetups
SYMMETRY MCSymmetry
INVARIANTS TypeOK SourcesIntact InstallReplaces OneRendezvous WrapperFindsInstall
\* every process terminates
CHECK_DEADLOCK FALSE
