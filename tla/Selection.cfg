SPECIFICATION Spec
CONSTANTS
    Registered = {"plugin", "resolverPlugin"}
    SetsUp = {"plugin"}
    ResolverSetsUp = {"resolverPlugin"}
    Files <- MCFiles
    Requests <- MCRequests
INVARIANTS TypeOK FindsTheFirstMatch
PROPERTIES SearchEnds
\* a process ends once the helper is chosen
CHECK_DEADLOCK FALSE
