SPECIFICATION Spec
CONSTANTS
    Registered = {"plugin", "resolverPlugin"}
    SetsUp = {"plugin"}
    ResolverSetsUp = {"resolverPlugin"}
    Files <- MCFiles
    Requests <- MCRequests
INVARIANTS TipIsTrue
\* a process ends once the helper is chosen
CHECK_DEADLOCK FALSE
