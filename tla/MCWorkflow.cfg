\* Two nodes in a chain and one that may be added; two children at a time, but one
\* on a gateway; three children in all, and one request for each node; one
\* command, or message, and one crash or close.
SPECIFICATION Spec
CONSTANTS
    n1 = n1
    n2 = n2
    n3 = n3
    None = None
    Nodes = {n1, n2, n3}
    First = {n1, n2}
    Deps <- MCDeps
    MaxAgents = 3
    MaxMessages = 1
    MaxContinuations = 1
    Gateway <- MCGateway
    MaxParallel = 2
    MaxPerGateway = 1
    MaxNodes = 3
    MaxRequests = 3
    MaxPerNode = 1
    MaxAttempts = 2
    MaxRoutes = 2
    MaxOps = 1
    MaxEnds = 1
INVARIANTS
    ChildrenAreBounded
    NobodyIsForgotten
PROPERTIES
    ReportsReachDependents
\* The bounds end every workflow.
CHECK_DEADLOCK FALSE
