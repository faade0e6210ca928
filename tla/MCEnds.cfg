\* A chain of two nodes, two children, one command, no end of the process; a
\* request of two attempts over a queue of one item; two tasks, one of them kept.
SPECIFICATION EndsSpec
CONSTANTS
    n1 = n1
    n2 = n2
    n3 = n3
    None = None
    Nodes = {n1, n2}
    First = {n1, n2}
    Deps <- MCDeps
    MaxAgents = 2
    MaxMessages = 0
    MaxContinuations = 1
    Gateway <- MCGateway
    MaxParallel = 1
    MaxPerGateway = 1
    MaxNodes = 2
    MaxRequests = 2
    MaxPerNode = 2
    MaxAttempts = 2
    MaxRoutes = 2
    MaxOps = 1
    MaxEnds = 0
    MaxItems = 3
    QueueSize = 1
    Connections = 2
    MaxTasks = 2
    MaxHistory = 1
    JoinTimesOut = FALSE
INVARIANT CompleteIsWhole
PROPERTIES
    WorkflowEnds
    EscEndsWorker
    CancelEnds
    ResultReachesModel
\* The bounds end every workflow, every stream and every session.
CHECK_DEADLOCK FALSE
