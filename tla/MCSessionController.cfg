\* The reducer under failing journal writes, restarts and /resume; the tasks of
\* a session; the parts of MCStores, one after the other.
CONSTANTS
    MaxInputs = 2
    Turns = {t1, t2}
    Requests = {r1, r2}
    Calls = {c1, c2}
    Asks = {a1}
    None = None
    MaxTasks = 2
    MaxHistory = 1
    JoinTimesOut = TRUE
    JournalMayFail = TRUE
    Restarts = {TRUE, FALSE}
    Homes = {"h1", "h2", "h3"}
    Elsewhere = {"w"}
    PrefixOf <- MCPrefixOf
    Files = {f1, f2}
    Starters = {p1, p2}
    MaxMoves = 2
    Sources = {"s", "u"}
    Usage = "u"
    Migrators = {m1, m2}
    MaxWrites = 2
    Sessions = {s1, s2, s3}
    Root = s1
    Words = {"a", "b"}
    Runs = {g1}
    MaxWords = 3
    MaxRows = 3
    SourceFiles = {"f"}
    Texts = {"a", "b"}
    Slugs = {"n", "m"}
    Builders = {"p", "q"}
    MaxSourceWrites = 1
    MaxNotes = 1
    MaxBuilds = 3
    Clients = {"p", "q"}
    Ceiling = 2
    Streak = 2
    Terminals = {"p", "q"}
    HandKeys = {"h"}
    AutoKeys = {"a", "b"}
    Contents = {"x", "y"}
    MaxChanges = 3
    Chats = {k1, k2}
    Threads = {"t1", "t2"}
    Jobs = {"j1", "j2"}
    RecapMinimum = 1
    MemoryMinimum = 1
    NewPrompts = 1
    MaxFailures = 1
    MaxAsked = 2
INIT MCInit
NEXT MCNext
INVARIANTS
    TypeOK
    JournalAgrees
    ToolProtocol
    EndsAreReported
    MovesAreWhole
    HistoryIsHonest
    NotesAreSound
PROPERTIES
    ImplementsLedger
    OutcomeIsFinal
\* The parts end, or their bounds end them.
CHECK_DEADLOCK FALSE
