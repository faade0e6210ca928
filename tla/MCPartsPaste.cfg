\* The input box by itself: a child, one paste.
INIT Init
NEXT Next
CONSTANTS
    Parts = {"drafts"}
    Callers = {p1, p2}
    Attempts = {1, 2, 3}
    MaxTime = 2
    Threshold = 2
    BaseTTL = 1
    MaxTTL = 2
    Retries = 2
    Fixes = {"thinking"}
    MaxGoals = 2
    MaxRevision = 4
    RoundLimits = {1, 2}
    TailTokens = 2
    KeepTail = 1
    SourceTokens = 3
    CompactAt = 3
    MaxMessages = 5
    MaxHour = 2
    SamePlan = 1
    Cooldown = 2
    OtherSeat = TRUE
    Agents = {a}
    MaxDraft = 1
    MaxPastes = 1
    MaxEvents = 2
    MaxSubmits = 2
    MaxGates = 1
    Chats = {s1, s2}
    Tools = {"edit", "bash"}
    MaxEdits = 1
    Written <- MCWritten
    Secrets <- MCSecrets
    ChunkBytes = 3
    RingBytes = 3
    PageBytes = 3
    MayTimeOut = TRUE
    Unkillable = TRUE
    Batches <- MCBatches
    FanOut = {"flow", "fork"}
    Repeats = 2
    MaxTurns = 5
    MaxInbox = 1
    SavesFail = TRUE
    Items = {"a", "b", "c"}
    Matching = {"a", "c"}
    PageRows = 2
    Explicit = TRUE
    Columns = 3
    Texts <- MCTexts
    Origins = {"model", "tool"}
    DeferLimit = 2
    MaxSaid = 3
    Narrow = {"a"}
    Wide = {"w"}
    Appended <- MCAppended
    Sizes <- MCSizes
    MaxLength = 2
    MaxResizes = 1
    MaxTouches = 2
    OpenTag <- MCOpen
    CloseTag <- MCClose
    Chunks <- MCChunks
    Blanks = {" "}
    MaxKeep = 2
    Paths = {"managed", "plain"}
    MaxShown = 5
INVARIANT FoldedPasteIsSent
