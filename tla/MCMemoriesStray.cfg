\* Memories are drawn from a conversation while the user switches to the chat
\* of another project.
SPECIFICATION NotesSpec
CONSTANTS
    Chats = {c1, c2}
    Threads = {"t1"}
    Jobs = {"j1"}
    RecapMinimum = 2
    MemoryMinimum = 2
    NewPrompts = 2
    MaxFailures = 1
    MaxAsked = 2
INVARIANT MemoriesStayHome
CHECK_DEADLOCK FALSE
