\* Two processes, of one host or of two; one session, and a new one.
SPECIFICATION FairSpec
CONSTANTS
    p1 = p1
    p2 = p2
    Procs = {p1, p2}
    Layouts <- MCLayouts
    Sessions = {s1, s2}
    Saved = {s1}
    None = None
    MaxMessages = 1
    MaxOps = 3
    MaxFaults = 1
    MaxLapses = 1
INVARIANTS
    StoreConsistent
PROPERTIES
    MessagesKept
    SwitchEnds
\* The bounds end every session.
CHECK_DEADLOCK FALSE
