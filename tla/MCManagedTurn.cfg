\* Agent, owner, SIGINT and failing journal writes; no symmetry, for the liveness.
SPECIFICATION FairTurnSpec
CONSTANTS
    MaxInputs = 2
    Turns = {t1, t2}
    Requests = {r1, r2}
    Calls = {c1, c2}
    Asks = {a1}
    None = None
    JournalMayFail = TRUE
    Restarts = {}
INVARIANTS
    TurnConsistent
    TranscriptIsWhole
    NothingIsLost
PROPERTIES
    TurnAndCancelEnd
    QueuedWorkRuns
\* The bounds on ids end every session.
CHECK_DEADLOCK FALSE
