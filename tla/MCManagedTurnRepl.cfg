\* A key between two calls of a batch.
SPECIFICATION TurnSpec
CONSTANTS
    MaxInputs = 1
    Turns = {t1, t2}
    Requests = {r1, r2}
    Calls = {c1, c2}
    Asks = {a1}
    None = None
    JournalMayFail = FALSE
    Restarts = {}
INVARIANT ReplSurvives
\* The bounds on ids end every session.
CHECK_DEADLOCK FALSE
