\* A steer and a turn that fails before its boundary.
SPECIFICATION TurnSpec
CONSTANTS
    MaxInputs = 2
    Turns = {t1, t2}
    Requests = {r1, r2}
    Calls = {c1}
    Asks = {a1}
    None = None
    JournalMayFail = FALSE
    Restarts = {}
INVARIANT SteerJoinsItsTurn
\* The bounds on ids end every session.
CHECK_DEADLOCK FALSE
