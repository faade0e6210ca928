\* A restore or write each, or two of one actor; crashes, I/O errors, user edits.
SPECIFICATION FairSpec
CONSTANTS
    Actors = {a1, a2}
    OldTurn = a0
    MaxPaths = 2
    MaxOps = 2
    MaxFaults = 2
    MaxEdits = 1
INVARIANTS
    CheckpointTypeOK
    UserContentKept
    WorkIsRecoverable
    NoWriteIntoTorn
PROPERTIES
    RestoreIsAtomic
    OpsEnd
\* The bounds end every session.
CHECK_DEADLOCK FALSE
