CONSTANTS
    MaxSessions = 1
    MaxTries = 1
    Copies = 1
    MayLose = FALSE
    MayTimeout = FALSE
    MayClose = TRUE
    BadRC = {}
    MaxInFlight = 99
    MaxQueued = 99
SPECIFICATION Spec
INVARIANTS
    FreedHasNoFrames
CHECK_DEADLOCK FALSE
