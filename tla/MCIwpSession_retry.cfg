CONSTANTS
    MaxSessions = 2
    MaxTries = 2
    Copies = 1
    MayLose = TRUE
    MayTimeout = TRUE
    MayClose = FALSE
    BadRC = {"a"}
    MaxInFlight = 2
    MaxQueued = 2
SPECIFICATION Spec
INVARIANTS
    TypeOK
    KeyIsFresh
CONSTRAINT Small
CHECK_DEADLOCK FALSE
