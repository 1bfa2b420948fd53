CONSTANTS
    MaxSessions = 2
    MaxTries = 1
    Copies = 1
    MayLose = TRUE
    MayTimeout = TRUE
    MayClose = TRUE
    BadRC = {}
    MaxInFlight = 2
    MaxQueued = 3
SPECIFICATION TimerSpec
INVARIANTS
    TrackedIsAlive
    PendingHasTimer
PROPERTIES
    EstablishedStays
    EstablishEnds
CONSTRAINT Small
CHECK_DEADLOCK FALSE
