CONSTANTS
    MaxSessions = 2
    MaxTries = 1
    Copies = 2
    MayLose = FALSE
    MayTimeout = FALSE
    MayClose = FALSE
    BadRC = {}
    MaxInFlight = 2
    MaxQueued = 3
SPECIFICATION Spec
INVARIANTS
    EstablishedSharesKey
    AnswerIsAlive
CONSTRAINT Small
CHECK_DEADLOCK FALSE
