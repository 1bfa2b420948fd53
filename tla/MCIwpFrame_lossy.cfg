CONSTANTS
    MaxMsgs = 2
    FragCounts = {3}
    LimFrags = {0}
    BadRC = {}
    MayLose = TRUE
    MayDup = TRUE
    MayTimeout = FALSE
    MayClose = FALSE
    MaxInFlight = 99
SPECIFICATION FairEstablishedSpec
INVARIANTS
    TypeOK
    TxDoneMeansHandled
    AckedIsHeld
PROPERTIES
    FragmentsGetThrough
CHECK_DEADLOCK FALSE
