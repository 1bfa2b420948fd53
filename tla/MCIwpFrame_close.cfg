CONSTANTS
    MaxMsgs = 2
    FragCounts = {2}
    LimFrags = {0, 1}
    BadRC = {"init"}
    MayLose = TRUE
    MayDup = FALSE
    MayTimeout = TRUE
    MayClose = TRUE
    MaxInFlight = 3
SPECIFICATION Spec
INVARIANTS
    AtMostOnce
    NoOrphanRx
    InvalidationIsMutual
    EstablishedMeansIdentified
PROPERTIES
    ImplementsLinkDelivery
CONSTRAINT InFlight
CHECK_DEADLOCK FALSE
