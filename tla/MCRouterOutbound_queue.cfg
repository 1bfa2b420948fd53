CONSTANTS
    Remotes = {r1}
    r1 = r1
    Identity <- Same
    NoAddress = {}
    OnDisk = {r1}
    MaxMsgs = 3
    Retries = 1
SPECIFICATION FairSpec
INVARIANTS
    TypeOK
    JobIsHeld
    QueueHasWork
    QueuedOnce
PROPERTIES
    MessagesSettle
