CONSTANTS
    Client = client
    Relays = {a, b, c}
    NoTransit = {c}
    MaxPaths = 1
    NumPaths = 1
    NumHops = 3
    MaxHops = 4
    Lifetime = 1
    BuildTimeout = 0
    MaxCopies = 1
    a = a
    b = b
    c = c
    client = client
SPECIFICATION FairSpec
INVARIANTS
    TypeOK
    PathIsWhole
    NothingGarbled
    OnlyDuplicatesLeak
PROPERTIES
    BuildSucceeds
    PathIsForgotten
CHECK_DEADLOCK FALSE
