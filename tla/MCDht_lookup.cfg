CONSTANTS
    Keys = {1, 2, 4, 8}
    Bits = 4
    NoTransit = {4}
    Seeker = 4
    Jobs = {"j"}
    Targets = {7, 8}
    MaxChanges = 1
SPECIFICATION FairSpec
INVARIANTS
    HookOnce
    LookupCloses
    AsksOthers
PROPERTIES
    LookupSettles
CHECK_DEADLOCK FALSE
