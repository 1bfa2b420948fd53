CONSTANTS
    Keys = {1, 2, 4, 8}
    Bits = 4
    NoTransit = {4}
    Seeker = 4
    Jobs = {"j"}
    Targets = {8}
    MaxChanges = 0
SPECIFICATION Spec
INVARIANTS
    AnswerGoesToRequester
CHECK_DEADLOCK FALSE
