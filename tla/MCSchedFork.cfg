SPECIFICATION Spec
CONSTANTS
    MaxTid = 4
    MaxCtx = 2
    ExitCodes = {1}
    KillCode = 137
INVARIANTS ForkHasStackBoundaries
CHECK_DEADLOCK FALSE
