SPECIFICATION FairSpec
CONSTANTS
    MaxTid = 4
    MaxCtx = 3
    ExitCodes = {1}
    KillCode = 137
INVARIANTS TypeOK  NothingFreedInUse
PROPERTIES SwitchPicksRunning StatusIsFinal RoundRobin ZombieIsCollected
CHECK_DEADLOCK FALSE
