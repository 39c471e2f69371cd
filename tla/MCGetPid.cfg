CONSTANTS
    MAX_PID = 7
    MAX_PROCESS = 6
SPECIFICATION FairSpec
INVARIANTS PidsUnique LoopInv ReturnsFirstFree
PROPERTY Returns
