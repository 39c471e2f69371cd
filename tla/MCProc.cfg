SPECIFICATION FairSpec
CONSTANTS
    MAX_PID = 5
    MAX_PROCESS = 4
    Fn = {main, f}
    init_main = main
    Bucket <- MCBucket
    pid_hashfn <- MCHash
    TICK_NUM = 2
    MaxPrints = 1
INVARIANTS InterruptsFindCurrent ThreadsUndisturbed SretReturns Resumable NothingLeaked TablesAgree
PROPERTIES NoOvertaking EveryThreadRuns
