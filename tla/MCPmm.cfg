CONSTANTS
    NPage = 8
    FirstFree = 1
    MaxRequest = 3
    MaxRef = 1
    TopStaysFree = TRUE
SPECIFICATION FairSpec
INVARIANTS MemoryAccounted InductiveRest
VIEW LiveView
PROPERTIES AllocatorRefined EveryCallReturns
