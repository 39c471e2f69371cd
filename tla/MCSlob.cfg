SPECIFICATION FairSpec
CONSTANTS
    PAGE_SIZE = 16
    SLOB_UNIT = 2
    BIGBLOCK = 3
    NPage = 3
    Sizes = {1, 5, 11, 12, 15, 32}
    MaxLive = 3
INVARIANTS FreeListSorted UnitsConserved
PROPERTIES FailsOnlyIfFull EveryCallReturns
