CONSTANTS
    Radix = 8
    PGSIZE = 4
    DRAM_BASE = 16
    KERNTOP = 10000
    Offset = 1000
    SizeofPage = 1
    Trees <- MCTrees
    Ends <- MCEnds
SPECIFICATION Spec
CHECK_DEADLOCK FALSE
INVARIANTS FindsMemory
PROPERTIES HandsOverMemory
