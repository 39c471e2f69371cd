SPECIFICATION Spec
CONSTANTS
    PAGE_SIZE = 16
    SLOB_UNIT = 2
    BIGBLOCK = 3
    NPage = 3
    Sizes = {1, 11, 12}
    MaxLive = 3
INVARIANT AssertionHolds
