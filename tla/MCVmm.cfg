CONSTANTS
    Vma = {v1, v2, v3}
    MaxAddr = 4
    NULL = NULL
SPECIFICATION Spec
SYMMETRY Symmetry
INVARIANT AreasDisjoint
INVARIANT AreasLive
PROPERTY PanicJustified
PROPERTY FindsTheArea
