\* The heap of HeapSafety.cfg with kfree() calls that the timer interrupts.
CONSTANTS
    HDR = 2
    FTR = 2
    PTR = 2
    ALIGNMENT = 2
    PAGE_SIZE = 12
    HEAP_START = 10
    HEAP_MAX = 46
    InitPages = 1
    GrowPages = 1
    Request = {1, 9}
    MaxLive = 4
SPECIFICATION PreemptSpec
CHECK_DEADLOCK FALSE
INVARIANT HeldIsDisjoint
