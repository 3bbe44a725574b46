\* A heap of up to three pages of 12 units; the smallest block has 6.  A request
\* for 9 takes 14: two pages, or a block of 18 whose rest is too small to split.
CONSTANTS
    HDR = 2
    FTR = 2
    PTR = 2
    ALIGNMENT = 2
    PAGE_SIZE = 12
    HEAP_START = 10
    HEAP_MAX = 46
    InitPages = 1
    GrowPages = 1
    Request = {1, 9}
    MaxLive = 4
SPECIFICATION Spec
\* The kernel halts when the heap cannot grow.
CHECK_DEADLOCK FALSE
INVARIANTS
    BlocksTile
    TagsAgree
    FullyCoalesced
    HeldIsLargeEnough
    GrowthSuffices
PROPERTY ImplementsAllocator
