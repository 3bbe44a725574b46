\* Two tasks, tables of two pages, pages of two bytes, few enough frames to
\* run out.
CONSTANTS
    Task = {t1, t2}
    NULL = NULL
    NumFrames = 16
    PagesPerTable = 2
    PAGE_SIZE = 2
    Image <- MCImage
    Value = {"zero", "text"}
    Zero = "zero"
    Address = {5, 6, 7, 8, 9, 12}
    Length = {1, 2}
    TooBig = {FALSE}
    MaxCalls = 6
SPECIFICATION Spec
SYMMETRY Symmetry
CHECK_DEADLOCK FALSE
INVARIANTS
    FramesAreOwned
    BrkEndsTheWindow
    KernelIsShared
PROPERTY ImplementsVirtualMemory
