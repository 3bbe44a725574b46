\* The same tasks, one of which may close what the other shares.
CONSTANTS
    Name = {"a", "b", "c", "proc", "uptime", "cpuinfo"}
    EMPTY = ""
    NameLen <- MCNameLen
    chunk_size = 24
    NodesPerEntry = 1
    SpareNodes = 3
    Task = {t1, t2}
    NULL = NULL
    Block = {b1, b2, b3}
    MAX_FDS = 5
    MAX_ENTRIES = 3
    NAME_SIZE = 7
    Shortened <- MCShortened
    PROC = "proc"
    ProcName <- MCProcName
    ProcLen <- MCProcLen
    Archive <- MCBooted
    Booted <- MCBooted
    Path <- MCPath
    ReadLen = {2}
    Count = {8, 24, 64}
    SeekTo <- MCSeekTo
    SharedClose = {FALSE, TRUE}
    MaxNow = 1
    MaxCalls = 5
SPECIFICATION Spec
SYMMETRY Symmetry
CHECK_DEADLOCK FALSE
INVARIANT DescriptorsAreLive
