\* One user task is enough: the shell exits and is reaped.
CONSTANTS
    Addr = {a1, a2}
    Space = {s1, s2}
    Boot = Boot
    Idle = Idle
    KernelSpace = KernelSpace
    NULL = NULL
    MaxId = 4
    MaxSpawn = 1
    Timeslice = 1
SPECIFICATION Spec
INVARIANT ActiveSpaceIsAllocated
