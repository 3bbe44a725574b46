\* Two task blocks for six user tasks one after the other, so blocks are reused
\* again and again.  No symmetry: liveness.
CONSTANTS
    Addr = {a1, a2}
    Space = {s1, s2, s3}
    Boot = Boot
    Idle = Idle
    KernelSpace = KernelSpace
    NULL = NULL
    MaxId = 8
    MaxSpawn = 2
    Timeslice = 2
SPECIFICATION FairSpec
INVARIANTS
    SchedInv
    RingIsAllocatedTasks
    WaitedChildIsHeld
    SpacesAreOwned
PROPERTIES
    DeadStaysDead
    ReadyTasksRun
    Wait4Returns
    ZombieIsReaped
