\* As SyscallGate.cfg; one fork() is enough.
CONSTANTS
    Task = {t1, t2}
    Boot = Boot
    Idle = Idle
    Val = {v1, v2}
    Junk = Junk
SPECIFICATION Spec
SYMMETRY Symmetry
INVARIANT ForkChildIsParent
