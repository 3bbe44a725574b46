\* Two user tasks besides boot and idle, two distinguishable register values.
CONSTANTS
    Task = {t1, t2}
    Boot = Boot
    Idle = Idle
    Val = {v1, v2}
    Junk = Junk
SPECIFICATION Spec
SYMMETRY Symmetry
INVARIANTS
    GsReachesCpuLocal
    EntersOnOwnStack
    ReturnsIntact
    GateInv
