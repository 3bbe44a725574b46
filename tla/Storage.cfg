\* Commands of two sectors, one fault, polls counted modulo 4.
CONSTANTS
    MAX_SECTORS = 2
    TIMEOUT = 1
    U32 = 4
    Frame = {1, 2}
    None = None
    MaxFaults = 1
    NDIRECT = 1
    MAX_GROUPS = 3
    MAX_PARTS = 2
    MBR_PARTS = 2
    Image <- MCImage
    Reads <- MCReads
    DIR_CHUNK = 21
SPECIFICATION FairSpec
INVARIANTS
    ReadsAreDisk
    BounceIsHeld
    ReadIsFromFile
    WholeFileOrNothing
    ListingIsComplete
    RootIsFirstMountable
PROPERTY EveryCallReturns
\* A machine without a root file system uses its disk no more.
CHECK_DEADLOCK FALSE
