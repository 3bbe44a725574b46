\* Two consoles of two rows and two columns, rows modulo 4; a ring of 3 (2
\* characters), lines of up to 2 characters, two readers on the one machine that
\* has a shell.
CONSTANTS
    VGA_WIDTH = 2
    VGA_HEIGHT = 2
    NUM_CONSOLES = 2
    RowModulus = 4
    Char = {"a"}
    Blank = Blank
    Label <- MCLabel
    BUFFER_SIZE = 3
    STDIN_LINE_CAP = 3
    Reader = {r1, r2}
    ReadLen = {1}
    None = None
    MaxKeys = 3
    Machine <- MCMachine
    NUM_IRQ = 3
    Timeslice = 1
    NULL = NULL
    Banner <- MCBanner
    Output = {"BS"}
    MaxPrints = 1
SPECIFICATION FairSpec
\* The kernel halts without an I/O APIC.
CHECK_DEADLOCK FALSE
INVARIANTS
    ScreenShowsActive
    RingIsQueue
    ReadersGetTheLines
    NoFalseEof
    InterruptsReachTheirHandler
PROPERTIES
    TypedLineIsRead
    RescheduleIsTaken
