-------------------------------- MODULE Tty --------------------------------
(***************************************************************************)
(* The virtual consoles, tty/tty.cpp: each keeps its own text buffer and   *)
(* cursor, print() writes to the active one and to the VGA memory, and     *)
(* switch_to() puts another one on the screen.  A component of Console.    *)
(*                                                                         *)
(* A system call prints with interrupts masked: print(c) is one step.      *)
(* kernel_main prints its banner with interrupts enabled, and switch_to()  *)
(* comes from the keyboard interrupt: there print() is cut into its        *)
(* stores.  The console it prints to is bound when it starts.              *)
(***************************************************************************)
EXTENDS Naturals

CONSTANTS
    VGA_WIDTH, VGA_HEIGHT, NUM_CONSOLES,
    RowModulus,  \* values of Console::row: 256
    Char,        \* printable characters
    Blank,       \* the cell of a space
    Label(_)     \* the character tty::init() puts in a console's first cell

ASSUME TtyAssumption ==
    /\ VGA_WIDTH \in Nat \ {0}
    /\ RowModulus \in Nat /\ VGA_HEIGHT \in 1..(RowModulus - 1)
    /\ NUM_CONSOLES \in Nat \ {0}
    /\ Blank \notin Char /\ "BS" \notin Char /\ "NL" \notin Char

VARIABLES
    consoles, active_console, initialized,
    vga,         \* the text screen
    cursor,      \* the hardware cursor
    printing,    \* kernel_main's print() in progress, or Idle
    torn         \* ghost: the cell whose two stores a switch came between

ttyVars == <<consoles, active_console, initialized, vga, cursor, printing, torn>>

Consoles == 0..(NUM_CONSOLES - 1)
Pos == 0..(VGA_WIDTH * VGA_HEIGHT - 1)
Idle == [next |-> "idle"]

u8(n) == n % RowModulus

----------------------------------------------------------------------------
(* A console value *)

pos(con) == con.row * VGA_WIDTH + con.col

\* `row` is unsigned: '\b' at the top left takes the cursor off the screen, and
\* what is printed there is stored behind the buffer: up to row 100 or so in the
\* consoles that follow this one, beyond that in other kernel memory.  The model
\* leaves such a store out, and its properties say nothing of what it destroys.
store(buf, p, c) == IF p \in Pos THEN [buf EXCEPT ![p] = c] ELSE buf

\* Every row moves up by one, the last becomes blank.
scroll(con) ==
    [buffer |-> [p \in Pos |-> IF p + VGA_WIDTH \in Pos
                               THEN con.buffer[p + VGA_WIDTH] ELSE Blank],
     row |-> VGA_HEIGHT - 1, col |-> 0]

\* ++con.row >= VGA_HEIGHT at column 0.
row_down(con) == [con EXCEPT !.row = u8(@ + 1), !.col = 0]
needs_scroll(con) == row_down(con).row >= VGA_HEIGHT

line_feed(con) == IF needs_scroll(con) THEN scroll(con) ELSE row_down(con)

\* The cursor moves past the character just stored.
advance(con) ==
    IF con.col + 1 >= VGA_WIDTH THEN line_feed(con)
    ELSE [con EXCEPT !.col = @ + 1]

wraps(con) == con.col + 1 >= VGA_WIDTH /\ needs_scroll(con)

\* At column 0: up one row, to its last column.  The test for a negative row
\* never succeeds.
back_up(con) == [con EXCEPT !.row = u8(@ + RowModulus - 1), !.col = VGA_WIDTH - 1]

----------------------------------------------------------------------------
(* print() as one step *)

print_backspace ==
    LET con == consoles[active_console]
        left == [con EXCEPT !.col = @ - 1]
    IN  IF con.col = 0
        THEN /\ consoles' = [consoles EXCEPT ![active_console] = back_up(con)]
             /\ UNCHANGED <<vga, cursor, torn>>
        ELSE /\ consoles' = [consoles EXCEPT ![active_console] =
                    [left EXCEPT !.buffer = store(@, pos(left), Blank)]]
             /\ vga' = store(vga, pos(left), Blank)
             /\ cursor' = pos(left)
             /\ torn' = torn \ {pos(left)}

\* Mutant: scrolling moves the buffer and not the screen.
render_never(scrolled, next, screen) == screen

\* The screen after a step that may have scrolled: render_console() then.
render(scrolled, next, screen) == IF scrolled THEN next.buffer ELSE screen

print_newline ==
    LET con == consoles[active_console]
        next == line_feed(con)
    IN  /\ consoles' = [consoles EXCEPT ![active_console] = next]
        /\ vga' = render(needs_scroll(con), next, vga)
        /\ cursor' = pos(next)
        /\ torn' = IF needs_scroll(con) THEN {} ELSE torn

print_char(c) ==
    LET con == consoles[active_console]
        next == advance([con EXCEPT !.buffer = store(@, pos(con), c)])
    IN  /\ consoles' = [consoles EXCEPT ![active_console] = next]
        /\ vga' = render(wraps(con), next, store(vga, pos(con), c))
        /\ cursor' = pos(next)
        /\ torn' = IF wraps(con) THEN {} ELSE torn \ {pos(con)}

\* One character of write(), writev() or of the echo of read(0).
print(c) ==
    /\ CASE c = "BS" -> print_backspace
         [] c = "NL" -> print_newline
         [] OTHER -> print_char(c)
    /\ UNCHANGED <<active_console, initialized, printing>>

----------------------------------------------------------------------------
(* print() of a character of the banner, one store after the other.  The     *)
(* banner neither wraps nor scrolls (Console!BannerFits).                    *)

bind(c) ==
    /\ printing = Idle
    /\ printing' = [next |-> IF c = "NL" THEN "move" ELSE "buffer", c |-> c,
                    con |-> active_console, at |-> pos(consoles[active_console])]
    /\ UNCHANGED <<consoles, active_console, initialized, vga, cursor, torn>>

store_buffer ==
    /\ printing.next = "buffer"
    /\ consoles' = [consoles EXCEPT ![printing.con].buffer =
                        store(@, printing.at, printing.c)]
    /\ printing' = [printing EXCEPT !.next = "vga"]
    /\ UNCHANGED <<active_console, initialized, vga, cursor, torn>>

store_vga ==
    /\ printing.next = "vga"
    /\ vga' = store(vga, printing.at, printing.c)
    /\ printing' = [printing EXCEPT !.next = "move"]
    /\ UNCHANGED <<consoles, active_console, initialized, cursor, torn>>

move ==
    /\ printing.next = "move"
    /\ consoles' = [consoles EXCEPT ![printing.con] =
                        IF printing.c = "NL" THEN line_feed(@) ELSE advance(@)]
    /\ printing' = [printing EXCEPT !.next = "cursor"]
    /\ UNCHANGED <<active_console, initialized, vga, cursor, torn>>

update_cursor ==
    /\ printing.next = "cursor"
    /\ cursor' = pos(consoles[active_console])
    /\ printing' = Idle
    /\ UNCHANGED <<consoles, active_console, initialized, vga, torn>>

----------------------------------------------------------------------------

\* The other console is rendered; a character whose store to the screen is
\* still to come will land on it all the same.
switch_to(n) ==
    /\ active_console' = n
    /\ vga' = consoles[n].buffer
    /\ cursor' = pos(consoles[n])
    /\ torn' = IF printing.next \in {"buffer", "vga"} THEN {printing.at} ELSE {}
    /\ UNCHANGED <<consoles, initialized, printing>>

\* tty::init(): blank consoles with their labels, console 0 on the screen.
tty_init ==
    /\ consoles' = [n \in Consoles |->
          [buffer |-> [p \in Pos |-> IF p = 0 THEN Label(n) ELSE Blank],
           row |-> 0, col |-> 0]]
    /\ active_console' = 0
    /\ initialized' = TRUE
    /\ vga' = consoles'[0].buffer
    /\ cursor' = 0
    /\ UNCHANGED <<printing, torn>>

\* Zeroed memory, and a screen the boot loader left.
TtyInit ==
    /\ consoles = [n \in Consoles |-> [buffer |-> [p \in Pos |-> Blank],
                                       row |-> 0, col |-> 0]]
    /\ active_console = 0 /\ initialized = FALSE
    /\ vga = [p \in Pos |-> Blank] /\ cursor = 0
    /\ printing = Idle /\ torn = {}

----------------------------------------------------------------------------
(* Properties *)

\* The cell that is in the buffer and not yet on the screen.
Pending == IF printing.next = "vga" THEN {printing.at} ELSE {}

\* tty.hpp on print() and switch_to(): print() writes to the active console and
\* switch_to() updates the VGA.  At every moment the screen shows the active
\* console, however printing, wrapping, scrolling, backspacing and switching
\* interleave; only a switch in the middle of a character that kernel_main
\* prints leaves that one cell of another console on it, until it is printed
\* over or the screen is rendered again.
ScreenShowsActive ==
    \A p \in Pos \ (torn \cup Pending) : vga[p] = consoles[active_console].buffer[p]

============================================================================
