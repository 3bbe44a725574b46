------------------------------- MODULE Stdin -------------------------------
(***************************************************************************)
(* Keyboard input: the interrupt handler and its character ring            *)
(* (io/keyboard.cpp), and the line discipline that read(0) runs over it    *)
(* (sys_read_stdin() in cpu/syscall.cpp), with several readers and the     *)
(* echo to the console (Tty).  A component of Console.                     *)
(*                                                                         *)
(* A system call runs with interrupts masked, so the handler runs only     *)
(* while no reader has the CPU; a reader gives it up when it finds the     *)
(* ring empty and blocks.  The line being typed is shared by all readers.  *)
(***************************************************************************)
EXTENDS Tty, Sequences, SequencesExt

CONSTANTS
    BUFFER_SIZE,     \* slots of the ring: 64
    STDIN_LINE_CAP,  \* 256
    Reader,          \* tasks that read(0)
    ReadLen,         \* buffer lengths they pass
    None,
    MaxKeys          \* bound: characters typed

ASSUME StdinAssumption ==
    /\ BUFFER_SIZE \in Nat \ {0} /\ STDIN_LINE_CAP \in Nat \ {0, 1}
    /\ ReadLen \subseteq Nat /\ None \notin Reader \cup Nat /\ MaxKeys \in Nat

VARIABLES
    buffer, head, tail,
    alt_pressed,
    stdin_line, stdin_line_pos, stdin_line_ready,
    busy,            \* the reader that has the CPU inside sys_read_stdin()
    want,            \* the length each reader in sys_read_stdin() asked for
    pushed,          \* ghost: characters the ring has accepted
    eaten,           \* ghost: how many of them getchar() has returned
    out,             \* ghost: bytes handed to readers
    lines            \* ghost: lines handed to readers in full

ring == <<buffer, head, tail>>
line == <<stdin_line, stdin_line_pos, stdin_line_ready>>
stdinVars == <<ring, alt_pressed, line, busy, want, pushed, eaten, out, lines>>

Input == Char \cup {"BS", "NL"}

\* The keys: those that type a character, Alt, F1.. (the console each one
\* selects) and the ones that do neither.  Shift and Caps Lock only choose which
\* character a key types, so every character is a key.
Key == {[do |-> "type", c |-> c] : c \in Input}
         \cup {[do |-> "switch", n |-> n] : n \in Consoles}
         \cup {[do |-> "alt"], [do |-> "none"]}

----------------------------------------------------------------------------
(* The ring *)

succ(i) == (i + 1) % BUFFER_SIZE

\* Mutant: the oldest characters are overwritten.
push_char_unchecked(c) ==
    /\ buffer' = [buffer EXCEPT ![head] = c]
    /\ head' = succ(head)
    /\ pushed' = Append(pushed, c)

\* One slot stays empty to tell a full ring from an empty one; a character that
\* finds the ring full is dropped.
push_char(c) ==
    IF succ(head) # tail
    THEN /\ buffer' = [buffer EXCEPT ![head] = c]
         /\ head' = succ(head)
         /\ pushed' = Append(pushed, c)
    ELSE UNCHANGED <<buffer, head, pushed>>

Empty == head = tail

----------------------------------------------------------------------------
(* The interrupt handler *)

\* A key types its character; Alt+Fn does not, nor does any released key.
push_typed(key, released) ==
    IF ~released /\ key.do = "type" THEN push_char(key.c)
    ELSE UNCHANGED <<buffer, head, pushed>>

switch_console(key, released) ==
    IF ~released /\ key.do = "switch" /\ alt_pressed THEN switch_to(key.n)
    ELSE UNCHANGED ttyVars

keyboard_handler(key, released) ==
    /\ key.do = "type" => Len(pushed) < MaxKeys
    /\ alt_pressed' = IF key.do = "alt" THEN ~released ELSE alt_pressed
    /\ push_typed(key, released)
    /\ switch_console(key, released)
    /\ UNCHANGED <<tail, line, busy, want, eaten, out, lines>>

----------------------------------------------------------------------------
(* sys_read_stdin() *)

sys_read(r, n) ==
    /\ busy = None /\ want[r] = None
    /\ busy' = r /\ want' = [want EXCEPT ![r] = n]
    /\ UNCHANGED <<ring, alt_pressed, line, pushed, eaten, out, lines, ttyVars>>

\* The scheduler comes back to a reader that blocked.
resume(r) ==
    /\ busy = None /\ want[r] # None
    /\ busy' = r
    /\ UNCHANGED <<ring, alt_pressed, line, want, pushed, eaten, out, lines, ttyVars>>

\* Mutant: a line is complete only when its newline was stored.
edit_needs_room(c) ==
    /\ stdin_line' = IF c = "BS" THEN SubSeq(stdin_line, 1, Len(stdin_line) - 1)
                     ELSE IF Len(stdin_line) < STDIN_LINE_CAP - 1
                     THEN Append(stdin_line, c) ELSE stdin_line
    /\ stdin_line_ready' = (c = "NL" /\ Len(stdin_line) < STDIN_LINE_CAP - 1)

\* Mutant: '\b' takes one too many.
edit_erases_two(c) ==
    /\ stdin_line' = IF c = "BS" THEN SubSeq(stdin_line, 1, Len(stdin_line) - 2)
                     ELSE IF Len(stdin_line) < STDIN_LINE_CAP - 1
                     THEN Append(stdin_line, c) ELSE stdin_line
    /\ stdin_line_ready' = (c = "NL")

\* One character of line editing; '\n' ends the line even if it has no room.
edit(c) ==
    /\ stdin_line' = IF c = "BS" THEN SubSeq(stdin_line, 1, Len(stdin_line) - 1)
                     ELSE IF Len(stdin_line) < STDIN_LINE_CAP - 1
                     THEN Append(stdin_line, c) ELSE stdin_line
    /\ stdin_line_ready' = (c = "NL")

\* What is stored or taken back is echoed to the console of the moment.
echo(c) ==
    IF (c = "BS" /\ stdin_line # << >>)
         \/ (c # "BS" /\ Len(stdin_line) < STDIN_LINE_CAP - 1)
    THEN print(c)
    ELSE UNCHANGED ttyVars

\* The loop's body: getchar() and the character it returned.
next_key ==
    /\ busy # None /\ ~stdin_line_ready /\ ~Empty
    /\ tail' = succ(tail) /\ eaten' = eaten + 1
    /\ edit(buffer[tail])
    /\ echo(buffer[tail])
    /\ UNCHANGED <<buffer, head, alt_pressed, stdin_line_pos, busy, want, pushed,
                   out, lines>>

\* Nothing typed: yield_blocking().
block ==
    /\ busy # None /\ ~stdin_line_ready /\ Empty
    /\ busy' = None
    /\ UNCHANGED <<ring, alt_pressed, line, want, pushed, eaten, out, lines, ttyVars>>

avail == Len(stdin_line) - stdin_line_pos
Lesser(m, n) == IF m < n THEN m ELSE n

\* Mutant: the line is dropped one byte late.
drain_late(n) ==
    IF stdin_line_pos + n > Len(stdin_line)
    THEN /\ stdin_line' = << >> /\ stdin_line_pos' = 0
         /\ stdin_line_ready' = FALSE
         /\ lines' = lines + 1
    ELSE /\ stdin_line_pos' = stdin_line_pos + n
         /\ UNCHANGED <<stdin_line, stdin_line_ready, lines>>

\* n bytes are handed out; a drained line makes way for the next one.
drain(n) ==
    IF stdin_line_pos + n >= Len(stdin_line)
    THEN /\ stdin_line' = << >> /\ stdin_line_pos' = 0
         /\ stdin_line_ready' = FALSE
         /\ lines' = lines + 1
    ELSE /\ stdin_line_pos' = stdin_line_pos + n
         /\ UNCHANGED <<stdin_line, stdin_line_ready, lines>>

\* After the loop: copy what fits and return.
deliver ==
    LET n == Lesser(want[busy], avail)
    IN  /\ busy # None /\ stdin_line_ready
        /\ out' = out \o SubSeq(stdin_line, stdin_line_pos + 1, stdin_line_pos + n)
        /\ drain(n)
        /\ busy' = None /\ want' = [want EXCEPT ![busy] = None]
        /\ UNCHANGED <<ring, alt_pressed, pushed, eaten, ttyVars>>

----------------------------------------------------------------------------

StdinInit ==
    /\ buffer = [i \in 0..(BUFFER_SIZE - 1) |-> None] /\ head = 0 /\ tail = 0
    /\ alt_pressed = FALSE
    /\ stdin_line = << >> /\ stdin_line_pos = 0 /\ stdin_line_ready = FALSE
    /\ busy = None /\ want = [r \in Reader |-> None]
    /\ pushed = << >> /\ eaten = 0 /\ out = << >> /\ lines = 0

----------------------------------------------------------------------------
(* Properties *)

\* The interrupt handler and the readers see one queue: the slots from tail to
\* head hold the characters accepted and not yet read, in the order they were
\* typed, across any wrap-around and when the ring is full.
RingIsQueue ==
    LET waiting == (head + BUFFER_SIZE - tail) % BUFFER_SIZE
    IN  SubSeq(pushed, eaten + 1, Len(pushed))
          = [i \in 1..waiting |-> buffer[(tail + i - 1) % BUFFER_SIZE]]

\* What a line editor makes of one more key: '\b' takes back the last character
\* of the same line, a line keeps its first characters, '\n' ends it.  A line
\* that is full when '\n' comes ends with `end`.
Typed(s, c, end) ==
    LET ln == CASE c = "BS" -> SubSeq(s.ln, 1, Len(s.ln) - 1)
                [] c # "BS" /\ Len(s.ln) < STDIN_LINE_CAP - 1 -> Append(s.ln, c)
                [] OTHER -> IF c = "NL" THEN s.ln \o end ELSE s.ln
    IN  IF c = "NL" THEN [done |-> s.done \o ln, ln |-> << >>]
        ELSE [done |-> s.done, ln |-> ln]

\* The lines done and the line begun after a sequence of keys.
Edited(keys, end) ==
    LET after[n \in 0..Len(keys)] ==
          IF n = 0 THEN [done |-> << >>, ln |-> << >>]
          ELSE Typed(after[n - 1], keys[n], end)
    IN  after[Len(keys)]

Typeset(keys, end) == Edited(keys, end).done \o Edited(keys, end).ln

\* However many tasks read, with whatever buffer sizes and however they block
\* and interleave, the bytes handed out are the edited lines in order: no byte
\* is repeated or reordered, none of an unfinished line is handed out, and none
\* is lost but one.  The '\n' of a line that fills the buffer may be missing:
\* the comments on stdin_line_ready promise it, and the code drops it (README,
\* findings).
ReadersGetTheLines ==
    \E end \in {<<"NL">>, << >>} :
        out \o SubSeq(stdin_line, stdin_line_pos + 1, Len(stdin_line))
          = Typeset(SubSeq(pushed, 1, eaten), end)

\* A complete line has a byte left, so read() never returns 0, which programs
\* take for end of file, to a reader with room in its buffer.
NoFalseEof ==
    /\ stdin_line_ready => stdin_line_pos < Len(stdin_line)
    /\ ~stdin_line_ready => stdin_line_pos = 0

LineWaiting == Len(SelectSeq(pushed, LAMBDA c : c = "NL")) > lines

\* A blocked reader returns once a line has been typed, unless another reader
\* takes that line.
TypedLineIsRead ==
    \A r \in Reader : (want[r] # None /\ LineWaiting)
                         ~> (want[r] = None \/ ~LineWaiting)

============================================================================
