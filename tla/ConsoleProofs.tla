--------------------------- MODULE ConsoleProofs ---------------------------
(***************************************************************************)
(* Proofs about Console: the keyboard ring is a queue between the          *)
(* interrupt handler and the readers, read(0) never reports an end of file *)
(* that is none, the screen shows the active console, interrupts reach the *)
(* handlers of the lines they come from, and readers get the edited lines. *)
(*                                                                         *)
(* StdinInv, ScreenInv and RoutingInv are inductive, and so is LinesInv    *)
(* together with StdinInv.                                                 *)
(***************************************************************************)
EXTENDS Console, NumberFacts, SequenceTheorems, FiniteSetTheorems, TLAPS

Slot == 0..(BUFFER_SIZE - 1)
Waiting == (head + BUFFER_SIZE - tail) % BUFFER_SIZE

\* RingIsQueue, slot by slot.
RingInv ==
    /\ buffer \in [Slot -> Input \cup {None}]
    /\ head \in Slot /\ tail \in Slot
    /\ pushed \in Seq(Input) /\ eaten \in Nat
    /\ Len(pushed) = eaten + Waiting
    /\ \A i \in 1..Waiting : pushed[eaten + i] = buffer[(tail + i - 1) % BUFFER_SIZE]

\* The line being typed, and who reads it.
LineInv ==
    /\ stdin_line \in Seq(Input) /\ stdin_line_pos \in Nat
    /\ stdin_line_ready \in BOOLEAN
    /\ want \in [Reader -> Nat \cup {None}]
    /\ busy \in Reader \cup {None} /\ (busy # None => want[busy] # None)
    /\ NoFalseEof

StdinInv == RingInv /\ LineInv

----------------------------------------------------------------------------
(* Indices modulo the size of the ring *)

\* How many slots are in use with these indices, and the i-th of them.
inUse(h, t) == (h + BUFFER_SIZE - t) % BUFFER_SIZE
nth(t, i) == (t + i - 1) % BUFFER_SIZE

LEMMA SuccIs ==
    ASSUME NEW h \in Slot
    PROVE  succ(h) = (IF h = BUFFER_SIZE - 1 THEN 0 ELSE h + 1) /\ succ(h) \in Slot
  BY StdinAssumption DEF succ, Slot

LEMMA InUseIs ==
    ASSUME NEW h \in Slot, NEW t \in Slot
    PROVE  inUse(h, t) = IF h < t THEN h + BUFFER_SIZE - t ELSE h - t
<1> DEFINE x == h + BUFFER_SIZE - t
<1>1. x \in 0..(2 * BUFFER_SIZE - 1) /\ BUFFER_SIZE \in Nat \ {0}
  BY StdinAssumption DEF Slot
<1>2. x % BUFFER_SIZE = IF x < BUFFER_SIZE THEN x ELSE x - BUFFER_SIZE
  <2> HIDE DEF x
  <2> QED
    BY <1>1
<1> QED
  BY <1>1, <1>2 DEF inUse, Slot

LEMMA NthIs ==
    ASSUME NEW t \in Slot, NEW i \in 1..BUFFER_SIZE
    PROVE  /\ nth(t, i) = IF t + i - 1 < BUFFER_SIZE THEN t + i - 1
                          ELSE t + i - 1 - BUFFER_SIZE
           /\ nth(t, i) \in Slot
<1> DEFINE x == t + i - 1
<1>1. x \in 0..(2 * BUFFER_SIZE - 1) /\ BUFFER_SIZE \in Nat \ {0}
  BY StdinAssumption DEF Slot
<1>2. x % BUFFER_SIZE = IF x < BUFFER_SIZE THEN x ELSE x - BUFFER_SIZE
  <2> HIDE DEF x
  <2> QED
    BY <1>1
<1> QED
  BY <1>1, <1>2 DEF nth, Slot

\* One more slot in use: it is the one at h, and the others keep their places.
LEMMA OneMore ==
    ASSUME NEW h \in Slot, NEW t \in Slot, succ(h) # t
    PROVE  /\ inUse(h, t) \in 0..(BUFFER_SIZE - 2)
           /\ inUse(succ(h), t) = inUse(h, t) + 1
           /\ nth(t, inUse(h, t) + 1) = h
           /\ \A i \in 1..inUse(h, t) : nth(t, i) \in Slot /\ nth(t, i) # h
<1> DEFINE w == inUse(h, t)
<1>1. w = IF h < t THEN h + BUFFER_SIZE - t ELSE h - t
  BY InUseIs
<1>2. succ(h) = (IF h = BUFFER_SIZE - 1 THEN 0 ELSE h + 1) /\ succ(h) \in Slot
  BY SuccIs
<1>3. inUse(succ(h), t) = IF succ(h) < t THEN succ(h) + BUFFER_SIZE - t ELSE succ(h) - t
  BY <1>2, InUseIs
<1> HIDE DEF w
<1>4. w \in 0..(BUFFER_SIZE - 2) /\ inUse(succ(h), t) = w + 1
  BY <1>1, <1>2, <1>3, StdinAssumption DEF Slot
<1>5. nth(t, w + 1) = h
  <2>1. w + 1 \in 1..BUFFER_SIZE
    BY <1>4, StdinAssumption
  <2>2. nth(t, w + 1) = IF t + (w + 1) - 1 < BUFFER_SIZE THEN t + (w + 1) - 1
                        ELSE t + (w + 1) - 1 - BUFFER_SIZE
    BY <2>1, NthIs
  <2> QED
    BY <1>1, <1>4, <2>2, StdinAssumption DEF Slot
<1>6. ASSUME NEW i \in 1..w PROVE nth(t, i) \in Slot /\ nth(t, i) # h
  <2>1. i \in 1..BUFFER_SIZE
    BY <1>4, StdinAssumption
  <2>2. /\ nth(t, i) = IF t + i - 1 < BUFFER_SIZE THEN t + i - 1
                       ELSE t + i - 1 - BUFFER_SIZE
        /\ nth(t, i) \in Slot
    BY <2>1, NthIs
  <2> QED
    BY <1>1, <1>4, <2>2, StdinAssumption DEF Slot
<1> QED
  BY <1>4, <1>5, <1>6 DEF w

\* One slot less: the first is gone, and the others move up by one.
LEMMA OneLess ==
    ASSUME NEW h \in Slot, NEW t \in Slot, h # t
    PROVE  /\ inUse(h, t) \in 1..(BUFFER_SIZE - 1)
           /\ inUse(h, succ(t)) = inUse(h, t) - 1
           /\ nth(t, 1) = t
           /\ \A i \in 1..(inUse(h, t) - 1) : nth(succ(t), i) = nth(t, i + 1)
<1> DEFINE w == inUse(h, t)
<1>1. w = IF h < t THEN h + BUFFER_SIZE - t ELSE h - t
  BY InUseIs
<1>2. succ(t) = (IF t = BUFFER_SIZE - 1 THEN 0 ELSE t + 1) /\ succ(t) \in Slot
  BY SuccIs
<1>3. inUse(h, succ(t)) = IF h < succ(t) THEN h + BUFFER_SIZE - succ(t) ELSE h - succ(t)
  BY <1>2, InUseIs
<1> HIDE DEF w
<1>4. w \in 1..(BUFFER_SIZE - 1) /\ inUse(h, succ(t)) = w - 1
  BY <1>1, <1>2, <1>3, StdinAssumption DEF Slot
<1>5. nth(t, 1) = t
  <2>1. 1 \in 1..BUFFER_SIZE
    BY StdinAssumption
  <2>2. nth(t, 1) = IF t + 1 - 1 < BUFFER_SIZE THEN t + 1 - 1 ELSE t + 1 - 1 - BUFFER_SIZE
    BY <2>1, NthIs
  <2> QED
    BY <2>2, StdinAssumption DEF Slot
<1>6. ASSUME NEW i \in 1..(w - 1) PROVE nth(succ(t), i) = nth(t, i + 1)
  <2>1. i \in 1..BUFFER_SIZE /\ i + 1 \in 1..BUFFER_SIZE
    BY <1>4, StdinAssumption
  <2>2. nth(t, i + 1) = IF t + (i + 1) - 1 < BUFFER_SIZE THEN t + (i + 1) - 1
                        ELSE t + (i + 1) - 1 - BUFFER_SIZE
    BY <2>1, NthIs
  <2>3. nth(succ(t), i) = IF succ(t) + i - 1 < BUFFER_SIZE THEN succ(t) + i - 1
                          ELSE succ(t) + i - 1 - BUFFER_SIZE
    BY <1>2, <2>1, NthIs
  <2> QED
    BY <1>2, <1>4, <2>2, <2>3, StdinAssumption DEF Slot
<1> QED
  BY <1>4, <1>5, <1>6 DEF w

----------------------------------------------------------------------------
(* The ring *)

\* The handler appends one character, or the ring is full and nothing changes.
LEMMA PushKeepsQueue ==
    ASSUME RingInv, NEW c \in Input, push_char(c), UNCHANGED <<tail, eaten>>
    PROVE  RingInv'
<1>1. CASE succ(head) = tail
  BY <1>1 DEF push_char, RingInv, Waiting
<1>2. CASE succ(head) # tail
  <2> DEFINE w == Waiting
  <2>0. /\ buffer' = [buffer EXCEPT ![head] = c] /\ head' = succ(head)
        /\ pushed' = Append(pushed, c) /\ UNCHANGED <<tail, eaten>>
    BY <1>2 DEF push_char
  <2>1. head \in Slot /\ tail \in Slot /\ head' \in Slot
    BY <2>0, SuccIs DEF RingInv
  <2>2. /\ w \in Nat /\ Waiting' = w + 1 /\ nth(tail, w + 1) = head
        /\ \A i \in 1..w : nth(tail, i) \in Slot /\ nth(tail, i) # head
    <3>1. w = inUse(head, tail) /\ Waiting' = inUse(succ(head), tail)
      BY <2>0 DEF Waiting, inUse
    <3> HIDE DEF w
    <3> QED
      BY <1>2, <2>1, <3>1, OneMore, StdinAssumption
  <2>3. Len(pushed) = eaten + w /\ eaten \in Nat /\ pushed \in Seq(Input)
        /\ \A i \in 1..w : pushed[eaten + i] = buffer[nth(tail, i)]
    BY DEF RingInv, nth
  <2> HIDE DEF w
  <2>6. /\ pushed' \in Seq(Input) /\ Len(pushed') = eaten + (w + 1)
        /\ pushed'[eaten + (w + 1)] = c
        /\ \A i \in 1..w : pushed'[eaten + i] = pushed[eaten + i]
    <3>1. /\ pushed' \in Seq(Input) /\ Len(pushed') = Len(pushed) + 1
          /\ pushed'[Len(pushed) + 1] = c
          /\ \A i \in 1..Len(pushed) : pushed'[i] = pushed[i]
      BY <2>0, <2>3, AppendProperties
    <3>2. \A i \in 1..w : eaten + i \in 1..Len(pushed)
      BY <2>2, <2>3
    <3> QED
      BY <2>2, <2>3, <3>1, <3>2
  <2>7. buffer' \in [Slot -> Input \cup {None}] /\ buffer'[head] = c
        /\ \A i \in Slot : i # head => buffer'[i] = buffer[i]
    BY <2>0, <2>1 DEF RingInv
  <2>8. ASSUME NEW i \in 1..(w + 1)
        PROVE  pushed'[eaten + i] = buffer'[nth(tail, i)]
    <3>1. CASE i = w + 1
      BY <3>1, <2>2, <2>6, <2>7
    <3>2. CASE i \in 1..w
      BY <3>2, <2>2, <2>3, <2>6, <2>7
    <3> QED
      BY <3>1, <3>2, <2>2
  <2> QED
    BY <2>0, <2>1, <2>2, <2>3, <2>6, <2>7, <2>8 DEF RingInv, nth
<1> QED
  BY <1>1, <1>2

\* getchar() takes the oldest one.
LEMMA TakeKeepsQueue ==
    ASSUME RingInv, ~Empty, tail' = succ(tail), eaten' = eaten + 1,
           UNCHANGED <<buffer, head, pushed>>
    PROVE  /\ RingInv' /\ buffer[tail] \in Input
           /\ eaten + 1 <= Len(pushed) /\ pushed[eaten + 1] = buffer[tail]
<1> DEFINE w == Waiting
<1>1. head \in Slot /\ tail \in Slot /\ tail' \in Slot /\ head # tail
  BY SuccIs DEF RingInv, Empty
<1>2. /\ w \in 1..(BUFFER_SIZE - 1) /\ Waiting' = w - 1 /\ nth(tail, 1) = tail
      /\ \A i \in 1..(w - 1) : nth(tail', i) = nth(tail, i + 1)
  <2>1. w = inUse(head, tail) /\ Waiting' = inUse(head, succ(tail))
    BY DEF Waiting, inUse
  <2> HIDE DEF w
  <2> QED
    BY <1>1, <2>1, OneLess
<1>3. Len(pushed) = eaten + w /\ eaten \in Nat /\ pushed \in Seq(Input)
      /\ \A i \in 1..w : pushed[eaten + i] = buffer[nth(tail, i)]
  BY DEF RingInv, nth
<1> HIDE DEF w
<1>4. w \in Nat /\ w >= 1
  BY <1>2, StdinAssumption
<1>5. /\ buffer[tail] \in Input
      /\ eaten + 1 <= Len(pushed) /\ pushed[eaten + 1] = buffer[tail]
  <2>1. pushed[eaten + 1] = buffer[tail]
    BY <1>2, <1>3, <1>4
  <2>2. eaten + 1 \in 1..Len(pushed)
    BY <1>3, <1>4
  <2> QED
    BY <2>1, <2>2, <1>3
<1>6. ASSUME NEW i \in 1..(w - 1)
      PROVE  pushed[eaten + 1 + i] = buffer[nth(tail', i)]
  <2>1. i + 1 \in 1..w /\ eaten + (i + 1) = eaten + 1 + i
    BY <1>3, <1>4
  <2> QED
    BY <2>1, <1>2, <1>3
<1>7. Len(pushed) = eaten + 1 + (w - 1)
  BY <1>3, <1>4
<1> QED
  BY <1>1, <1>2, <1>3, <1>5, <1>6, <1>7 DEF RingInv, nth

\* What RingInv says slot by slot is RingIsQueue.
LEMMA RingInvIsQueue == RingInv => RingIsQueue
<1> SUFFICES ASSUME RingInv PROVE RingIsQueue
  OBVIOUS
<1> DEFINE w == Waiting
           rest == SubSeq(pushed, eaten + 1, Len(pushed))
           slots == [i \in 1..w |-> buffer[(tail + i - 1) % BUFFER_SIZE]]
<1>1. w \in Nat
  BY InUseIs, StdinAssumption DEF RingInv, Waiting, Slot, inUse
<1>2. /\ Len(pushed) = eaten + w /\ eaten \in Nat /\ pushed \in Seq(Input)
      /\ \A i \in 1..w : pushed[eaten + i] = buffer[(tail + i - 1) % BUFFER_SIZE]
  BY DEF RingInv
<1> HIDE DEF w
<1>3. \A i \in 1..w : pushed[eaten + i] \in Input
  <2>1. \A i \in 1..w : eaten + i \in 1..Len(pushed)
    BY <1>1, <1>2
  <2> QED
    BY <1>2, <2>1
<1>4. slots \in Seq(Input) /\ Len(slots) = w /\ \A i \in 1..w : slots[i] = pushed[eaten + i]
  <2>1. slots \in [1..w -> Input]
    BY <1>2, <1>3
  <2> QED
    BY <1>1, <1>2, <2>1
<1>5. rest \in Seq(Input) /\ Len(rest) = w /\ \A i \in 1..w : rest[i] = pushed[eaten + i]
  <2>1. \A i \in (eaten + 1)..Len(pushed) : pushed[i] \in Input
    BY <1>2
  <2>2. /\ rest \in Seq(Input)
        /\ Len(rest) = IF eaten + 1 <= Len(pushed) THEN Len(pushed) - (eaten + 1) + 1 ELSE 0
        /\ \A i \in 1..(Len(pushed) - (eaten + 1) + 1) : rest[i] = pushed[(eaten + 1) + i - 1]
    <3>1. eaten + 1 \in Int /\ Len(pushed) \in Int
      BY <1>2
    <3> QED
      BY <2>1, <3>1, SubSeqProperties
  <2> HIDE DEF rest
  <2> QED
    BY <1>1, <1>2, <2>2
<1> HIDE DEF rest, slots
<1>6. rest = slots
  BY <1>4, <1>5, SeqEqual
<1> QED
  BY <1>6 DEF rest, slots, w, Waiting, RingIsQueue

----------------------------------------------------------------------------
(* The line *)

\* A line stays a sequence of characters under editing, and one that a newline
\* completes is not empty: STDIN_LINE_CAP leaves room for one.
LEMMA EditKeepsLine ==
    ASSUME NEW c \in Input, stdin_line \in Seq(Input), edit(c)
    PROVE  /\ stdin_line' \in Seq(Input) /\ stdin_line_ready' \in BOOLEAN
           /\ stdin_line_ready' => Len(stdin_line') > 0
<1>0. Len(stdin_line) \in Nat
  OBVIOUS
<1>1. CASE c = "BS"
  <2>1. stdin_line' = SubSeq(stdin_line, 1, Len(stdin_line) - 1)
    BY <1>1 DEF edit
  <2>2. \A i \in 1..(Len(stdin_line) - 1) : stdin_line[i] \in Input
    BY <1>0
  <2>3. 1 \in Int /\ Len(stdin_line) - 1 \in Int
    BY <1>0
  <2>4. stdin_line' \in Seq(Input)
    BY <2>1, <2>2, <2>3, SubSeqProperties
  <2> QED
    BY <1>1, <2>4 DEF edit
<1>2. CASE c # "BS" /\ Len(stdin_line) < STDIN_LINE_CAP - 1
  <2>1. stdin_line' = Append(stdin_line, c)
    BY <1>2 DEF edit
  <2> QED
    BY <1>0, <2>1, AppendProperties DEF edit
<1>3. CASE c # "BS" /\ ~(Len(stdin_line) < STDIN_LINE_CAP - 1)
  <2>1. stdin_line' = stdin_line
    BY <1>3 DEF edit
  <2>2. Len(stdin_line) > 0
    BY <1>0, <1>3, StdinAssumption
  <2> QED
    BY <2>1, <2>2 DEF edit
<1> QED
  BY <1>1, <1>2, <1>3

LEMMA NextKeyKeepsInv ==
    ASSUME StdinInv, next_key
    PROVE  StdinInv'
<1>1. RingInv' /\ buffer[tail] \in Input
  BY TakeKeepsQueue DEF StdinInv, next_key
<1>2. /\ stdin_line' \in Seq(Input) /\ stdin_line_ready' \in BOOLEAN
      /\ stdin_line_ready' => Len(stdin_line') > 0
  BY <1>1, EditKeepsLine DEF StdinInv, LineInv, next_key
<1>3. stdin_line_pos = 0 /\ stdin_line_pos' = 0
  BY DEF StdinInv, LineInv, NoFalseEof, next_key
<1>4. UNCHANGED <<busy, want>>
  BY DEF next_key
<1> QED
  BY <1>1, <1>2, <1>3, <1>4 DEF StdinInv, LineInv, NoFalseEof

LEMMA DeliverKeepsInv ==
    ASSUME StdinInv, deliver
    PROVE  StdinInv'
<1> DEFINE n == Lesser(want[busy], avail)
<1>1. UNCHANGED <<ring, pushed, eaten>> /\ busy' = None /\ want' = [want EXCEPT ![busy] = None]
      /\ busy # None /\ stdin_line_ready /\ drain(n)
  BY DEF deliver
<1>2. RingInv'
  BY <1>1 DEF StdinInv, RingInv, Waiting, ring
<1>3. n \in Nat
  <2>1. want[busy] \in Nat
    BY <1>1 DEF StdinInv, LineInv
  <2>2. avail \in Nat
    BY <1>1 DEF StdinInv, LineInv, NoFalseEof, avail
  <2> QED
    BY <2>1, <2>2 DEF Lesser
<1> HIDE DEF n
<1>4. want' \in [Reader -> Nat \cup {None}] /\ busy' \in Reader \cup {None}
  BY <1>1 DEF StdinInv, LineInv
<1>5. /\ stdin_line' \in Seq(Input) /\ stdin_line_pos' \in Nat
      /\ stdin_line_ready' \in BOOLEAN /\ NoFalseEof'
  <2>0. /\ stdin_line \in Seq(Input) /\ stdin_line_pos \in Nat /\ stdin_line_ready
        /\ Len(stdin_line) \in Nat
    BY <1>1 DEF StdinInv, LineInv
  <2>1. CASE stdin_line_pos + n >= Len(stdin_line)
    <3>1. stdin_line' = << >> /\ stdin_line_pos' = 0 /\ stdin_line_ready' = FALSE
      BY <1>1, <2>1 DEF drain
    <3>2. << >> \in Seq(Input)
      BY EmptySeq
    <3> QED
      BY <3>1, <3>2 DEF NoFalseEof
  <2>2. CASE ~(stdin_line_pos + n >= Len(stdin_line))
    <3>1. stdin_line_pos' = stdin_line_pos + n /\ UNCHANGED <<stdin_line, stdin_line_ready>>
      BY <1>1, <2>2 DEF drain
    <3> QED
      BY <2>0, <2>2, <3>1, <1>3 DEF NoFalseEof
  <2> QED
    BY <2>1, <2>2
<1> QED
  BY <1>1, <1>2, <1>4, <1>5 DEF StdinInv, LineInv

LEMMA HandlerKeepsInv ==
    ASSUME StdinInv, NEW key \in Key, NEW released, keyboard_handler(key, released)
    PROVE  StdinInv'
<1>1. UNCHANGED <<tail, line, busy, want, eaten>> /\ push_typed(key, released)
  BY DEF keyboard_handler
<1>2. LineInv'
  BY <1>1 DEF StdinInv, LineInv, NoFalseEof, line
<1>3. RingInv'
  <2>1. CASE ~released /\ key.do = "type"
    <3>1. key.c \in Input
      BY <2>1 DEF Key
    <3> QED
      BY <1>1, <2>1, <3>1, PushKeepsQueue DEF push_typed, StdinInv
  <2>2. CASE ~(~released /\ key.do = "type")
    BY <1>1, <2>2 DEF push_typed, StdinInv, RingInv, Waiting
  <2> QED
    BY <2>1, <2>2
<1> QED
  BY <1>2, <1>3 DEF StdinInv

LEMMA StdinUnchanged ==
    ASSUME StdinInv, UNCHANGED stdinVars
    PROVE  StdinInv'
  BY DEF StdinInv, RingInv, LineInv, Waiting, NoFalseEof, stdinVars, ring, line

LEMMA StdinInitially == StdinInit => StdinInv
<1> SUFFICES ASSUME StdinInit PROVE StdinInv
  OBVIOUS
<1>1. Waiting = 0
  BY StdinAssumption DEF StdinInit, Waiting
<1>2. RingInv
  BY <1>1, StdinAssumption DEF StdinInit, RingInv, Slot
<1>3. LineInv
  <2>1. << >> \in Seq(Input)
    BY EmptySeq
  <2>2. want \in [Reader -> Nat \cup {None}]
    BY DEF StdinInit
  <2> QED
    BY <2>1, <2>2 DEF StdinInit, LineInv, NoFalseEof
<1> QED
  BY <1>2, <1>3 DEF StdinInv

LEMMA StdinStep ==
    ASSUME StdinInv, [Next]_vars
    PROVE  StdinInv'
<1>1. CASE kernel_main \/ timer_irq \/ UNCHANGED vars \/ \E c \in Output : sys_write(c)
  BY <1>1, StdinUnchanged
     DEF kernel_main, find_tables, halt, route, install_gates, enable, timer_init,
         timer_unmask, timer_callback, start_scheduler, set_hook, init_consoles,
         keyboard_init, keyboard_unmask, print_banner, continue_print, end_banner,
         spawn_shell, boot, timer_irq, sys_write, vars
<1>2. ASSUME NEW key \in Key, NEW released \in BOOLEAN, keyboard_irq(key, released)
      PROVE  StdinInv'
  BY <1>2, StdinUnchanged, HandlerKeepsInv DEF keyboard_irq
<1>3. ASSUME NEW r \in Reader, program(r)
      PROVE  StdinInv'
  <2>1. CASE \E n \in ReadLen : sys_read(r, n)
    <3> PICK n \in ReadLen : sys_read(r, n)
      BY <2>1
    <3>1. n \in Nat /\ n # None
      BY StdinAssumption
    <3>2. UNCHANGED <<ring, line, pushed, eaten>> /\ busy' = r /\ want' = [want EXCEPT ![r] = n]
      BY DEF sys_read
    <3>3. RingInv'
      BY <3>2 DEF StdinInv, RingInv, Waiting, ring
    <3>4. LineInv'
      BY <3>1, <3>2 DEF StdinInv, LineInv, NoFalseEof, line
    <3> QED
      BY <3>3, <3>4 DEF StdinInv
  <2>2. CASE resume(r)
    BY <2>2 DEF resume, StdinInv, RingInv, LineInv, Waiting, NoFalseEof, ring, line
  <2> QED
    BY <1>3, <2>1, <2>2 DEF program
<1>4. CASE reading
  <2>1. CASE block
    BY <2>1 DEF block, StdinInv, RingInv, LineInv, Waiting, NoFalseEof, ring, line
  <2> QED
    BY <1>4, <2>1, NextKeyKeepsInv, DeliverKeepsInv DEF reading
<1> QED
  BY <1>1, <1>2, <1>3, <1>4 DEF Next

\* RingIsQueue (io/keyboard.cpp's buffer): for every size of the ring, number of
\* readers and interleaving of the handler with them, the slots from tail to
\* head are the characters accepted and not read, in order.
THEOREM RingSafety == Spec => []RingIsQueue
<1>1. Init => StdinInv
  BY StdinInitially DEF Init
<1>2. StdinInv /\ [Next]_vars => StdinInv'
  BY StdinStep
<1>3. StdinInv => RingIsQueue
  BY RingInvIsQueue DEF StdinInv
<1> QED
  BY <1>1, <1>2, <1>3, PTL DEF Spec

\* NoFalseEof (sys_read_stdin()): for every capacity of the line above 1, a
\* complete line always has a byte left to hand out.
THEOREM EofSafety == Spec => []NoFalseEof
<1>1. Init => StdinInv
  BY StdinInitially DEF Init
<1>2. StdinInv /\ [Next]_vars => StdinInv'
  BY StdinStep
<1>3. StdinInv => NoFalseEof
  BY DEF StdinInv, LineInv
<1> QED
  BY <1>1, <1>2, <1>3, PTL DEF Spec

----------------------------------------------------------------------------
(* The screen *)

Cell == Char \cup {Blank, "BS", "NL"} \cup Output \cup {Label(n) : n \in Consoles}
ConsoleValue == [buffer : [Pos -> Cell], row : 0..(RowModulus - 1), col : 0..(VGA_WIDTH - 1)]

\* Line feeds and other characters among the first k of the banner.
feeds(k) == Cardinality({i \in 1..k : Banner[i] = "NL"})
chars(k) == Cardinality({i \in 1..k : Banner[i] # "NL"})

\* Characters of the banner the cursor has moved past.
moved == IF printing.next \in {"buffer", "vga", "move"} THEN shown - 1 ELSE shown

TtyTypeOK ==
    /\ consoles \in [Consoles -> ConsoleValue]
    /\ active_console \in Consoles
    /\ vga \in [Pos -> Cell]
    /\ ip \in Nat /\ shown \in 0..Len(Banner)

\* print() is cut into its stores only while kernel_main prints the banner.
PrintingOK ==
    \/ printing = Idle
    \/ /\ ip = 13 /\ shown \in 1..Len(Banner)
       /\ printing \in [next : {"buffer", "vga", "move", "cursor"},
                        c : {Banner[shown]}, con : Consoles, at : Nat]

\* However it is spread over the consoles, the banner has not reached the last
\* row or column of one.
BannerOK ==
    ip <= 13 => \A n \in Consoles : /\ consoles[n].row <= feeds(moved)
                                    /\ consoles[n].col <= chars(moved)

\* The console of a character being stored is still the active one, unless a
\* switch has torn it.
PendingOK ==
    printing.next \in {"buffer", "vga"} /\ printing.at \notin torn =>
      /\ printing.con = active_console
      /\ printing.next = "vga" /\ printing.at \in Pos =>
           consoles[printing.con].buffer[printing.at] = printing.c

\* Programs run once the banner is out.
QuietOK == busy # None => ip > 14

ScreenInv ==
    TtyTypeOK /\ PrintingOK /\ BannerOK /\ PendingOK /\ QuietOK /\ ScreenShowsActive

\* The banner's counts grow one by one and stay below the size of the screen.
LEMMA Counts ==
    ASSUME NEW k \in 0..Len(Banner)
    PROVE  /\ feeds(k) \in Nat /\ chars(k) \in Nat
           /\ feeds(k) < VGA_HEIGHT /\ chars(k) < VGA_WIDTH
           /\ k > 0 => /\ feeds(k) = feeds(k - 1) + (IF Banner[k] = "NL" THEN 1 ELSE 0)
                       /\ chars(k) = chars(k - 1) + (IF Banner[k] = "NL" THEN 0 ELSE 1)
                       /\ feeds(k - 1) \in Nat /\ chars(k - 1) \in Nat
<1> DEFINE F(j) == {i \in 1..j : Banner[i] = "NL"}
           C(j) == {i \in 1..j : Banner[i] # "NL"}
<1>0. Banner \in Seq(Char \cup {"NL"}) /\ Len(Banner) \in Nat /\ DOMAIN Banner = 1..Len(Banner)
  BY BannerFits
<1>1. ASSUME NEW j \in 0..Len(Banner)
      PROVE  /\ IsFiniteSet(F(j)) /\ IsFiniteSet(C(j))
             /\ feeds(j) = Cardinality(F(j)) /\ chars(j) = Cardinality(C(j))
             /\ feeds(j) \in Nat /\ chars(j) \in Nat
  <2>1. IsFiniteSet(1..j)
    BY FS_Interval, <1>0
  <2>2. F(j) \in SUBSET (1..j) /\ C(j) \in SUBSET (1..j)
    OBVIOUS
  <2>3. IsFiniteSet(F(j)) /\ IsFiniteSet(C(j))
    BY <2>1, <2>2, FS_Subset
  <2> QED
    BY <2>3, FS_CardinalityType DEF feeds, chars
<1>2. feeds(k) < VGA_HEIGHT /\ chars(k) < VGA_WIDTH
  <2>1. /\ IsFiniteSet(F(Len(Banner))) /\ IsFiniteSet(C(Len(Banner)))
        /\ Cardinality(F(Len(Banner))) \in Nat /\ Cardinality(C(Len(Banner))) \in Nat
    <3>1. Len(Banner) \in 0..Len(Banner)
      BY <1>0
    <3> QED
      BY <1>1, <3>1
  <2>2. F(k) \in SUBSET F(Len(Banner)) /\ C(k) \in SUBSET C(Len(Banner))
    BY <1>0
  <2>3. /\ Cardinality(F(k)) <= Cardinality(F(Len(Banner)))
        /\ Cardinality(C(k)) <= Cardinality(C(Len(Banner)))
    BY <2>1, <2>2, FS_Subset
  <2>4. Cardinality(F(Len(Banner))) < VGA_HEIGHT /\ Cardinality(C(Len(Banner))) < VGA_WIDTH
    BY <1>0, BannerFits
  <2>5. /\ Cardinality(F(k)) \in Nat /\ Cardinality(C(k)) \in Nat
        /\ feeds(k) = Cardinality(F(k)) /\ chars(k) = Cardinality(C(k))
    BY <1>1
  <2> HIDE DEF F, C
  <2> QED
    BY <2>1, <2>3, <2>4, <2>5, TtyAssumption
<1>3. ASSUME k > 0
      PROVE  /\ feeds(k) = feeds(k - 1) + (IF Banner[k] = "NL" THEN 1 ELSE 0)
             /\ chars(k) = chars(k - 1) + (IF Banner[k] = "NL" THEN 0 ELSE 1)
             /\ feeds(k - 1) \in Nat /\ chars(k - 1) \in Nat
  <2>0. k - 1 \in 0..Len(Banner)
    BY <1>0, <1>3
  <2>1. /\ IsFiniteSet(F(k - 1)) /\ IsFiniteSet(C(k - 1))
        /\ feeds(k - 1) = Cardinality(F(k - 1)) /\ chars(k - 1) = Cardinality(C(k - 1))
        /\ feeds(k - 1) \in Nat /\ chars(k - 1) \in Nat
    BY <1>1, <2>0
  <2>2. k \notin F(k - 1) /\ k \notin C(k - 1)
    BY <1>0
  <2>3. CASE Banner[k] = "NL"
    <3>1. F(k) = F(k - 1) \cup {k} /\ C(k) = C(k - 1)
      BY <1>0, <1>3, <2>3
    <3>2. Cardinality(F(k)) = Cardinality(F(k - 1)) + 1
      BY <2>1, <2>2, <3>1, FS_AddElement
    <3>3. feeds(k) = Cardinality(F(k)) /\ chars(k) = Cardinality(C(k))
      BY <1>1
    <3> HIDE DEF F, C
    <3> QED
      BY <2>1, <2>3, <3>1, <3>2, <3>3
  <2>4. CASE Banner[k] # "NL"
    <3>1. C(k) = C(k - 1) \cup {k} /\ F(k) = F(k - 1)
      BY <1>0, <1>3, <2>4
    <3>2. Cardinality(C(k)) = Cardinality(C(k - 1)) + 1
      BY <2>1, <2>2, <3>1, FS_AddElement
    <3>3. feeds(k) = Cardinality(F(k)) /\ chars(k) = Cardinality(C(k))
      BY <1>1
    <3> HIDE DEF F, C
    <3> QED
      BY <2>1, <2>4, <3>1, <3>2, <3>3
  <2> QED
    BY <2>3, <2>4
<1> QED
  BY <1>1, <1>2, <1>3

LEMMA BootOrder ==
    /\ \A step : at(step) => ip \in 1..14
    /\ at("acpi") => ip = 1
    /\ at("tty") => ip = 10
    /\ at("banner") => ip = 13
<1>1. DOMAIN boot_order = 1..14
  BY DEF boot_order
<1> QED
  BY <1>1 DEF at, boot_order

LEMMA ShellIsLast == went("shell") /\ ip \in Nat => ip > 14
<1> DEFINE I == {i \in 1..Len(boot_order) : boot_order[i] = "shell"}
<1>1. Len(boot_order) = 14 /\ boot_order[14] = "shell"
  BY DEF boot_order
<1>2. \A i \in 1..14 : boot_order[i] = "shell" => i = 14
  BY DEF boot_order
<1>3. I = {14}
  BY <1>1, <1>2
<1>4. Min(I) = 14
  <2>1. I \subseteq Nat /\ I # {}
    BY <1>3
  <2>2. Min(I) \in I
    BY <2>1, MinIsLeast
  <2> QED
    BY <1>3, <2>2
<1>5. SelectInSeq(boot_order, LAMBDA s : s = "shell") = IF I # {} THEN Min(I) ELSE 0
  BY DEF SelectInSeq
<1> HIDE DEF I
<1> QED
  BY <1>3, <1>4, <1>5 DEF went

\* The stores and cursor movements keep a console a console; only scrolling
\* moves its text.
LEMMA StoreIs ==
    ASSUME NEW buf \in [Pos -> Cell], NEW p, NEW c \in Cell
    PROVE  /\ store(buf, p, c) \in [Pos -> Cell]
           /\ \A q \in Pos : store(buf, p, c)[q] = IF q = p THEN c ELSE buf[q]
  BY DEF store

LEMMA ConsoleMoves ==
    ASSUME NEW con \in ConsoleValue
    PROVE  /\ row_down(con) \in ConsoleValue /\ row_down(con).buffer = con.buffer
           /\ back_up(con) \in ConsoleValue /\ back_up(con).buffer = con.buffer
           /\ line_feed(con) \in ConsoleValue
           /\ ~needs_scroll(con) => line_feed(con) = row_down(con)
           /\ advance(con) \in ConsoleValue
           /\ ~wraps(con) => advance(con).buffer = con.buffer
           /\ con.col + 1 < VGA_WIDTH => advance(con) = [con EXCEPT !.col = con.col + 1]
<1>0. /\ con.buffer \in [Pos -> Cell] /\ con.row \in 0..(RowModulus - 1)
      /\ con.col \in 0..(VGA_WIDTH - 1)
      /\ RowModulus \in Nat \ {0} /\ VGA_WIDTH \in Nat \ {0}
      /\ VGA_HEIGHT - 1 \in 0..(RowModulus - 1)
  BY TtyAssumption DEF ConsoleValue
<1>1. \A n \in Nat : u8(n) \in 0..(RowModulus - 1)
  BY <1>0 DEF u8
<1>2. row_down(con) \in ConsoleValue /\ row_down(con).buffer = con.buffer
  <2>1. con.row + 1 \in Nat /\ 0 \in 0..(VGA_WIDTH - 1)
    BY <1>0
  <2> QED
    BY <1>1, <2>1 DEF row_down, ConsoleValue
<1>3. back_up(con) \in ConsoleValue /\ back_up(con).buffer = con.buffer
  <2>1. con.row + RowModulus - 1 \in Nat /\ VGA_WIDTH - 1 \in 0..(VGA_WIDTH - 1)
    BY <1>0
  <2> QED
    BY <1>1, <2>1 DEF back_up, ConsoleValue
<1>4. scroll(con) \in ConsoleValue
  <2>1. [p \in Pos |-> IF p + VGA_WIDTH \in Pos
                       THEN con.buffer[p + VGA_WIDTH] ELSE Blank] \in [Pos -> Cell]
    BY <1>0 DEF Cell
  <2>2. 0 \in 0..(VGA_WIDTH - 1)
    BY <1>0
  <2> QED
    BY <1>0, <2>1, <2>2 DEF scroll, ConsoleValue
<1>5. line_feed(con) \in ConsoleValue /\ (~needs_scroll(con) => line_feed(con) = row_down(con))
  BY <1>2, <1>4 DEF line_feed
<1>6. CASE con.col + 1 < VGA_WIDTH
  <2>1. con.col + 1 \in 0..(VGA_WIDTH - 1) /\ ~(con.col + 1 >= VGA_WIDTH)
    BY <1>0, <1>6
  <2>2. advance(con) = [con EXCEPT !.col = con.col + 1]
    BY <2>1 DEF advance
  <2>3. advance(con) \in ConsoleValue /\ advance(con).buffer = con.buffer
    BY <2>1, <2>2 DEF ConsoleValue
  <2> QED
    BY <1>2, <1>3, <1>5, <2>2, <2>3
<1>7. CASE ~(con.col + 1 < VGA_WIDTH)
  <2>1. con.col + 1 >= VGA_WIDTH
    BY <1>0, <1>7
  <2>2. advance(con) = line_feed(con)
    BY <2>1 DEF advance
  <2> QED
    BY <1>2, <1>3, <1>5, <1>7, <2>1, <2>2 DEF wraps
<1> QED
  BY <1>6, <1>7

\* The whole of print() keeps the screen in step with the active console.
LEMMA PrintKeepsScreen ==
    ASSUME TtyTypeOK, ScreenShowsActive, printing = Idle, NEW c \in Cell, print(c),
           UNCHANGED <<ip, shown>>
    PROVE  TtyTypeOK' /\ ScreenShowsActive' /\ printing' = Idle
<1> DEFINE con == consoles[active_console]
<1>0. /\ UNCHANGED <<active_console, printing>> /\ printing' = Idle
      /\ con \in ConsoleValue /\ con.buffer \in [Pos -> Cell] /\ vga \in [Pos -> Cell]
      /\ con.col \in 0..(VGA_WIDTH - 1) /\ active_console \in Consoles
      /\ VGA_WIDTH \in Nat
  BY TtyAssumption DEF print, TtyTypeOK, ConsoleValue
<1>1. \A p \in Pos \ torn : vga[p] = con.buffer[p]
  BY DEF ScreenShowsActive, Pending, Idle
<1>2. SUFFICES \E new \in ConsoleValue :
                  /\ consoles' = [consoles EXCEPT ![active_console] = new]
                  /\ vga' \in [Pos -> Cell]
                  /\ \A p \in Pos \ torn' : vga'[p] = new.buffer[p]
  <2> PICK new \in ConsoleValue :
                  /\ consoles' = [consoles EXCEPT ![active_console] = new]
                  /\ vga' \in [Pos -> Cell]
                  /\ \A p \in Pos \ torn' : vga'[p] = new.buffer[p]
    BY <1>2
  <2>1. TtyTypeOK'
    BY <1>0 DEF TtyTypeOK
  <2>2. consoles'[active_console] = new
    BY <1>0 DEF TtyTypeOK
  <2>3. ScreenShowsActive'
    BY <1>0, <2>2 DEF ScreenShowsActive
  <2> QED
    BY <1>0, <2>1, <2>3
<1>3. Blank \in Cell
  BY DEF Cell
<1>4. CASE c = "BS"
  <2> DEFINE left == [con EXCEPT !.col = con.col - 1]
  <2>0. print_backspace
    BY <1>4 DEF print
  <2>1. CASE con.col = 0
    <3>1. consoles' = [consoles EXCEPT ![active_console] = back_up(con)] /\ UNCHANGED <<vga, torn>>
      BY <2>0, <2>1 DEF print_backspace
    <3>2. back_up(con) \in ConsoleValue /\ back_up(con).buffer = con.buffer
      BY <1>0, ConsoleMoves
    <3> HIDE DEF con
    <3> QED
      BY <1>0, <1>1, <3>1, <3>2
  <2>2. CASE con.col # 0
    <3> DEFINE p == pos(left)
               new == [left EXCEPT !.buffer = store(left.buffer, p, Blank)]
    <3>1. /\ consoles' = [consoles EXCEPT ![active_console] = new]
          /\ vga' = store(vga, p, Blank) /\ torn' = torn \ {p}
      BY <2>0, <2>2 DEF print_backspace
    <3>2. left.buffer = con.buffer /\ left \in ConsoleValue
      <4> HIDE DEF con
      <4> QED
        BY <1>0, <2>2 DEF ConsoleValue
    <3> HIDE DEF p, left
    <3>3. new \in ConsoleValue /\ new.buffer = store(con.buffer, p, Blank)
      BY <1>0, <1>3, <3>2, StoreIs DEF ConsoleValue
    <3>4. /\ vga' \in [Pos -> Cell]
          /\ \A q \in Pos : /\ vga'[q] = IF q = p THEN Blank ELSE vga[q]
                            /\ new.buffer[q] = IF q = p THEN Blank ELSE con.buffer[q]
      BY <1>0, <1>3, <3>1, <3>3, StoreIs
    <3> HIDE DEF new
    <3> QED
      BY <1>1, <3>1, <3>3, <3>4
  <2> QED
    BY <2>1, <2>2
<1>5. CASE c = "NL"
  <2> DEFINE new == line_feed(con)
  <2>0. /\ consoles' = [consoles EXCEPT ![active_console] = new]
        /\ vga' = IF needs_scroll(con) THEN new.buffer ELSE vga
        /\ torn' = IF needs_scroll(con) THEN {} ELSE torn
    BY <1>5 DEF print, print_newline, render
  <2>1. new \in ConsoleValue /\ (~needs_scroll(con) => new.buffer = con.buffer)
    BY <1>0, ConsoleMoves
  <2>2. new.buffer \in [Pos -> Cell]
    BY <2>1 DEF ConsoleValue
  <2> HIDE DEF new
  <2> QED
    BY <1>0, <1>1, <2>0, <2>1, <2>2
<1>6. CASE c # "BS" /\ c # "NL"
  <2> DEFINE p == pos(con)
             put == [con EXCEPT !.buffer = store(con.buffer, p, c)]
             new == advance(put)
  <2>0. /\ consoles' = [consoles EXCEPT ![active_console] = new]
        /\ vga' = IF wraps(con) THEN new.buffer ELSE store(vga, p, c)
        /\ torn' = IF wraps(con) THEN {} ELSE torn \ {p}
    BY <1>6 DEF print, print_char, render
  <2>1. put \in ConsoleValue /\ put.buffer = store(con.buffer, p, c)
        /\ put.col = con.col /\ put.row = con.row
    <3> HIDE DEF con, p
    <3> QED
      BY <1>0, StoreIs DEF ConsoleValue
  <2>2. wraps(put) = wraps(con)
    <3>1. row_down(put).row = row_down(con).row
      <4> HIDE DEF put, con
      <4> QED
        BY <1>0, <2>1 DEF row_down, ConsoleValue
    <3> QED
      BY <2>1, <3>1 DEF wraps, needs_scroll
  <2>3. new \in ConsoleValue /\ (~wraps(con) => new.buffer = put.buffer)
    <3> HIDE DEF put
    <3> QED
      BY <2>1, <2>2, ConsoleMoves
  <2>4. new.buffer \in [Pos -> Cell]
    <3> HIDE DEF new
    <3> QED
      BY <2>3 DEF ConsoleValue
  <2> HIDE DEF new, put, p
  <2>5. /\ store(vga, p, c) \in [Pos -> Cell]
        /\ \A q \in Pos : /\ store(vga, p, c)[q] = IF q = p THEN c ELSE vga[q]
                          /\ store(con.buffer, p, c)[q] = IF q = p THEN c ELSE con.buffer[q]
    BY <1>0, StoreIs
  <2>6. CASE wraps(con)
    BY <2>0, <2>3, <2>4, <2>6
  <2>7. CASE ~wraps(con)
    <3> HIDE DEF con
    <3>1. /\ vga' = store(vga, p, c) /\ torn' = torn \ {p}
          /\ new.buffer = store(con.buffer, p, c)
      BY <2>0, <2>1, <2>3, <2>7
    <3>2. \A q \in Pos \ torn' : vga'[q] = new.buffer[q]
      BY <1>1, <2>5, <3>1
    <3> QED
      BY <2>0, <2>3, <2>5, <3>1, <3>2
  <2> QED
    BY <2>6, <2>7
<1> QED
  BY <1>4, <1>5, <1>6

\* Each step of print() while kernel_main prints its banner.
LEMMA BindKeepsScreen ==
    ASSUME ScreenInv, print_banner
    PROVE  ScreenInv'
<1>0. /\ TtyTypeOK /\ PrintingOK /\ BannerOK /\ PendingOK /\ QuietOK /\ ScreenShowsActive
      /\ printing = Idle /\ ip = 13 /\ ip' = ip /\ busy' = busy
      /\ shown < Len(Banner) /\ shown' = shown + 1
      /\ UNCHANGED <<consoles, active_console, vga, torn>>
      /\ Len(Banner) \in Nat
  BY BootOrder, BannerFits DEF ScreenInv, print_banner, bind, stdinVars
<1>1. printing' = [next |-> IF Banner[shown + 1] = "NL" THEN "move" ELSE "buffer",
                   c |-> Banner[shown + 1], con |-> active_console,
                   at |-> pos(consoles[active_console])]
  BY DEF print_banner, bind
<1>2. pos(consoles[active_console]) \in Nat
  <2>1. /\ consoles[active_console].row \in Nat /\ consoles[active_console].col \in Nat
        /\ VGA_WIDTH \in Nat
    BY <1>0, TtyAssumption DEF TtyTypeOK, ConsoleValue
  <2> QED
    BY <2>1 DEF pos
<1>3. TtyTypeOK'
  BY <1>0 DEF TtyTypeOK
<1>4. PrintingOK'
  <2>1. shown' \in 1..Len(Banner)
    BY <1>0 DEF TtyTypeOK
  <2> QED
    BY <1>0, <1>1, <1>2, <2>1 DEF PrintingOK, TtyTypeOK
<1>5. BannerOK'
  <2>1. moved = shown /\ moved' = shown
    BY <1>0, <1>1 DEF moved, Idle, TtyTypeOK
  <2> QED
    BY <1>0, <2>1 DEF BannerOK, feeds, chars
<1>6. PendingOK' /\ QuietOK'
  BY <1>0, <1>1 DEF PendingOK, QuietOK
<1>7. ScreenShowsActive'
  BY <1>0, <1>1 DEF ScreenShowsActive, Pending, Idle
<1> QED
  BY <1>3, <1>4, <1>5, <1>6, <1>7 DEF ScreenInv

LEMMA ContinueKeepsScreen ==
    ASSUME ScreenInv, continue_print
    PROVE  ScreenInv'
<1>0. /\ TtyTypeOK /\ PrintingOK /\ BannerOK /\ PendingOK /\ QuietOK /\ ScreenShowsActive
      /\ UNCHANGED <<ip, shown, busy>>
  BY DEF ScreenInv, continue_print, stdinVars, bootVars
<1>1. /\ printing # Idle /\ ip = 13 /\ shown \in 1..Len(Banner)
      /\ printing \in [next : {"buffer", "vga", "move", "cursor"},
                       c : {Banner[shown]}, con : Consoles, at : Nat]
  BY <1>0 DEF continue_print, store_buffer, store_vga, move, update_cursor, PrintingOK, Idle
<1>2. /\ printing.c = Banner[shown] /\ printing.c \in Cell /\ printing.con \in Consoles
      /\ printing.at \in Nat
  BY <1>1, BannerFits DEF Cell
<1>3. QuietOK'
  BY <1>0 DEF QuietOK
<1>4. CASE store_buffer
  <2> DEFINE k == printing.con
             con == consoles[k]
             new == [con EXCEPT !.buffer = store(con.buffer, printing.at, printing.c)]
  <2>0. /\ printing.next = "buffer" /\ printing' = [printing EXCEPT !.next = "vga"]
        /\ consoles' = [consoles EXCEPT ![k] = new]
        /\ UNCHANGED <<active_console, vga, torn>>
    BY <1>0, <1>2, <1>4 DEF store_buffer, TtyTypeOK
  <2>1. /\ printing'.next = "vga" /\ printing'.c = printing.c
        /\ printing'.con = k /\ printing'.at = printing.at
        /\ printing' \in [next : {"buffer", "vga", "move", "cursor"},
                          c : {Banner[shown]}, con : Consoles, at : Nat]
    BY <1>1, <2>0
  <2>2. /\ con \in ConsoleValue /\ con.buffer \in [Pos -> Cell] /\ new \in ConsoleValue
        /\ new.buffer = store(con.buffer, printing.at, printing.c)
        /\ new.row = con.row /\ new.col = con.col
    <3>1. con \in ConsoleValue
      BY <1>0, <1>2 DEF TtyTypeOK
    <3> HIDE DEF con
    <3> QED
      BY <1>2, <3>1, StoreIs DEF ConsoleValue
  <2>3. \A q \in Pos : new.buffer[q] = IF q = printing.at THEN printing.c ELSE con.buffer[q]
    BY <1>2, <2>2, StoreIs
  <2> HIDE DEF new
  <2>4. TtyTypeOK' /\ consoles'[k] = new /\ \A n \in Consoles : n # k => consoles'[n] = consoles[n]
    BY <1>0, <1>2, <2>0, <2>2 DEF TtyTypeOK
  <2>5. PrintingOK'
    BY <1>0, <1>1, <2>1 DEF PrintingOK
  <2>6. BannerOK'
    <3>1. moved' = moved
      BY <1>0, <2>0, <2>1 DEF moved
    <3>2. \A n \in Consoles : consoles'[n].row = consoles[n].row /\ consoles'[n].col = consoles[n].col
      BY <2>2, <2>4
    <3> QED
      BY <1>0, <3>1, <3>2 DEF BannerOK, feeds, chars
  <2>7. PendingOK'
    BY <1>0, <2>0, <2>1, <2>3, <2>4 DEF PendingOK
  <2>8. ScreenShowsActive'
    <3> SUFFICES ASSUME NEW q \in Pos, q \notin torn, q # printing.at
                 PROVE  vga[q] = consoles'[active_console].buffer[q]
      BY <2>0, <2>1 DEF ScreenShowsActive, Pending
    <3>1. vga[q] = consoles[active_console].buffer[q]
      BY <1>0, <2>0 DEF ScreenShowsActive, Pending
    <3>2. consoles'[active_console].buffer[q] = consoles[active_console].buffer[q]
      BY <1>0, <2>3, <2>4 DEF TtyTypeOK
    <3> QED
      BY <3>1, <3>2
  <2> QED
    BY <1>3, <2>4, <2>5, <2>6, <2>7, <2>8 DEF ScreenInv
<1>5. CASE store_vga
  <2>0. /\ printing.next = "vga" /\ printing' = [printing EXCEPT !.next = "move"]
        /\ vga' = store(vga, printing.at, printing.c)
        /\ UNCHANGED <<consoles, active_console, torn>>
    BY <1>5 DEF store_vga
  <2>1. /\ printing'.next = "move"
        /\ printing' \in [next : {"buffer", "vga", "move", "cursor"},
                          c : {Banner[shown]}, con : Consoles, at : Nat]
    BY <1>1, <2>0
  <2>2. /\ vga' \in [Pos -> Cell]
        /\ \A q \in Pos : vga'[q] = IF q = printing.at THEN printing.c ELSE vga[q]
    BY <1>0, <1>2, <2>0, StoreIs DEF TtyTypeOK
  <2>3. TtyTypeOK'
    BY <1>0, <2>0, <2>2 DEF TtyTypeOK
  <2>4. PrintingOK'
    BY <1>0, <1>1, <2>1 DEF PrintingOK
  <2>5. BannerOK'
    <3>1. moved' = moved
      BY <1>0, <2>0, <2>1 DEF moved
    <3> QED
      BY <1>0, <2>0, <3>1 DEF BannerOK, feeds, chars
  <2>6. PendingOK'
    BY <2>1 DEF PendingOK
  <2>7. ScreenShowsActive'
    <3> SUFFICES ASSUME NEW q \in Pos, q \notin torn
                 PROVE  vga'[q] = consoles[active_console].buffer[q]
      BY <2>0, <2>1 DEF ScreenShowsActive, Pending
    <3>1. CASE q = printing.at
      BY <1>0, <2>0, <2>2, <3>1 DEF PendingOK
    <3>2. CASE q # printing.at
      <4>1. vga[q] = consoles[active_console].buffer[q]
        BY <1>0, <2>0, <3>2 DEF ScreenShowsActive, Pending
      <4> QED
        BY <2>2, <3>2, <4>1
    <3> QED
      BY <3>1, <3>2
  <2> QED
    BY <1>3, <2>3, <2>4, <2>5, <2>6, <2>7 DEF ScreenInv
<1>6. CASE move
  <2> DEFINE k == printing.con
             con == consoles[k]
             new == IF printing.c = "NL" THEN line_feed(con) ELSE advance(con)
  <2>0. /\ printing.next = "move" /\ printing' = [printing EXCEPT !.next = "cursor"]
        /\ consoles' = [consoles EXCEPT ![k] = new]
        /\ UNCHANGED <<active_console, vga, torn>>
    BY <1>0, <1>2, <1>6 DEF move, TtyTypeOK
  <2>1. /\ printing'.next = "cursor"
        /\ printing' \in [next : {"buffer", "vga", "move", "cursor"},
                          c : {Banner[shown]}, con : Consoles, at : Nat]
    BY <1>1, <2>0
  <2>2. /\ con \in ConsoleValue /\ con.row \in 0..(RowModulus - 1)
        /\ con.col \in 0..(VGA_WIDTH - 1)
    <3>1. con \in ConsoleValue
      BY <1>0, <1>2 DEF TtyTypeOK
    <3> HIDE DEF con
    <3> QED
      BY <3>1 DEF ConsoleValue
  <2>3. moved = shown - 1 /\ moved' = shown
    BY <1>0, <2>0, <2>1 DEF moved
  <2>4. /\ feeds(shown) \in Nat /\ chars(shown) \in Nat
        /\ feeds(shown) < VGA_HEIGHT /\ chars(shown) < VGA_WIDTH
        /\ feeds(shown) = feeds(shown - 1) + (IF Banner[shown] = "NL" THEN 1 ELSE 0)
        /\ chars(shown) = chars(shown - 1) + (IF Banner[shown] = "NL" THEN 0 ELSE 1)
        /\ feeds(shown - 1) \in Nat /\ chars(shown - 1) \in Nat
    <3>1. shown \in 0..Len(Banner) /\ shown > 0
      BY <1>1, BannerFits
    <3> QED
      BY <3>1, Counts
  <2>5. \A n \in Consoles : /\ consoles[n].row <= feeds(shown - 1)
                            /\ consoles[n].col <= chars(shown - 1)
    BY <1>0, <1>1, <2>3 DEF BannerOK
  <2>6. /\ new \in ConsoleValue /\ new.buffer = con.buffer
        /\ new.row <= feeds(shown) /\ new.col <= chars(shown)
    <3>0. con.row <= feeds(shown - 1) /\ con.col <= chars(shown - 1)
      BY <1>2, <2>5
    <3>1. CASE printing.c = "NL"
      <4>1. con.row + 1 <= feeds(shown) /\ con.row + 1 < VGA_HEIGHT
            /\ con.row + 1 \in 0..(RowModulus - 1) /\ VGA_HEIGHT < RowModulus
        BY <1>2, <2>2, <2>4, <3>0, <3>1, TtyAssumption
      <4>2. u8(con.row + 1) = con.row + 1
        BY <4>1, TtyAssumption DEF u8
      <4>3. row_down(con).row = con.row + 1 /\ row_down(con).col = 0
        <5> HIDE DEF con
        <5> QED
          BY <2>2, <4>2 DEF row_down, ConsoleValue
      <4>4. ~needs_scroll(con)
        BY <2>2, <4>1, <4>3, TtyAssumption DEF needs_scroll
      <4>5. new = row_down(con) /\ new \in ConsoleValue /\ new.buffer = con.buffer
        BY <2>2, <3>1, <4>4, ConsoleMoves
      <4> QED
        BY <2>4, <4>1, <4>3, <4>5
    <3>2. CASE printing.c # "NL"
      <4>1. con.col + 1 <= chars(shown) /\ con.col + 1 < VGA_WIDTH /\ con.row <= feeds(shown)
        BY <1>2, <2>2, <2>4, <3>0, <3>2, TtyAssumption
      <4>2. new = [con EXCEPT !.col = con.col + 1] /\ new \in ConsoleValue
        BY <2>2, <3>2, <4>1, ConsoleMoves
      <4>3. new.col = con.col + 1 /\ new.row = con.row /\ new.buffer = con.buffer
        <5> HIDE DEF con
        <5> QED
          BY <2>2, <4>2 DEF ConsoleValue
      <4> QED
        BY <4>1, <4>2, <4>3
    <3> QED
      BY <3>1, <3>2
  <2> HIDE DEF new
  <2>7. TtyTypeOK' /\ consoles'[k] = new /\ \A n \in Consoles : n # k => consoles'[n] = consoles[n]
    BY <1>0, <1>2, <2>0, <2>6 DEF TtyTypeOK
  <2>8. PrintingOK'
    BY <1>0, <1>1, <2>1 DEF PrintingOK
  <2>9. BannerOK'
    <3> SUFFICES ASSUME NEW n \in Consoles
                 PROVE  consoles'[n].row <= feeds(shown) /\ consoles'[n].col <= chars(shown)
      BY <1>0, <2>3 DEF BannerOK, feeds, chars
    <3>1. CASE n = k
      BY <2>6, <2>7, <3>1
    <3>2. CASE n # k
      <4>1. consoles[n].row \in Nat /\ consoles[n].col \in Nat
        BY <1>0, TtyAssumption DEF TtyTypeOK, ConsoleValue
      <4> QED
        BY <2>4, <2>5, <2>7, <3>2, <4>1
    <3> QED
      BY <3>1, <3>2
  <2>10. PendingOK'
    BY <2>1 DEF PendingOK
  <2>11. ScreenShowsActive'
    <3>1. consoles'[active_console].buffer = consoles[active_console].buffer
      BY <1>0, <2>6, <2>7 DEF TtyTypeOK
    <3> QED
      BY <1>0, <2>0, <2>1, <3>1 DEF ScreenShowsActive, Pending
  <2> QED
    BY <1>3, <2>7, <2>8, <2>9, <2>10, <2>11 DEF ScreenInv
<1>7. CASE update_cursor
  <2>0. /\ printing.next = "cursor" /\ printing' = Idle
        /\ UNCHANGED <<consoles, active_console, vga, torn>>
    BY <1>7 DEF update_cursor
  <2>1. moved' = moved
    BY <1>0, <2>0 DEF moved, Idle
  <2> QED
    BY <1>0, <1>3, <2>0, <2>1
       DEF ScreenInv, TtyTypeOK, PrintingOK, BannerOK, PendingOK, ScreenShowsActive,
           Pending, Idle, feeds, chars
<1> QED
  BY <1>4, <1>5, <1>6, <1>7 DEF continue_print

\* A switch may come between any two of those steps.
LEMMA SwitchKeepsScreen ==
    ASSUME ScreenInv, NEW n \in Consoles, switch_to(n), UNCHANGED <<ip, shown, busy>>
    PROVE  ScreenInv'
<1>0. /\ TtyTypeOK /\ PrintingOK /\ BannerOK /\ QuietOK
      /\ active_console' = n /\ vga' = consoles[n].buffer /\ UNCHANGED <<consoles, printing>>
      /\ torn' = IF printing.next \in {"buffer", "vga"} THEN {printing.at} ELSE {}
  BY DEF ScreenInv, switch_to
<1>1. TtyTypeOK'
  BY <1>0 DEF TtyTypeOK, ConsoleValue
<1>2. PrintingOK' /\ QuietOK'
  BY <1>0 DEF PrintingOK, QuietOK
<1>3. BannerOK'
  BY <1>0 DEF BannerOK, moved, feeds, chars
<1>4. PendingOK'
  BY <1>0 DEF PendingOK
<1>5. ScreenShowsActive'
  BY <1>0 DEF ScreenShowsActive
<1> QED
  BY <1>1, <1>2, <1>3, <1>4, <1>5 DEF ScreenInv

\* Outside the banner the consoles rest, or kernel_main goes on to its next step.
LEMMA ScreenRests ==
    ASSUME ScreenInv, UNCHANGED <<ttyVars, shown>>, ip' \in Nat,
           ip' # ip => printing = Idle, ip' <= 13 => ip <= 13, QuietOK'
    PROVE  ScreenInv'
<1>0. /\ TtyTypeOK /\ PrintingOK /\ BannerOK /\ PendingOK /\ ScreenShowsActive
      /\ UNCHANGED <<consoles, active_console, vga, printing, torn>>
  BY DEF ScreenInv, ttyVars
<1>1. TtyTypeOK' /\ PrintingOK' /\ PendingOK' /\ ScreenShowsActive'
  BY <1>0 DEF TtyTypeOK, PrintingOK, PendingOK, ScreenShowsActive, Pending
<1>2. BannerOK'
  BY <1>0 DEF BannerOK, moved, feeds, chars
<1> QED
  BY <1>1, <1>2 DEF ScreenInv

LEMMA ScreenInitially == Init => ScreenInv
<1> SUFFICES ASSUME Init PROVE ScreenInv
  OBVIOUS
<1>0. TtyInit /\ busy = None /\ ip = 1 /\ shown = 0
  BY DEF Init, StdinInit
<1>1. TtyTypeOK
  <2>1. [p \in Pos |-> Blank] \in [Pos -> Cell] /\ Len(Banner) \in Nat
    BY BannerFits DEF Cell
  <2>2. 0 \in Consoles /\ 0 \in 0..(RowModulus - 1) /\ 0 \in 0..(VGA_WIDTH - 1)
    BY TtyAssumption DEF Consoles
  <2>3. [buffer |-> [p \in Pos |-> Blank], row |-> 0, col |-> 0] \in ConsoleValue
    BY <2>1, <2>2 DEF ConsoleValue
  <2> QED
    BY <1>0, <2>1, <2>2, <2>3 DEF TtyTypeOK, TtyInit
<1>2. BannerOK
  <2>1. moved = 0 /\ 0 \in 0..Len(Banner)
    BY <1>0, BannerFits DEF moved, TtyInit, Idle
  <2>2. feeds(moved) \in Nat /\ chars(moved) \in Nat
    BY <2>1, Counts
  <2> QED
    BY <1>0, <2>2 DEF BannerOK, TtyInit
<1>3. PrintingOK /\ PendingOK /\ QuietOK
  BY <1>0 DEF PrintingOK, PendingOK, QuietOK, TtyInit, Idle
<1>4. ScreenShowsActive
  <2>1. 0 \in Consoles
    BY TtyAssumption DEF Consoles
  <2> QED
    BY <1>0, <2>1 DEF ScreenShowsActive, TtyInit
<1> QED
  BY <1>1, <1>2, <1>3, <1>4 DEF ScreenInv

LEMMA InitConsolesKeepsScreen ==
    ASSUME ScreenInv, init_consoles
    PROVE  ScreenInv'
<1> DEFINE fresh(n) == [buffer |-> [p \in Pos |-> IF p = 0 THEN Label(n) ELSE Blank],
                        row |-> 0, col |-> 0]
<1>0. /\ TtyTypeOK /\ PrintingOK /\ QuietOK
      /\ consoles' = [n \in Consoles |-> fresh(n)]
      /\ active_console' = 0 /\ vga' = consoles'[0].buffer
      /\ UNCHANGED <<printing, torn, shown, busy>> /\ ip = 10 /\ ip' = 11
  BY BootOrder DEF ScreenInv, init_consoles, tty_init, stdinVars
<1>1. printing = Idle
  BY <1>0 DEF PrintingOK
<1>2. 0 \in Consoles /\ 0 \in 0..(RowModulus - 1) /\ 0 \in 0..(VGA_WIDTH - 1)
  BY TtyAssumption DEF Consoles
<1>3. \A n \in Consoles : fresh(n) \in ConsoleValue /\ fresh(n).row = 0 /\ fresh(n).col = 0
                          /\ fresh(n).buffer \in [Pos -> Cell]
  BY <1>2 DEF ConsoleValue, Cell
<1> HIDE DEF fresh
<1>4. TtyTypeOK'
  BY <1>0, <1>2, <1>3 DEF TtyTypeOK
<1>5. PrintingOK' /\ PendingOK' /\ QuietOK'
  BY <1>0, <1>1 DEF PrintingOK, PendingOK, QuietOK, Idle
<1>6. BannerOK'
  <2>1. moved' = shown /\ shown \in 0..Len(Banner)
    BY <1>0, <1>1 DEF moved, Idle, TtyTypeOK
  <2>2. feeds(shown) \in Nat /\ chars(shown) \in Nat
    BY <2>1, Counts
  <2> QED
    BY <1>0, <1>3, <2>1, <2>2 DEF BannerOK, feeds, chars
<1>7. ScreenShowsActive'
  BY <1>0 DEF ScreenShowsActive
<1> QED
  BY <1>4, <1>5, <1>6, <1>7 DEF ScreenInv

\* A step of kernel_main other than those on the consoles.
LEMMA BootKeepsScreen ==
    ASSUME ScreenInv, NEW step, boot(step), step = "banner" => printing = Idle
    PROVE  ScreenInv'
<1>0. /\ TtyTypeOK /\ PrintingOK /\ QuietOK /\ at(step)
      /\ ip \in 1..14 /\ ip' = ip + 1 /\ UNCHANGED <<ttyVars, shown, busy>>
  BY BootOrder DEF ScreenInv, boot, stdinVars
<1>1. printing = Idle
  <2>1. CASE ip = 13
    BY <1>0, <2>1 DEF at, boot_order
  <2>2. CASE ip # 13
    BY <1>0, <2>2 DEF PrintingOK
  <2> QED
    BY <2>1, <2>2
<1>2. QuietOK'
  BY <1>0 DEF QuietOK
<1> QED
  BY <1>0, <1>1, <1>2, ScreenRests

LEMMA ScreenStep ==
    ASSUME ScreenInv, StdinInv, [Next]_vars
    PROVE  ScreenInv'
<1>0. TtyTypeOK /\ PrintingOK /\ QuietOK /\ ScreenShowsActive /\ ip \in Nat
  BY DEF ScreenInv, TtyTypeOK
<1>1. CASE UNCHANGED vars \/ timer_irq
  <2>1. UNCHANGED <<ttyVars, ip, shown, busy>>
    BY <1>1 DEF vars, timer_irq, stdinVars, bootVars
  <2>2. QuietOK'
    BY <1>0, <2>1 DEF QuietOK
  <2> QED
    BY <1>0, <2>1, <2>2, ScreenRests
<1>2. CASE kernel_main
  <2>1. CASE halt
    <3>1. UNCHANGED <<ttyVars, shown, busy>> /\ ip = 1 /\ ip' = 0
      BY <2>1, BootOrder DEF halt, stdinVars
    <3>2. QuietOK' /\ printing = Idle
      BY <1>0, <3>1 DEF QuietOK, PrintingOK
    <3> QED
      BY <3>1, <3>2, ScreenRests
  <2>2. CASE init_consoles
    BY <2>2, InitConsolesKeepsScreen
  <2>3. CASE print_banner
    BY <2>3, BindKeepsScreen
  <2>4. CASE continue_print
    BY <2>4, ContinueKeepsScreen
  <2>5. CASE end_banner
    BY <2>5, BootKeepsScreen DEF end_banner
  <2>6. CASE find_tables \/ route \/ install_gates \/ enable \/ timer_init \/ timer_unmask
             \/ timer_callback \/ start_scheduler \/ set_hook \/ keyboard_init
             \/ keyboard_unmask \/ spawn_shell
    <3>1. \E step : boot(step) /\ step # "banner"
      BY <2>6 DEF find_tables, route, install_gates, enable, timer_init, timer_unmask,
                  timer_callback, start_scheduler, set_hook, keyboard_init,
                  keyboard_unmask, spawn_shell
    <3> QED
      BY <3>1, BootKeepsScreen
  <2> QED
    BY <1>2, <2>1, <2>2, <2>3, <2>4, <2>5, <2>6 DEF kernel_main
<1>3. ASSUME NEW key \in Key, NEW released \in BOOLEAN, keyboard_irq(key, released)
      PROVE  ScreenInv'
  <2>0. UNCHANGED <<ip, shown, busy>> /\ QuietOK'
    BY <1>0, <1>3 DEF keyboard_irq, bootVars, keyboard_handler, stdinVars, QuietOK
  <2>1. CASE UNCHANGED ttyVars
    BY <1>0, <2>0, <2>1, ScreenRests
  <2>2. CASE key.do = "switch" /\ switch_to(key.n)
    <3>1. key.n \in Consoles
      BY <2>2 DEF Key
    <3> QED
      BY <2>0, <2>2, <3>1, SwitchKeepsScreen
  <2> QED
    BY <1>3, <2>1, <2>2 DEF keyboard_irq, keyboard_handler, switch_console
<1>4. ASSUME NEW r \in Reader, program(r)
      PROVE  ScreenInv'
  <2>1. UNCHANGED <<ttyVars, ip, shown>> /\ ip > 14
    BY <1>0, <1>4, ShellIsLast DEF program, running, sys_read, resume, bootVars
  <2>2. QuietOK'
    BY <2>1 DEF QuietOK
  <2> QED
    BY <1>0, <2>1, <2>2, ScreenRests
<1>5. CASE reading
  <2>0. UNCHANGED <<ip, shown>> /\ busy # None /\ ip > 14 /\ printing = Idle
    <3>1. UNCHANGED <<ip, shown>> /\ busy # None
      BY <1>5 DEF reading, next_key, block, deliver, bootVars
    <3> QED
      BY <1>0, <3>1 DEF QuietOK, PrintingOK
  <2>1. QuietOK'
    BY <2>0 DEF QuietOK
  <2>2. CASE UNCHANGED ttyVars
    BY <1>0, <2>0, <2>1, <2>2, ScreenRests
  <2>3. CASE next_key /\ print(buffer[tail])
    <3>1. buffer[tail] \in Cell
      <4>1. buffer[tail] \in Input
        BY <2>3, TakeKeepsQueue DEF next_key, StdinInv
      <4> QED
        BY <4>1 DEF Input, Cell
    <3>2. TtyTypeOK' /\ ScreenShowsActive' /\ printing' = Idle
      BY <1>0, <2>0, <2>3, <3>1, PrintKeepsScreen
    <3> QED
      BY <1>0, <2>0, <2>1, <3>2 DEF ScreenInv, PrintingOK, BannerOK, PendingOK, Idle
  <2> QED
    BY <1>5, <2>2, <2>3 DEF reading, next_key, block, deliver, echo
<1>6. ASSUME NEW c \in Output, sys_write(c)
      PROVE  ScreenInv'
  <2>0. UNCHANGED <<ip, shown, busy>> /\ ip > 14 /\ printing = Idle /\ print(c) /\ c \in Cell
    <3>1. ip > 14
      BY <1>0, <1>6, ShellIsLast DEF sys_write, running
    <3> QED
      BY <1>0, <1>6, <3>1 DEF sys_write, bootVars, stdinVars, PrintingOK, Cell
  <2>1. TtyTypeOK' /\ ScreenShowsActive' /\ printing' = Idle
    BY <1>0, <2>0, PrintKeepsScreen
  <2> QED
    BY <1>0, <2>0, <2>1 DEF ScreenInv, PrintingOK, BannerOK, PendingOK, QuietOK, Idle
<1> QED
  BY <1>1, <1>2, <1>3, <1>4, <1>5, <1>6 DEF Next

\* ScreenShowsActive (tty/tty.cpp): for every size of the screen, number of
\* consoles, banner that fits on one and text that programs print, the screen
\* shows the active console, but for the cell a switch has torn or that is
\* between its two stores.
THEOREM ScreenSafety == Spec => []ScreenShowsActive
<1> DEFINE Inv == StdinInv /\ ScreenInv
<1>1. Init => Inv
  BY StdinInitially, ScreenInitially DEF Init
<1>2. Inv /\ [Next]_vars => Inv'
  BY StdinStep, ScreenStep
<1>3. Inv => ScreenShowsActive
  BY DEF ScreenInv
<1> QED
  BY <1>1, <1>2, <1>3, PTL DEF Spec

----------------------------------------------------------------------------
(* Interrupts reach their handlers *)

Devices == {Timer, Keyboard}

\* The step of kernel_main that unmasks a device's line.
unmasked_at(irq) == IF irq = Timer THEN 6 ELSE 12

\* The entry of a device's pin is its own, and masked until its driver is ready.
EntryOK(irq) ==
    on_ioapic(machine.wire[irq]) =>
        entry(irq).irq = irq /\ (entry(irq).masked <=> ip <= unmasked_at(irq))

\* How far kernel_main has come says what is set up.
RoutingInv ==
    /\ ip \in 0..15 /\ machine \in Machine
    /\ ip > 1 => /\ acpi_finds(machine)
                 /\ ioapic = Head(ioapics(root(machine).madt))
                 /\ irq_to_gsi_ = overrides(root(machine).madt)
    /\ ip > 2 => /\ redtbl \in [0..ioapic.max_entry ->
                                  [irq : Irq \cup {NULL}, masked : BOOLEAN]]
                 /\ \A irq \in Devices : EntryOK(irq)
    /\ ip <= 4 => sti = FALSE
    /\ ip > 4 => sti = TRUE
    /\ ip > 3 => gates = Irq
    /\ DOMAIN handlers = Irq
    /\ ip > 5 => handlers[Timer] = timer
    /\ ip > 11 => handlers[Keyboard] = "keyboard"
    /\ ip > 10 => initialized

\* Where the names of the steps are in kernel_main's order.
LEMMA WentIs ==
    ASSUME NEW k \in 1..14
    PROVE  went(boot_order[k]) <=> ip > k
<1> DEFINE I == {i \in 1..Len(boot_order) : boot_order[i] = boot_order[k]}
<1>1. Len(boot_order) = 14
  BY DEF boot_order
<1>2. \A i, j \in 1..14 : boot_order[i] = boot_order[j] => i = j
  BY DEF boot_order
<1>3. I = {k}
  BY <1>1, <1>2
<1>4. Min(I) = k
  <2>1. I \subseteq Nat /\ I # {}
    BY <1>3
  <2>2. Min(I) \in I
    BY <2>1, MinIsLeast
  <2> QED
    BY <1>3, <2>2
<1>5. SelectInSeq(boot_order, LAMBDA s : s = boot_order[k]) = IF I # {} THEN Min(I) ELSE 0
  BY DEF SelectInSeq
<1> HIDE DEF I
<1> QED
  BY <1>3, <1>4, <1>5 DEF went

LEMMA BootSteps ==
    /\ at("acpi") => ip = 1
    /\ at("ioapic") => ip = 2
    /\ at("gates") => ip = 3
    /\ at("sti") => ip = 4
    /\ at("timer_handler") => ip = 5
    /\ at("timer_unmask") => ip = 6
    /\ at("tick") => ip = 7
    /\ at("sched") => ip = 8
    /\ at("hook") => ip = 9
    /\ at("tty") => ip = 10
    /\ at("keyboard_handler") => ip = 11
    /\ at("keyboard_unmask") => ip = 12
    /\ at("banner") => ip = 13
    /\ at("shell") => ip = 14
<1>1. DOMAIN boot_order = 1..14
  BY DEF boot_order
<1> QED
  BY <1>1 DEF at, boot_order

\* What the tables say, as the kernel has read them.
LEMMA Wiring ==
    ASSUME RoutingInv, ip > 1
    PROVE  /\ ioapic.gsi_base \in Nat /\ ioapic.max_entry \in Nat
           /\ irq_to_gsi_ \in [Irq -> Nat]
           /\ Devices \subseteq Irq
           /\ \A irq \in Devices :
                /\ irq_to_gsi_[irq] = machine.wire[irq] /\ machine.wire[irq] \in Nat
                /\ \A other \in Irq \ {irq, 2} : irq_to_gsi_[other] # irq_to_gsi_[irq]
<1>1. acpi_finds(machine) /\ machine \in Machine
  BY DEF RoutingInv
<1>2. tells_the_truth(machine)
  BY <1>1, FirmwareAssumption
<1>3. Devices \subseteq Irq
  BY InterruptsAssumption DEF Devices, Irq, Timer, Keyboard
<1>4. /\ ioapic = Head(ioapics(root(machine).madt))
      /\ irq_to_gsi_ = overrides(root(machine).madt)
  BY DEF RoutingInv
<1> QED
  BY <1>2, <1>3, <1>4 DEF tells_the_truth, Devices

\* init_ioapic(): whatever lines share a pin, a device's pin is its own.
LEMMA RouteIs ==
    ASSUME RoutingInv, route
    PROVE  RoutingInv'
<1>0. /\ ip = 2 /\ ip' = 3 /\ init_ioapic /\ UNCHANGED ttyVars
  BY BootSteps DEF route, boot
<1>1. UNCHANGED <<machine, irq_to_gsi_, ioapic, hpet_present, gates, sti, handlers, initialized>>
  BY <1>0 DEF init_ioapic, tables, ttyVars
<1>2. /\ ioapic.gsi_base \in Nat /\ ioapic.max_entry \in Nat
      /\ irq_to_gsi_ \in [Irq -> Nat] /\ Devices \subseteq Irq
      /\ \A irq \in Devices :
           /\ irq_to_gsi_[irq] = machine.wire[irq] /\ machine.wire[irq] \in Nat
           /\ \A other \in Irq \ {irq, 2} : irq_to_gsi_[other] # irq_to_gsi_[irq]
  BY <1>0, Wiring
<1>3. \A pin : lines_on(pin) \subseteq Irq
  BY DEF lines_on, programmed
<1>4. ASSUME NEW S \in SUBSET Irq, S # {} PROVE Max(S) \in S
  <2>1. NUM_IRQ - 1 \in Nat /\ S \subseteq 0..(NUM_IRQ - 1)
    BY InterruptsAssumption DEF Irq
  <2> QED
    BY <1>4, <2>1, MaxIsGreatest
<1>5. redtbl' \in [0..ioapic.max_entry -> [irq : Irq \cup {NULL}, masked : BOOLEAN]]
  BY <1>0, <1>3, <1>4 DEF init_ioapic
<1>6. ASSUME NEW irq \in Devices, on_ioapic(machine.wire[irq])
      PROVE  entry(irq)'.irq = irq /\ entry(irq)'.masked
  <2> DEFINE pin == machine.wire[irq] - ioapic.gsi_base
  <2>1. pin \in 0..ioapic.max_entry
    BY <1>6 DEF on_ioapic
  <2>2. lines_on(pin) = {irq}
    <3>1. irq \in programmed /\ on_ioapic(irq_to_gsi_[irq]) /\ redir_reg_for_irq(irq) = pin
      BY <1>2, <1>6 DEF programmed, Devices, Timer, Keyboard, redir_reg_for_irq
    <3>2. ASSUME NEW other \in lines_on(pin) PROVE other = irq
      <4>1. /\ other \in Irq /\ other # 2
            /\ irq_to_gsi_[other] - ioapic.gsi_base = machine.wire[irq] - ioapic.gsi_base
        BY <3>2 DEF lines_on, programmed, redir_reg_for_irq
      <4>2. irq_to_gsi_[other] \in Nat
        BY <1>2, <4>1
      <4>3. irq_to_gsi_[other] = irq_to_gsi_[irq]
        BY <1>2, <4>1, <4>2
      <4> QED
        BY <1>2, <4>1, <4>3
    <3> QED
      BY <3>1, <3>2 DEF lines_on
  <2>3. Max({irq}) = irq
    <3>1. {irq} \in SUBSET Irq
      BY <1>2
    <3> QED
      BY <1>4, <3>1
  <2>4. redtbl'[pin] = [irq |-> irq, masked |-> TRUE]
    BY <1>0, <2>1, <2>2, <2>3 DEF init_ioapic
  <2>5. entry(irq)' = redtbl'[pin]
    BY <1>1 DEF entry
  <2> QED
    BY <2>4, <2>5
<1>7. \A irq \in Devices : EntryOK(irq)'
  BY <1>0, <1>1, <1>6 DEF EntryOK, on_ioapic, unmasked_at
<1> QED
  BY <1>0, <1>1, <1>5, <1>7 DEF RoutingInv

\* set_irq_mask() opens the device's own pin and no other's.
LEMMA UnmaskIs ==
    ASSUME RoutingInv, NEW dev \in Devices, unmask(dev), ip = unmasked_at(dev),
           ip' = ip + 1, UNCHANGED initialized
    PROVE  RoutingInv'
<1>0. ip > 2 /\ ip \in Nat /\ (ip = 6 \/ ip = 12)
  BY DEF unmasked_at
<1>1. UNCHANGED <<machine, irq_to_gsi_, ioapic, hpet_present, gates, sti, handlers>>
  BY DEF unmask, tables
<1>2. /\ ioapic.gsi_base \in Nat /\ ioapic.max_entry \in Nat
      /\ irq_to_gsi_ \in [Irq -> Nat] /\ Devices \subseteq Irq
      /\ \A irq \in Devices :
           /\ irq_to_gsi_[irq] = machine.wire[irq] /\ machine.wire[irq] \in Nat
           /\ \A other \in Irq \ {irq, 2} : irq_to_gsi_[other] # irq_to_gsi_[irq]
  BY <1>0, Wiring
<1>3. /\ redtbl \in [0..ioapic.max_entry -> [irq : Irq \cup {NULL}, masked : BOOLEAN]]
      /\ \A irq \in Devices : EntryOK(irq)
  BY <1>0 DEF RoutingInv
<1> DEFINE pin == machine.wire[dev] - ioapic.gsi_base
<1>4. redtbl' = IF pin \in 0..ioapic.max_entry
                THEN [redtbl EXCEPT ![pin].masked = FALSE] ELSE redtbl
  BY <1>2 DEF unmask, on_ioapic, redir_reg_for_irq
<1>5. redtbl' \in [0..ioapic.max_entry -> [irq : Irq \cup {NULL}, masked : BOOLEAN]]
  BY <1>3, <1>4
<1>6. ASSUME NEW irq \in Devices, on_ioapic(machine.wire[irq])
      PROVE  entry(irq)'.irq = irq /\ (entry(irq)'.masked <=> ip + 1 <= unmasked_at(irq))
  <2> DEFINE p == machine.wire[irq] - ioapic.gsi_base
  <2>1. p \in 0..ioapic.max_entry /\ entry(irq)' = redtbl'[p] /\ entry(irq) = redtbl[p]
    BY <1>1, <1>6 DEF on_ioapic, entry
  <2>2. /\ redtbl[p].irq = irq /\ (redtbl[p].masked <=> ip <= unmasked_at(irq))
        /\ redtbl[p].masked \in BOOLEAN
    BY <1>3, <1>6, <2>1 DEF EntryOK
  <2>3. CASE irq = dev
    <3>1. redtbl'[p] = [redtbl[p] EXCEPT !.masked = FALSE]
      BY <1>3, <1>4, <2>1, <2>3
    <3>2. ~redtbl'[p].masked /\ redtbl'[p].irq = irq
      BY <1>3, <2>1, <2>2, <3>1
    <3> QED
      BY <1>0, <2>1, <2>3, <3>2
  <2>4. CASE irq # dev
    <3>1. machine.wire[irq] # machine.wire[dev]
      BY <1>2, <2>4 DEF Devices, Timer, Keyboard
    <3>2. p # pin
      BY <1>2, <3>1
    <3>3. redtbl'[p] = redtbl[p]
      BY <1>3, <1>4, <2>1, <3>2
    <3>4. ip <= unmasked_at(irq) <=> ip + 1 <= unmasked_at(irq)
      BY <2>4 DEF unmasked_at, Devices, Timer, Keyboard
    <3> QED
      BY <2>1, <2>2, <3>3, <3>4
  <2> QED
    BY <2>3, <2>4
<1>7. \A irq \in Devices : EntryOK(irq)'
  BY <1>1, <1>6 DEF EntryOK, on_ioapic
<1>8. timer' = timer
  BY <1>1 DEF timer
<1> QED
  BY <1>0, <1>1, <1>5, <1>7, <1>8 DEF RoutingInv

\* Steps that set up nothing of this.
LEMMA RoutingRests ==
    ASSUME RoutingInv,
           UNCHANGED <<tables, redtbl, gates, sti, handlers, initialized>>,
           ip' = ip \/ (ip \in {7, 8, 9, 13, 14} /\ ip' = ip + 1)
    PROVE  RoutingInv'
<1>1. UNCHANGED <<machine, irq_to_gsi_, ioapic, hpet_present>>
  BY DEF tables
<1>2. timer' = timer
  BY <1>1 DEF timer
<1>3. ASSUME NEW irq \in Devices, EntryOK(irq) PROVE EntryOK(irq)'
  <2>1. ip <= unmasked_at(irq) <=> ip' <= unmasked_at(irq)
    BY DEF unmasked_at, RoutingInv
  <2> QED
    BY <1>1, <1>3, <2>1 DEF EntryOK, entry, on_ioapic
<1> QED
  BY <1>1, <1>2, <1>3 DEF RoutingInv

LEMMA RoutingStep ==
    ASSUME RoutingInv, [Next]_vars
    PROVE  RoutingInv'
<1>1. CASE find_tables
  <2>1. ip = 1 /\ ip' = 2 /\ acpi_finds(machine) /\ acpi_init
    BY <1>1, BootSteps DEF find_tables, boot
  <2> QED
    BY <2>1 DEF acpi_init, RoutingInv
<1>2. CASE halt
  <2>1. ip = 1 /\ ip' = 0
    BY <1>2, BootSteps DEF halt
  <2> QED
    BY <1>2, <2>1 DEF halt, irqVars, tables, RoutingInv
<1>3. CASE route
  BY <1>3, RouteIs
<1>4. CASE install_gates \/ enable \/ timer_init \/ init_consoles \/ keyboard_init
  <2>1. /\ UNCHANGED <<machine, irq_to_gsi_, ioapic, hpet_present, redtbl>>
        /\ ip' = ip + 1 /\ ip \in {3, 4, 5, 10, 11}
    BY <1>4, BootSteps DEF install_gates, enable, timer_init, init_consoles, keyboard_init,
       boot, irq_init, enable_interrupts, register_handler, irqVars, tables
  <2>2. timer' = timer
    BY <2>1 DEF timer
  <2>3. ASSUME NEW irq \in Devices, EntryOK(irq) PROVE EntryOK(irq)'
    <3>1. ip <= unmasked_at(irq) <=> ip' <= unmasked_at(irq)
      BY <2>1 DEF unmasked_at
    <3> QED
      BY <2>1, <2>3, <3>1 DEF EntryOK, entry, on_ioapic
  <2>4. /\ ip' <= 4 => sti' = FALSE
        /\ ip' > 4 => sti' = TRUE
        /\ ip' > 3 => gates' = Irq
    BY <1>4, <2>1, BootSteps DEF install_gates, enable, timer_init, init_consoles,
       keyboard_init, boot, irq_init, enable_interrupts, register_handler, irqVars,
       RoutingInv
  <2>5. /\ DOMAIN handlers' = Irq
        /\ ip' > 5 => handlers'[Timer] = timer
        /\ ip' > 11 => handlers'[Keyboard] = "keyboard"
    BY <1>4, <2>1, BootSteps, InterruptsAssumption DEF install_gates, enable, timer_init, init_consoles,
       keyboard_init, boot, irq_init, enable_interrupts, register_handler, irqVars,
       RoutingInv, Irq, Timer, Keyboard
  <2>6. ip' > 10 => initialized'
    BY <1>4, <2>1, BootSteps DEF install_gates, enable, timer_init, init_consoles,
       keyboard_init, boot, tty_init, ttyVars, RoutingInv
  <2> QED
    BY <2>1, <2>2, <2>3, <2>4, <2>5, <2>6 DEF RoutingInv
<1>5. CASE timer_unmask
  <2>1. ip = 6 /\ ip' = ip + 1 /\ unmask(Timer) /\ UNCHANGED initialized
    BY <1>5, BootSteps DEF timer_unmask, boot, ttyVars
  <2> QED
    BY <2>1, UnmaskIs DEF unmasked_at, Devices
<1>6. CASE keyboard_unmask
  <2>1. ip = 12 /\ ip' = ip + 1 /\ unmask(Keyboard) /\ UNCHANGED initialized
    BY <1>6, BootSteps DEF keyboard_unmask, boot, ttyVars
  <2> QED
    BY <2>1, UnmaskIs DEF unmasked_at, Devices, Timer, Keyboard
<1>7. CASE timer_callback \/ start_scheduler \/ set_hook \/ end_banner \/ spawn_shell
  <2>1. /\ UNCHANGED <<tables, redtbl, gates, sti, handlers, initialized>>
        /\ ip \in {7, 8, 9, 13, 14} /\ ip' = ip + 1
    BY <1>7, BootSteps DEF timer_callback, start_scheduler, set_hook, end_banner,
       spawn_shell, boot, set_tick_callback, sched_init, set_post_eoi_hook, irqVars, ttyVars
  <2> QED
    BY <2>1, RoutingRests
<1>8. CASE print_banner \/ continue_print \/ timer_irq \/ reading \/ UNCHANGED vars
  <2>1. UNCHANGED <<ip, tables, redtbl, gates, sti, handlers>>
    BY <1>8 DEF print_banner, continue_print, timer_irq, irq_common_handler, reading,
       vars, irqVars, bootVars
  <2>2. UNCHANGED initialized
    BY <1>8 DEF print_banner, continue_print, timer_irq, reading, vars, ttyVars, bind,
       store_buffer, store_vga, move, update_cursor, next_key, block, deliver, echo,
       print, print_backspace, print_newline, print_char
  <2> QED
    BY <2>1, <2>2, RoutingRests
<1>9. ASSUME NEW key \in Key, NEW released \in BOOLEAN, keyboard_irq(key, released)
      PROVE  RoutingInv'
  <2>1. UNCHANGED <<ip, tables, redtbl, gates, sti, handlers, initialized>>
    BY <1>9 DEF keyboard_irq, irq_common_handler, bootVars, keyboard_handler,
       switch_console, switch_to, ttyVars
  <2> QED
    BY <2>1, RoutingRests
<1>10. ASSUME NEW r \in Reader, program(r) PROVE RoutingInv'
  <2>1. UNCHANGED <<ip, tables, redtbl, gates, sti, handlers, initialized>>
    BY <1>10 DEF program, sys_read, resume, irqVars, bootVars, ttyVars
  <2> QED
    BY <2>1, RoutingRests
<1>11. ASSUME NEW c \in Output, sys_write(c) PROVE RoutingInv'
  <2>1. UNCHANGED <<ip, tables, redtbl, gates, sti, handlers, initialized>>
    BY <1>11 DEF sys_write, irqVars, bootVars, print, print_backspace, print_newline,
       print_char
  <2> QED
    BY <2>1, RoutingRests
<1> QED
  BY <1>1, <1>2, <1>3, <1>4, <1>5, <1>6, <1>7, <1>8, <1>9, <1>10, <1>11
     DEF Next, kernel_main

\* InterruptsReachTheirHandler (boot/acpi.cpp, cpu/apic.cpp, cpu/irq.cpp, main.cpp):
\* on every machine whose tables tell the truth, with any number of lines and
\* overrides, at every moment of the boot and after it.
THEOREM InterruptSafety == Spec => []InterruptsReachTheirHandler
<1>1. Init => RoutingInv
  BY DEF Init, InterruptsInit, RoutingInv, TtyInit
<1>2. RoutingInv /\ [Next]_vars => RoutingInv'
  BY RoutingStep
<1>3. RoutingInv => InterruptsReachTheirHandler
  <2> SUFFICES ASSUME RoutingInv, NEW irq \in Devices
               PROVE  /\ sti /\ ioapic # NULL /\ raised(irq) =>
                           /\ entry(irq).irq \in gates
                           /\ handlers[entry(irq).irq] = driver(irq)
                           /\ irq = Keyboard => initialized
                      /\ started(irq) /\ on_ioapic(machine.wire[irq]) => raised(irq)
    BY DEF InterruptsReachTheirHandler, Devices
  <2>1. /\ boot_order[6] = "timer_unmask" /\ boot_order[12] = "keyboard_unmask"
        /\ 6 \in 1..14 /\ 12 \in 1..14
    BY DEF boot_order
  <2>2. went("timer_unmask") <=> ip > 6
    BY <2>1, WentIs
  <2>3. went("keyboard_unmask") <=> ip > 12
    BY <2>1, WentIs
  <2>4. started(irq) <=> ip > unmasked_at(irq)
    BY <2>2, <2>3 DEF started, unmasked_at
  <2>5. ASSUME sti, raised(irq)
        PROVE  /\ entry(irq).irq \in gates
               /\ handlers[entry(irq).irq] = driver(irq)
               /\ irq = Keyboard => initialized
    <3>1. ip > 4 /\ EntryOK(irq) /\ on_ioapic(machine.wire[irq]) /\ ~entry(irq).masked
      BY <2>5 DEF RoutingInv, raised
    <3>2. entry(irq).irq = irq /\ ip > unmasked_at(irq)
      BY <3>1 DEF EntryOK, RoutingInv, unmasked_at
    <3>3. irq \in Irq
      BY InterruptsAssumption DEF Devices, Irq, Timer, Keyboard
    <3> QED
      BY <3>1, <3>2, <3>3 DEF RoutingInv, unmasked_at, driver, Devices, Timer, Keyboard
  <2>6. ASSUME ip > unmasked_at(irq), on_ioapic(machine.wire[irq])
        PROVE  raised(irq)
    <3>1. ip > 4 /\ ip \in Nat /\ EntryOK(irq)
      BY <2>6 DEF RoutingInv, unmasked_at
    <3> QED
      BY <2>6, <3>1 DEF raised, EntryOK, RoutingInv, unmasked_at
  <2> QED
    BY <2>4, <2>5, <2>6
<1> QED
  BY <1>1, <1>2, <1>3, PTL DEF Spec

----------------------------------------------------------------------------
(* The lines handed out *)

Begin == [done |-> << >>, ln |-> << >>]

\* The editor whose full lines end without '\n', as sys_read_stdin()'s do.
typed(s, c) == Typed(s, c, << >>)
edited(keys) == Edited(keys, << >>)

\* f follows the editor over the first k keys.
Follows(f, keys, k) ==
    f = [n \in 0..k |-> IF n = 0 THEN Begin ELSE typed(f[n - 1], keys[n])]

IsFun(f, k) == f = [n \in 0..k |-> f[n]]

LEMMA FollowsIs ==
    ASSUME NEW f, NEW keys, NEW k \in Nat
    PROVE  Follows(f, keys, k) <=>
             /\ IsFun(f, k) /\ f[0] = Begin
             /\ \A n \in 1..k : f[n] = typed(f[n - 1], keys[n])
<1> DEFINE v(n) == IF n = 0 THEN Begin ELSE typed(f[n - 1], keys[n])
           g == [n \in 0..k |-> v(n)]
<1>1. ASSUME f = g
      PROVE  /\ IsFun(f, k) /\ f[0] = Begin
             /\ \A n \in 1..k : f[n] = typed(f[n - 1], keys[n])
  <2>1. \A n \in 0..k : g[n] = v(n)
    <3> HIDE DEF v
    <3> QED
      OBVIOUS
  <2>2. IsFun(g, k)
    <3> HIDE DEF v
    <3> QED
      BY DEF IsFun
  <2> HIDE DEF g
  <2>3. IsFun(f, k) /\ \A n \in 0..k : f[n] = v(n)
    BY <1>1, <2>1, <2>2
  <2>4. f[0] = Begin
    BY <2>3
  <2>5. ASSUME NEW n \in 1..k PROVE f[n] = typed(f[n - 1], keys[n])
    <3>1. n \in 0..k /\ n # 0
      OBVIOUS
    <3> QED
      BY <2>3, <3>1
  <2> QED
    BY <2>3, <2>4, <2>5
<1>2. ASSUME IsFun(f, k), f[0] = Begin,
             \A n \in 1..k : f[n] = typed(f[n - 1], keys[n])
      PROVE  f = g
  <2>1. ASSUME NEW n \in 0..k PROVE f[n] = v(n)
    <3>1. CASE n = 0
      BY <1>2, <3>1
    <3>2. CASE n # 0
      <4>1. n \in 1..k
        BY <3>2
      <4> QED
        BY <1>2, <3>2, <4>1
    <3> QED
      BY <3>1, <3>2
  <2> HIDE DEF v
  <2>2. [n \in 0..k |-> f[n]] = g
    BY <2>1
  <2> QED
    BY <1>2, <2>2 DEF IsFun
<1> QED
  BY <1>1, <1>2 DEF Follows

\* There is such an f.
LEMMA FollowsExists ==
    ASSUME NEW keys, NEW k \in Nat
    PROVE  \E f : Follows(f, keys, k)
<1> DEFINE Bad == {n \in Nat : ~\E f : Follows(f, keys, n)}
<1> SUFFICES ASSUME Bad # {} PROVE FALSE
  OBVIOUS
<1>1. PICK n \in Bad : \A m \in Bad : n <= m
  BY LeastNatural
<1>2. n # 0
  <2> DEFINE f == [i \in 0..0 |-> Begin]
  <2>1. IsFun(f, 0) /\ f[0] = Begin
    BY DEF IsFun
  <2> HIDE DEF f
  <2>2. Follows(f, keys, 0)
    BY <2>1, FollowsIs
  <2> QED
    BY <2>2
<1>3. n - 1 \in Nat /\ n - 1 \notin Bad /\ n \in Nat
  BY <1>1, <1>2
<1>4. PICK f : Follows(f, keys, n - 1)
  BY <1>3
<1>5. f[0] = Begin /\ \A i \in 1..(n - 1) : f[i] = typed(f[i - 1], keys[i])
  BY <1>3, <1>4, FollowsIs
<1> DEFINE g == [i \in 0..n |-> IF i = n THEN typed(f[n - 1], keys[n]) ELSE f[i]]
<1>6. /\ IsFun(g, n)
      /\ \A i \in 0..n : g[i] = IF i = n THEN typed(f[n - 1], keys[n]) ELSE f[i]
  BY DEF IsFun
<1> HIDE DEF g
<1>7. g[0] = Begin
  BY <1>2, <1>3, <1>5, <1>6
<1>8. ASSUME NEW i \in 1..n PROVE g[i] = typed(g[i - 1], keys[i])
  <2>1. g[i - 1] = f[i - 1]
    BY <1>3, <1>6
  <2>2. CASE i = n
    BY <1>3, <1>6, <2>1, <2>2
  <2>3. CASE i # n
    BY <1>3, <1>5, <1>6, <2>1, <2>3
  <2> QED
    BY <2>2, <2>3
<1>9. Follows(g, keys, n)
  BY <1>3, <1>6, <1>7, <1>8, FollowsIs
<1> QED
  BY <1>1, <1>9

\* It is determined, as far as the keys agree.
Agree(keys, more, k) == \A n \in 1..k : keys[n] = more[n]
Meet(f, g, k) == f[k] = g[k]

LEMMA FollowsOnce ==
    ASSUME NEW keys, NEW more, NEW k \in Nat, NEW l \in Nat, k <= l,
           Agree(keys, more, k),
           NEW f, NEW g, Follows(f, keys, k), Follows(g, more, l)
    PROVE  Meet(f, g, k)
<1>0. \A n \in 1..k : keys[n] = more[n]
  BY DEF Agree
<1> DEFINE Bad == {n \in 0..k : f[n] # g[n]}
<1> SUFFICES ASSUME Bad # {} PROVE FALSE
  BY DEF Meet
<1>1. Bad \subseteq Nat
  OBVIOUS
<1>2. PICK n \in Bad : \A m \in Bad : n <= m
  BY <1>1, LeastNatural
<1>3. /\ f[0] = Begin /\ g[0] = Begin
      /\ \A i \in 1..k : f[i] = typed(f[i - 1], keys[i])
      /\ \A i \in 1..l : g[i] = typed(g[i - 1], more[i])
  BY FollowsIs
<1>4. n # 0 /\ n \in 1..k /\ n \in 1..l /\ n - 1 \in 0..k
  BY <1>2, <1>3
<1>5. f[n - 1] = g[n - 1]
  <2>1. n - 1 \notin Bad
    BY <1>2, <1>4
  <2> QED
    BY <1>4, <2>1
<1>6. f[n] = g[n]
  BY <1>0, <1>3, <1>4, <1>5
<1> QED
  BY <1>2, <1>6

\* The editor over one more key.
LEMMA EditedIs ==
    /\ edited(<< >>) = Begin
    /\ \A keys \in Seq(Input), c \in Input :
          edited(Append(keys, c)) = typed(edited(keys), c)
<1> DEFINE of(keys) == CHOOSE f : Follows(f, keys, Len(keys))
<1>1. ASSUME NEW keys \in Seq(Input)
      PROVE  edited(keys) = of(keys)[Len(keys)] /\ Follows(of(keys), keys, Len(keys))
  <2>1. edited(keys) = of(keys)[Len(keys)]
    BY DEF edited, typed, Edited, Follows, Begin
  <2>2. Len(keys) \in Nat
    OBVIOUS
  <2>3. \E f : Follows(f, keys, Len(keys))
    BY <2>2, FollowsExists
  <2>4. Follows(of(keys), keys, Len(keys))
    BY <2>3
  <2> QED
    BY <2>1, <2>4
<1> HIDE DEF of
<1>2. edited(<< >>) = Begin
  <2>1. << >> \in Seq(Input) /\ Len(<< >>) = 0
    BY EmptySeq
  <2>2. Follows(of(<< >>), << >>, 0) /\ edited(<< >>) = of(<< >>)[0]
    BY <1>1, <2>1
  <2> QED
    BY <2>2, FollowsIs
<1>3. ASSUME NEW keys \in Seq(Input), NEW c \in Input
      PROVE  edited(Append(keys, c)) = typed(edited(keys), c)
  <2> DEFINE more == Append(keys, c)
             k == Len(keys)
  <2>1. /\ more \in Seq(Input) /\ Len(more) = k + 1 /\ k \in Nat
        /\ \A n \in 1..k : keys[n] = more[n]
        /\ more[k + 1] = c
    BY AppendProperties
  <2>2. /\ edited(keys) = of(keys)[k] /\ Follows(of(keys), keys, k)
    BY <1>1
  <2>3. edited(more) = of(more)[k + 1] /\ Follows(of(more), more, k + 1)
    BY <1>1, <2>1
  <2> DEFINE F == of(keys)
             G == of(more)
             l == k + 1
  <2>6. k \in Nat /\ l \in Nat /\ k <= l /\ l \in 1..l /\ l - 1 = k
    BY <2>1
  <2>0. Follows(F, keys, k) /\ Follows(G, more, l)
    BY <2>2, <2>3
  <2> HIDE DEF more, k, F, G, l
  <2>4. F[k] = G[k]
    <3>1. Agree(keys, more, k)
      BY <2>1 DEF Agree
    <3>2. k \in Nat
      BY <2>6
    <3>3. l \in Nat
      BY <2>6
    <3>4. k <= l
      BY <2>6
    <3>5. Follows(F, keys, k)
      BY <2>0
    <3>6. Follows(G, more, l)
      BY <2>0
    <3>7. Meet(F, G, k)
      BY ONLY <3>1, <3>2, <3>3, <3>4, <3>5, <3>6, FollowsOnce
    <3> QED
      BY <3>7 DEF Meet
  <2>5. G[l] = typed(G[k], more[l])
    <3>1. G[l] = typed(G[l - 1], more[l])
      BY <2>0, <2>6, FollowsIs
    <3> QED
      BY <2>6, <3>1
  <2>7. edited(more) = typed(edited(keys), c)
    BY <2>1, <2>2, <2>3, <2>4, <2>5 DEF F, G, l
  <2> QED
    BY <2>7 DEF more
<1> QED
  BY <1>2, <1>3

\* What the readers have got, and what of the line they have not.
rest == SubSeq(stdin_line, stdin_line_pos + 1, Len(stdin_line))
begun == edited(SubSeq(pushed, 1, eaten))

LinesInv ==
    /\ out \in Seq(Input) /\ eaten <= Len(pushed)
    /\ stdin_line_ready => out \o rest = begun.done /\ begun.ln = << >>
    /\ ~stdin_line_ready => out = begun.done /\ stdin_line = begun.ln

LEMMA NextKeyKeepsLines ==
    ASSUME StdinInv, LinesInv, next_key
    PROVE  LinesInv'
<1> DEFINE c == buffer[tail]
           s == begun
           keys == SubSeq(pushed, 1, eaten)
           ln == IF c = "BS" THEN SubSeq(stdin_line, 1, Len(stdin_line) - 1)
                 ELSE IF Len(stdin_line) < STDIN_LINE_CAP - 1 THEN Append(stdin_line, c)
                 ELSE stdin_line
<1>1. c \in Input /\ eaten + 1 <= Len(pushed) /\ pushed[eaten + 1] = c
  BY TakeKeepsQueue DEF StdinInv, next_key
<1>2. /\ eaten' = eaten + 1 /\ UNCHANGED <<pushed, out, stdin_line_pos>> /\ edit(c)
      /\ ~stdin_line_ready /\ stdin_line_pos = 0
  BY DEF next_key, StdinInv, LineInv, NoFalseEof
<1>3. /\ pushed \in Seq(Input) /\ eaten \in Nat /\ stdin_line \in Seq(Input)
      /\ out \in Seq(Input) /\ out = s.done /\ stdin_line = s.ln
  BY <1>2 DEF StdinInv, RingInv, LineInv, LinesInv
<1>4. SubSeq(pushed, 1, eaten + 1) = Append(keys, c) /\ keys \in Seq(Input)
  BY <1>1, <1>3, PrefixGrows
<1>5. begun' = edited(Append(keys, c))
  BY <1>2, <1>4 DEF begun
<1>6. edited(Append(keys, c)) = typed(s, c)
  BY <1>1, <1>4, EditedIs DEF begun
<1>7. stdin_line' = ln /\ stdin_line_ready' = (c = "NL")
  BY <1>2 DEF edit
<1>8. typed(s, c) = IF c = "NL" THEN [done |-> out \o ln, ln |-> << >>]
                    ELSE [done |-> out, ln |-> ln]
  BY <1>3, ConcatEmptySeq DEF typed, Typed
<1>9. ln \in Seq(Input)
  BY <1>1, <1>2, <1>3, <1>7, EditKeepsLine
<1> HIDE DEF ln, c, s, keys
<1>10. begun' = IF c = "NL" THEN [done |-> out \o ln, ln |-> << >>]
                ELSE [done |-> out, ln |-> ln]
  BY <1>5, <1>6, <1>8
<1>11. rest' = ln
  <2>1. rest' = SubSeq(ln, 0 + 1, Len(ln))
    BY <1>2, <1>7 DEF rest
  <2>2. 0 \in 0..Len(ln) /\ Len(ln) \in Nat
    BY <1>9
  <2>3. /\ SubSeq(ln, 0 + 1, Len(ln)) \in Seq(Input)
        /\ Len(SubSeq(ln, 0 + 1, Len(ln))) = Len(ln) - 0
        /\ \A i \in 1..(Len(ln) - 0) : SubSeq(ln, 0 + 1, Len(ln))[i] = ln[0 + i]
    BY <1>9, <2>2, Suffix
  <2>4. SubSeq(ln, 0 + 1, Len(ln)) = ln
    BY <1>9, <2>2, <2>3, SeqEqual
  <2> QED
    BY <2>1, <2>4
<1>12. CASE c = "NL"
  <2>1. begun'.done = out \o ln /\ begun'.ln = << >> /\ stdin_line_ready' = TRUE
    BY <1>7, <1>10, <1>12
  <2> QED
    BY <1>1, <1>2, <1>3, <1>11, <2>1 DEF LinesInv
<1>13. CASE c # "NL"
  <2>1. begun'.done = out /\ begun'.ln = ln /\ stdin_line_ready' = FALSE
    BY <1>7, <1>10, <1>13
  <2> QED
    BY <1>1, <1>2, <1>3, <1>7, <2>1 DEF LinesInv
<1> QED
  BY <1>12, <1>13

LEMMA DeliverKeepsLines ==
    ASSUME StdinInv, LinesInv, deliver
    PROVE  LinesInv'
<1> DEFINE n == Lesser(want[busy], avail)
           p == stdin_line_pos
           a == SubSeq(stdin_line, p + 1, p + n)
           b == SubSeq(stdin_line, p + n + 1, Len(stdin_line))
<1>1. /\ UNCHANGED <<pushed, eaten>> /\ busy # None /\ stdin_line_ready /\ drain(n)
      /\ out' = out \o a
  BY DEF deliver, ring
<1>2. /\ stdin_line \in Seq(Input) /\ p \in Nat /\ p < Len(stdin_line) /\ out \in Seq(Input)
      /\ out \o rest = begun.done /\ begun.ln = << >> /\ want[busy] \in Nat
  BY <1>1 DEF StdinInv, LineInv, NoFalseEof, LinesInv
<1>3. n \in Nat /\ p + n <= Len(stdin_line)
  <2>1. avail \in Nat /\ avail = Len(stdin_line) - p
    BY <1>2 DEF avail
  <2>2. n \in Nat /\ n <= avail
    BY <1>2, <2>1 DEF Lesser
  <2> QED
    BY <1>2, <2>1, <2>2
<1>4. begun' = begun
  BY <1>1 DEF begun
<1>5. p \in 0..Len(stdin_line) /\ p + n \in 0..Len(stdin_line) /\ p <= p + n
  BY <1>2, <1>3
<1>6. a \in Seq(Input) /\ a \o b = rest
  BY <1>2, <1>5, Pieces DEF rest
<1>7. b \in Seq(Input) /\ Len(b) = Len(stdin_line) - (p + n)
  BY <1>2, <1>5, Suffix
<1> HIDE DEF n, a, b
<1>8. out' \in Seq(Input) /\ out' \o b = begun.done
  <2>1. out' \in Seq(Input)
    BY <1>1, <1>2, <1>6, ConcatProperties
  <2>2. (out \o a) \o b = out \o (a \o b)
    <3>1. out \in Seq(Input) /\ a \in Seq(Input) /\ b \in Seq(Input)
      BY <1>2, <1>6, <1>7
    <3> QED
      BY <3>1, Regroup DEF Regrouped
  <2> QED
    BY <1>1, <1>2, <1>6, <2>1, <2>2
<1>9. CASE p + n >= Len(stdin_line)
  <2>1. stdin_line' = << >> /\ stdin_line_ready' = FALSE
    BY <1>1, <1>9 DEF drain
  <2> DEFINE w == Len(stdin_line)
  <2>0. w \in Nat
    BY <1>2
  <2>5. Len(b) = w - (p + n) /\ p + n <= w /\ p + n >= w /\ p + n \in Nat
    BY <1>2, <1>3, <1>7, <1>9
  <2> HIDE DEF w
  <2>2. Len(b) = 0
    BY <2>0, <2>5
  <2>3. b = << >>
    BY <1>7, <2>2, EmptySeq
  <2>4. out' \o << >> = out'
    BY <1>8, ConcatEmptySeq
  <2> QED
    BY <1>1, <1>2, <1>4, <1>8, <2>1, <2>3, <2>4 DEF LinesInv
<1>10. CASE ~(p + n >= Len(stdin_line))
  <2>1. stdin_line_pos' = p + n /\ UNCHANGED <<stdin_line, stdin_line_ready>>
    BY <1>1, <1>10 DEF drain
  <2>2. rest' = b
    BY <2>1 DEF rest, b
  <2> QED
    BY <1>1, <1>2, <1>4, <1>8, <2>1, <2>2 DEF LinesInv
<1> QED
  BY <1>9, <1>10

\* The interrupt handler adds keys behind those already eaten.
LEMMA HandlerKeepsLines ==
    ASSUME StdinInv, LinesInv, NEW key \in Key, NEW released, keyboard_handler(key, released)
    PROVE  LinesInv'
<1>1. UNCHANGED <<stdin_line, stdin_line_pos, stdin_line_ready, eaten, out>>
  BY DEF keyboard_handler, line
<1>2. pushed' = pushed \/ (key.c \in Input /\ pushed' = Append(pushed, key.c))
  BY DEF keyboard_handler, push_typed, push_char, Key
<1>3. pushed \in Seq(Input) /\ eaten \in Nat /\ eaten <= Len(pushed)
  BY DEF StdinInv, RingInv, LinesInv
<1>4. SubSeq(pushed', 1, eaten) = SubSeq(pushed, 1, eaten) /\ eaten <= Len(pushed')
  <2>1. CASE pushed' = pushed
    BY <1>3, <2>1
  <2>2. CASE key.c \in Input /\ pushed' = Append(pushed, key.c)
    <3> DEFINE q == Append(pushed, key.c)
    <3>1. /\ q \in Seq(Input) /\ Len(q) = Len(pushed) + 1
          /\ \A i \in 1..Len(pushed) : q[i] = pushed[i]
      BY <1>3, <2>2, AppendProperties
    <3>2. eaten \in 0..Len(pushed) /\ eaten \in 0..Len(q)
      BY <1>3, <3>1
    <3> HIDE DEF q
    <3>3. /\ SubSeq(pushed, 1, eaten) \in Seq(Input) /\ Len(SubSeq(pushed, 1, eaten)) = eaten
          /\ \A i \in 1..eaten : SubSeq(pushed, 1, eaten)[i] = pushed[i]
      BY <1>3, <3>2, Prefix
    <3>4. /\ SubSeq(q, 1, eaten) \in Seq(Input) /\ Len(SubSeq(q, 1, eaten)) = eaten
          /\ \A i \in 1..eaten : SubSeq(q, 1, eaten)[i] = q[i]
      BY <3>1, <3>2, Prefix
    <3>5. \A i \in 1..eaten : SubSeq(q, 1, eaten)[i] = SubSeq(pushed, 1, eaten)[i]
      BY <1>3, <3>1, <3>3, <3>4
    <3>6. SubSeq(q, 1, eaten) = SubSeq(pushed, 1, eaten)
      BY <3>3, <3>4, <3>5, SeqEqual
    <3> QED
      BY <1>3, <2>2, <3>1, <3>6 DEF q
  <2> QED
    BY <1>2, <2>1, <2>2
<1>5. begun' = begun /\ rest' = rest
  BY <1>1, <1>4 DEF begun, rest
<1> QED
  BY <1>1, <1>4, <1>5 DEF LinesInv

LEMMA LinesStep ==
    ASSUME StdinInv, LinesInv, [Next]_vars
    PROVE  LinesInv'
<1>1. ASSUME UNCHANGED <<stdin_line, stdin_line_pos, stdin_line_ready, eaten, out, pushed>>
      PROVE  LinesInv'
  <2>1. begun' = begun /\ rest' = rest
    BY <1>1 DEF begun, rest
  <2> QED
    BY <1>1, <2>1 DEF LinesInv
<1>2. CASE kernel_main \/ timer_irq \/ UNCHANGED vars \/ \E c \in Output : sys_write(c)
  BY <1>1, <1>2
     DEF kernel_main, find_tables, halt, route, install_gates, enable, timer_init,
         timer_unmask, timer_callback, start_scheduler, set_hook, init_consoles,
         keyboard_init, keyboard_unmask, print_banner, continue_print, end_banner,
         spawn_shell, boot, timer_irq, sys_write, vars, stdinVars, line
<1>3. ASSUME NEW key \in Key, NEW released \in BOOLEAN, keyboard_irq(key, released)
      PROVE  LinesInv'
  BY <1>1, <1>3, HandlerKeepsLines DEF keyboard_irq, stdinVars, line
<1>4. ASSUME NEW r \in Reader, program(r) PROVE LinesInv'
  BY <1>1, <1>4 DEF program, sys_read, resume, line
<1>5. CASE reading
  <2>1. CASE block
    BY <1>1, <2>1 DEF block, line
  <2> QED
    BY <1>5, <2>1, NextKeyKeepsLines, DeliverKeepsLines DEF reading
<1> QED
  BY <1>2, <1>3, <1>4, <1>5 DEF Next

\* ReadersGetTheLines (sys_read_stdin() and io/keyboard.cpp): for any number of
\* readers, buffer lengths, line capacity above 1 and ring size, the bytes handed
\* out are the lines that the keys edit to, and nothing else; only the newline
\* of a line of STDIN_LINE_CAP - 1 characters is left out.
THEOREM LineSafety == Spec => []ReadersGetTheLines
<1> DEFINE Inv == StdinInv /\ LinesInv
<1>1. Init => Inv
  <2> SUFFICES ASSUME Init PROVE LinesInv
    BY StdinInitially DEF Init
  <2>1. /\ stdin_line = << >> /\ ~stdin_line_ready /\ eaten = 0 /\ pushed = << >> /\ out = << >>
    BY DEF Init, StdinInit
  <2>2. begun = Begin
    <3>1. << >> \in Seq(Input) /\ 0 \in 0..Len(<< >>)
      BY EmptySeq
    <3>2. SubSeq(<< >>, 1, 0) \in Seq(Input) /\ Len(SubSeq(<< >>, 1, 0)) = 0
      BY <3>1, Prefix
    <3>3. SubSeq(<< >>, 1, 0) = << >>
      BY <3>2, EmptySeq
    <3> QED
      BY <2>1, <3>3, EditedIs DEF begun
  <2> QED
    BY <2>1, <2>2, EmptySeq DEF LinesInv, Begin
<1>2. Inv /\ [Next]_vars => Inv'
  BY StdinStep, LinesStep
<1>3. Inv => ReadersGetTheLines
  <2> SUFFICES ASSUME Inv PROVE out \o rest = begun.done \o begun.ln
    BY DEF ReadersGetTheLines, Typeset, rest, begun, edited
  <2>0. stdin_line \in Seq(Input) /\ out \in Seq(Input) /\ stdin_line_ready \in BOOLEAN
    BY DEF StdinInv, LineInv, LinesInv
  <2>1. CASE stdin_line_ready
    <3>1. out \o rest = begun.done /\ begun.ln = << >>
      BY <2>1 DEF LinesInv
    <3>2. out \o rest \in Seq(Input)
      <4>1. stdin_line_pos \in 0..Len(stdin_line)
        BY <2>1 DEF StdinInv, LineInv, NoFalseEof
      <4>2. rest \in Seq(Input)
        BY <2>0, <4>1, Suffix DEF rest
      <4> QED
        BY <2>0, <4>2, ConcatProperties
    <3>3. begun.done \o << >> = begun.done
      BY <3>1, <3>2, ConcatEmptySeq
    <3> QED
      BY <3>1, <3>3
  <2>2. CASE ~stdin_line_ready
    <3>1. out = begun.done /\ stdin_line = begun.ln /\ stdin_line_pos = 0
      BY <2>2 DEF LinesInv, StdinInv, LineInv, NoFalseEof
    <3>2. rest = stdin_line
      <4>1. 0 \in 0..Len(stdin_line)
        BY <2>0
      <4>2. /\ rest \in Seq(Input) /\ Len(rest) = Len(stdin_line) - 0
            /\ \A i \in 1..(Len(stdin_line) - 0) : rest[i] = stdin_line[0 + i]
        BY <2>0, <3>1, <4>1, Suffix DEF rest
      <4>3. Len(rest) = Len(stdin_line) /\ \A i \in 1..Len(rest) : rest[i] = stdin_line[i]
        BY <2>0, <4>2
      <4> QED
        BY <2>0, <4>2, <4>3, SeqEqual
    <3> QED
      BY <3>1, <3>2
  <2> QED
    BY <2>0, <2>1, <2>2
<1> QED
  BY <1>1, <1>2, <1>3, PTL DEF Spec

=============================================================================
