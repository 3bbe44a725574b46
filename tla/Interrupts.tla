----------------------------- MODULE Interrupts -----------------------------
(***************************************************************************)
(* Interrupt routing and dispatch: what acpi::init() makes of the firmware *)
(* tables (boot/acpi.cpp), the I/O APIC's redirection table                *)
(* (cpu/apic.cpp), the gates, handlers and the post-EOI hook               *)
(* (cpu/irq.cpp), the tick of the timer that was chosen (io/hpet.cpp,      *)
(* io/pit.cpp) and what sched::tick() does with it.                        *)
(* A component of Console, which has kernel_main's steps in their order.   *)
(*                                                                         *)
(* A machine is its firmware tables and its wiring:                        *)
(*   xsdt, rsdt  the tables each root table lists (NULL: no such root):    *)
(*               madt, a sequence of entries, or NULL; hpet, which is      *)
(*               "memory", "io" (an unsupported address space) or NULL;    *)
(*   legacy      the HPET can take the place of the PIT;                   *)
(*   wire[i]     the global interrupt the device of ISA line i is on.      *)
(* Timer and keyboard are the devices of lines 0 and 1.                    *)
(***************************************************************************)
EXTENDS Integers, Sequences, SequencesExt, FiniteSetsExt

CONSTANTS
    Machine,
    NUM_IRQ,     \* 16
    Timeslice,   \* TIMESLICE_TICKS: 20
    NULL

ASSUME InterruptsAssumption ==
    /\ NUM_IRQ \in Nat \ {0, 1} /\ Timeslice \in Nat \ {0}

VARIABLES
    machine,
    irq_to_gsi_,
    ioapic,            \* the first I/O APIC: its gsi_base and max_entry
    hpet_present,
    redtbl,            \* its redirection entries, by pin
    gates,             \* the IRQ vectors with a gate in the IDT
    sti,               \* kernel_main has enabled interrupts
    handlers, post_eoi_hook,
    tick_cb,           \* the timers with a callback
    slice              \* current_ # nullptr, ticks_left_ and need_resched_

tables == <<machine, irq_to_gsi_, ioapic, hpet_present>>
irqVars == <<tables, redtbl, gates, sti, handlers, post_eoi_hook, tick_cb, slice>>

Irq == 0..(NUM_IRQ - 1)
Timer == 0
Keyboard == 1

----------------------------------------------------------------------------
(* acpi::init() *)

\* The XSDT if there is one.
root(m) == IF m.xsdt # NULL THEN m.xsdt ELSE m.rsdt

\* The entries of a MADT up to the first of length 0.
entries(madt) ==
    LET stop == SelectInSeq(madt, LAMBDA e : e.type = "malformed")
    IN  IF stop = 0 THEN madt ELSE SubSeq(madt, 1, stop - 1)

ioapics(madt) == SelectSeq(entries(madt), LAMBDA e : e.type = "ioapic")

\* The identity, but for the lines that the MADT overrides; the last counts.
overrides(madt) ==
    LET e == entries(madt)
        of(irq) == {k \in DOMAIN e : e[k].type = "override" /\ e[k].source = irq}
    IN  [irq \in Irq |-> IF of(irq) = {} THEN irq ELSE e[Max(of(irq))].gsi]

\* It succeeds if it finds a MADT with an I/O APIC.
acpi_finds(m) ==
    /\ root(m) # NULL /\ root(m).madt # NULL
    /\ ioapics(root(m).madt) # << >>

acpi_init ==
    /\ hpet_present' = (root(machine).hpet = "memory")
    /\ ioapic' = Head(ioapics(root(machine).madt))
    /\ irq_to_gsi_' = overrides(root(machine).madt)
    /\ UNCHANGED <<machine, redtbl, gates, sti, handlers, post_eoi_hook, tick_cb, slice>>

\* The tables describe the wiring of timer and keyboard, and the firmware gives
\* no other line their pins, but for line 2, which has no device.
tells_the_truth(m) ==
    LET gsi == overrides(root(m).madt)
        first == Head(ioapics(root(m).madt))
    IN  /\ first.gsi_base \in Nat /\ first.max_entry \in Nat /\ gsi \in [Irq -> Nat]
        /\ \A irq \in {Timer, Keyboard} :
             /\ gsi[irq] = m.wire[irq]
             /\ \A other \in Irq \ {irq, 2} : gsi[other] # gsi[irq]

ASSUME FirmwareAssumption == \A m \in Machine : acpi_finds(m) => tells_the_truth(m)

----------------------------------------------------------------------------
(* The I/O APIC *)

\* The pin of the first I/O APIC for a global interrupt.
on_ioapic(gsi) == gsi - ioapic.gsi_base \in 0..ioapic.max_entry
redir_reg_for_irq(irq) == irq_to_gsi_[irq] - ioapic.gsi_base

\* Mutant: every line gets its entry, line 2 as well.
programmed_all == Irq

\* The lines that get an entry: line 2 is left out, since the entry of the pin
\* it would take by default is usually the timer's.
programmed == Irq \ {2}

\* The lines that are given this pin's entry, one after the other.
lines_on(pin) ==
    {irq \in programmed : on_ioapic(irq_to_gsi_[irq]) /\ redir_reg_for_irq(irq) = pin}

init_ioapic ==
    /\ redtbl' = [pin \in 0..ioapic.max_entry |->
                    [irq |-> IF lines_on(pin) = {} THEN NULL ELSE Max(lines_on(pin)),
                     masked |-> TRUE]]
    /\ UNCHANGED <<tables, gates, sti, handlers, post_eoi_hook, tick_cb, slice>>

\* set_irq_mask(irq, false)
unmask(irq) ==
    /\ redtbl' = IF on_ioapic(irq_to_gsi_[irq])
                 THEN [redtbl EXCEPT ![redir_reg_for_irq(irq)].masked = FALSE]
                 ELSE redtbl
    /\ UNCHANGED <<tables, gates, sti, handlers, post_eoi_hook, tick_cb, slice>>

----------------------------------------------------------------------------
(* Gates, handlers, timers *)

irq_init ==
    /\ gates' = Irq
    /\ UNCHANGED <<tables, redtbl, sti, handlers, post_eoi_hook, tick_cb, slice>>

enable_interrupts ==
    /\ sti' = TRUE
    /\ UNCHANGED <<tables, redtbl, gates, handlers, post_eoi_hook, tick_cb, slice>>

register_handler(irq, handler) ==
    /\ handlers' = [handlers EXCEPT ![irq] = handler]
    /\ UNCHANGED <<tables, redtbl, gates, sti, post_eoi_hook, tick_cb, slice>>

set_post_eoi_hook ==
    /\ post_eoi_hook' = TRUE
    /\ UNCHANGED <<tables, redtbl, gates, sti, handlers, tick_cb, slice>>

\* hpet::init() succeeds, or the PIT is used.
timer == IF hpet_present /\ machine.legacy THEN "hpet" ELSE "pit"

set_tick_callback ==
    /\ tick_cb' = {timer}
    /\ UNCHANGED <<tables, redtbl, gates, sti, handlers, post_eoi_hook, slice>>

sched_init ==
    /\ slice' = [slice EXCEPT !.current = TRUE]
    /\ UNCHANGED <<tables, redtbl, gates, sti, handlers, post_eoi_hook, tick_cb>>

----------------------------------------------------------------------------
(* An interrupt *)

entry(irq) == redtbl[machine.wire[irq] - ioapic.gsi_base]

\* The device of this line gets through: its pin is on the I/O APIC the kernel
\* programmed and is not masked.
raised(irq) ==
    /\ sti
    /\ on_ioapic(machine.wire[irq])
    /\ ~entry(irq).masked

\* sched::tick()
tick(s) ==
    IF ~s.current \/ s.ticks_left = 0 THEN s
    ELSE [s EXCEPT !.ticks_left = @ - 1,
                   !.need_resched = @ \/ s.ticks_left = 1]

\* sched::maybe_reschedule(); the rest of schedule() is in Sched.
maybe_reschedule(s) ==
    IF s.current /\ s.need_resched
    THEN [s EXCEPT !.ticks_left = Timeslice, !.need_resched = FALSE]
    ELSE s

\* hpet_irq_handler() or pit_irq_handler(), each with a callback of its own.
timer_handler(handler, s) == IF handler \in tick_cb THEN tick(s) ELSE s

after_hook(s) == IF post_eoi_hook THEN maybe_reschedule(s) ELSE s

\* irq_common_handler(), but for what the keyboard's handler does.
irq_common_handler(irq) ==
    /\ raised(irq) /\ entry(irq).irq \in gates
    /\ slice' = after_hook(timer_handler(handlers[entry(irq).irq], slice))
    /\ UNCHANGED <<tables, redtbl, gates, sti, handlers, post_eoi_hook, tick_cb>>

----------------------------------------------------------------------------

InterruptsInit ==
    /\ machine \in Machine
    /\ irq_to_gsi_ = [i \in Irq |-> 0] /\ ioapic = NULL /\ hpet_present = FALSE
    /\ redtbl = << >> /\ gates = {} /\ sti = FALSE
    /\ handlers = [i \in Irq |-> NULL] /\ post_eoi_hook = FALSE /\ tick_cb = {}
    /\ slice = [current |-> FALSE, ticks_left |-> Timeslice, need_resched |-> FALSE]

============================================================================
