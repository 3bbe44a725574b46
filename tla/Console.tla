------------------------------ MODULE Console ------------------------------
(***************************************************************************)
(* The machine from power-on to the shell and the user at its keyboard:    *)
(* kernel_main() (main.cpp) sets up interrupts, timer, scheduler and       *)
(* consoles step by step, with interrupts enabled from early on; then      *)
(* programs read lines (Stdin) and print (Tty) while keys come in.         *)
(*                                                                         *)
(* Everything that interrupts may see between two steps of kernel_main is  *)
(* a step of its own.  What boot does before and besides (memory, disk and *)
(* file systems) is in AddressSpace, Heap, Storage and Files.              *)
(***************************************************************************)
EXTENDS Stdin, Interrupts

CONSTANTS
    Banner,    \* what kernel_main prints
    Output,    \* what programs print
    MaxPrints  \* bound: characters that programs write

\* The banner is short enough for a fresh console: it never wraps or scrolls.
ASSUME BannerFits ==
    /\ Banner \in Seq(Char \cup {"NL"})
    /\ Cardinality({i \in DOMAIN Banner : Banner[i] = "NL"}) < VGA_HEIGHT
    /\ Cardinality({i \in DOMAIN Banner : Banner[i] # "NL"}) < VGA_WIDTH

VARIABLES
    ip,        \* kernel_main's next step; 0 when it has halted
    shown,     \* characters of the banner it has begun to print
    printed    \* characters programs have written

bootVars == <<ip, shown>>
vars == <<ttyVars, stdinVars, irqVars, bootVars, printed>>

----------------------------------------------------------------------------
(* kernel_main() *)

\* Mutant: the scheduler is never hooked into the interrupt path.
boot_order_unhooked ==
    <<"acpi", "ioapic", "gates", "sti", "timer_handler", "timer_unmask", "tick",
      "sched", "tty", "keyboard_handler", "keyboard_unmask", "banner", "shell">>

\* hpet::init() or pit::init() and keyboard::init() register their handler
\* before they unmask their line.
boot_order ==
    <<"acpi", "ioapic", "gates", "sti", "timer_handler", "timer_unmask", "tick",
      "sched", "hook", "tty", "keyboard_handler", "keyboard_unmask", "banner", "shell">>

at(step) == ip \in DOMAIN boot_order /\ boot_order[ip] = step
went(step) == ip > SelectInSeq(boot_order, LAMBDA s : s = step)

\* A step of kernel_main that only concerns interrupts.
boot(step) ==
    /\ at(step) /\ ip' = ip + 1
    /\ UNCHANGED <<ttyVars, stdinVars, shown, printed>>

find_tables ==
    /\ acpi_finds(machine)
    /\ boot("acpi") /\ acpi_init

\* Without an I/O APIC it halts.
halt ==
    /\ at("acpi") /\ ~acpi_finds(machine)
    /\ ip' = 0
    /\ UNCHANGED <<ttyVars, stdinVars, irqVars, shown, printed>>

route == boot("ioapic") /\ init_ioapic
install_gates == boot("gates") /\ irq_init
enable == boot("sti") /\ enable_interrupts
timer_init == boot("timer_handler") /\ register_handler(Timer, timer)
timer_unmask == boot("timer_unmask") /\ unmask(Timer)
timer_callback == boot("tick") /\ set_tick_callback
start_scheduler == boot("sched") /\ sched_init
set_hook == boot("hook") /\ set_post_eoi_hook

init_consoles ==
    /\ at("tty") /\ ip' = ip + 1
    /\ tty_init
    /\ UNCHANGED <<stdinVars, irqVars, shown, printed>>

keyboard_init == boot("keyboard_handler") /\ register_handler(Keyboard, "keyboard")
keyboard_unmask == boot("keyboard_unmask") /\ unmask(Keyboard)

print_banner ==
    /\ at("banner") /\ shown < Len(Banner)
    /\ bind(Banner[shown + 1])
    /\ shown' = shown + 1
    /\ UNCHANGED <<stdinVars, irqVars, ip, printed>>

continue_print ==
    /\ store_buffer \/ store_vga \/ move \/ update_cursor
    /\ UNCHANGED <<stdinVars, irqVars, bootVars, printed>>

end_banner ==
    /\ printing = Idle /\ shown = Len(Banner)
    /\ boot("banner") /\ UNCHANGED irqVars

\* spawn_from_elf("/bin/retsh"); a machine without that file stays idle.
spawn_shell == boot("shell") /\ UNCHANGED irqVars

kernel_main ==
    \/ find_tables \/ halt \/ route \/ install_gates \/ enable
    \/ timer_init \/ timer_unmask \/ timer_callback
    \/ start_scheduler \/ set_hook
    \/ init_consoles \/ keyboard_init \/ keyboard_unmask
    \/ print_banner \/ continue_print \/ end_banner \/ spawn_shell

----------------------------------------------------------------------------
(* Interrupts.  A system call masks them. *)

timer_irq ==
    /\ busy = None
    /\ irq_common_handler(Timer)
    /\ UNCHANGED <<ttyVars, stdinVars, bootVars, printed>>

\* A key that finds no handler of the keyboard is lost.
keyboard_irq(key, released) ==
    /\ busy = None
    /\ irq_common_handler(Keyboard)
    /\ IF handlers[entry(Keyboard).irq] = "keyboard"
       THEN keyboard_handler(key, released)
       ELSE UNCHANGED <<ttyVars, stdinVars>>
    /\ UNCHANGED <<bootVars, printed>>

----------------------------------------------------------------------------
(* Programs: the shell and what it starts *)

running == went("shell") /\ machine.shell

program(r) ==
    /\ running
    /\ (\E n \in ReadLen : sys_read(r, n)) \/ resume(r)
    /\ UNCHANGED <<irqVars, bootVars, printed>>

reading ==
    /\ next_key \/ block \/ deliver
    /\ UNCHANGED <<irqVars, bootVars, printed>>

\* One character of sys_write() to descriptor 1 or 2, by itself or from
\* sys_writev(); other descriptors are refused.
sys_write(c) ==
    /\ running /\ busy = None /\ printed < MaxPrints
    /\ print(c)
    /\ printed' = printed + 1
    /\ UNCHANGED <<stdinVars, irqVars, bootVars>>

----------------------------------------------------------------------------

Init ==
    /\ TtyInit /\ StdinInit /\ InterruptsInit
    /\ ip = 1 /\ shown = 0 /\ printed = 0

Next ==
    \/ kernel_main
    \/ timer_irq
    \/ \E key \in Key, released \in BOOLEAN : keyboard_irq(key, released)
    \/ \E r \in Reader : program(r)
    \/ reading
    \/ \E c \in Output : sys_write(c)

Spec == Init /\ [][Next]_vars

\* kernel_main goes on (the boot task is always ready, Sched!ReadyTasksRun), a
\* reader with the CPU goes on and every blocked one is resumed, and the timer's
\* interrupt stays pending until it is taken.  Nothing is assumed of the user or
\* of when programs read or write.
Fairness ==
    /\ WF_vars(kernel_main)
    /\ SF_vars(timer_irq)
    /\ WF_vars(reading)
    /\ \A r \in Reader : SF_vars(running /\ resume(r) /\ UNCHANGED <<irqVars, bootVars, printed>>)

FairSpec == Spec /\ Fairness

----------------------------------------------------------------------------
(* Properties *)

driver(irq) == IF irq = Timer THEN timer ELSE "keyboard"
started(irq) == IF irq = Timer THEN went("timer_unmask") ELSE went("keyboard_unmask")

\* Whatever lines the firmware has moved, listed in whatever order and on
\* whatever I/O APICs: at every moment of the boot an interrupt that gets
\* through finds a gate and the handler of the device that raised it, a key
\* finds the consoles set up, and once its driver has unmasked it a device on
\* the first I/O APIC does get through.
InterruptsReachTheirHandler ==
    \A irq \in {Timer, Keyboard} :
       /\ sti /\ ioapic # NULL /\ raised(irq) =>
            /\ entry(irq).irq \in gates
            /\ handlers[entry(irq).irq] = driver(irq)
            /\ irq = Keyboard => initialized
       /\ started(irq) /\ on_ioapic(machine.wire[irq]) => raised(irq)

\* A timeslice that runs out before kernel_main has set the hook is not
\* forgotten: the scheduler runs at some later interrupt.
RescheduleIsTaken ==
    slice.need_resched ~> ~slice.need_resched

============================================================================
