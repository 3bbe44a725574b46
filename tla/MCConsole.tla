----------------------------- MODULE MCConsole -----------------------------
(* Small machines for Console: the firmware describes their wiring truly.    *)
EXTENDS Console

MCLabel(n) == <<"1", "2", "3", "4">>[n + 1]
MCBanner == <<"NL", "a">>

IoApic(base, last) == [type |-> "ioapic", gsi_base |-> base, max_entry |-> last]
Override(irq, gsi) == [type |-> "override", source |-> irq, gsi |-> gsi]
Other == [type |-> "other"]
Malformed == [type |-> "malformed"]

Tables(madt, hpet) == [madt |-> madt, hpet |-> hpet]

\* As QEMU has it: the timer on pin 2.
Common ==
    [xsdt |-> NULL, legacy |-> TRUE, wire |-> (0 :> 2 @@ 1 :> 1), shell |-> TRUE,
     rsdt |-> Tables(<<Other, IoApic(0, 3), Override(0, 2)>>, "memory")]

\* No overrides, a HPET without legacy routing: the PIT on pin 0.
Plain ==
    [xsdt |-> Tables(<<IoApic(0, 3), Malformed, Override(1, 0)>>, "memory"),
     rsdt |-> Tables(<<Override(1, 3)>>, NULL),
     legacy |-> FALSE, wire |-> (0 :> 0 @@ 1 :> 1), shell |-> FALSE]

\* Both lines moved, described before the I/O APIC, the keyboard's twice.
Moved ==
    [xsdt |-> Tables(<<Override(1, 6), Override(5, 1), Override(0, 5),
                       IoApic(4, 3), Override(1, 7), IoApic(0, 3)>>, NULL),
     rsdt |-> NULL, legacy |-> TRUE, wire |-> (0 :> 5 @@ 1 :> 7), shell |-> FALSE]

\* The keyboard's pin is on the second I/O APIC.
Split ==
    [xsdt |-> NULL, legacy |-> TRUE, wire |-> (0 :> 2 @@ 1 :> 5), shell |-> FALSE,
     rsdt |-> Tables(<<IoApic(0, 3), IoApic(4, 3), Override(1, 5), Override(0, 2)>>, "io")]

\* No I/O APIC.
Old ==
    [xsdt |-> NULL, legacy |-> FALSE, wire |-> (0 :> 0 @@ 1 :> 1), shell |-> FALSE,
     rsdt |-> Tables(<<Other>>, NULL)]

MCMachine == {Common, Plain, Moved, Split, Old}

============================================================================
