---------------------------- MODULE HeapPreempt ----------------------------
(***************************************************************************)
(* The heap when a caller runs with interrupts enabled.  Task entry        *)
(* functions (linux_task_entry(), fork_child_entry()) do, and call         *)
(* kfree(): the timer can switch to another user of the heap after the     *)
(* block is marked free and before coalesce() has put it on the list.      *)
(***************************************************************************)
EXTENDS Heap

VARIABLE marked   \* blocks whose kfree() was interrupted before coalesce()

preemptVars == <<vars, marked>>

kfree_mark(b, req) ==
    /\ ~free[b]
    /\ free' = [free EXCEPT ![b] = TRUE]
    /\ held' = held \ {<<b, req>>}
    /\ marked' = marked \cup {b}
    /\ UNCHANGED <<size, footer, free_list, heap_end, halted>>

kfree_coalesce(b) ==
    /\ put(coalesce(heap, b))
    /\ marked' = marked \ {b}
    /\ UNCHANGED <<held, halted>>

PreemptInit == Init /\ marked = {}

PreemptNext ==
    \/ Next /\ UNCHANGED marked
    \/ halted = "no" /\ \E <<b, req>> \in held : kfree_mark(b, req)
    \/ halted = "no" /\ \E b \in marked : kfree_coalesce(b)

PreemptSpec == PreemptInit /\ [][PreemptNext]_preemptVars

\* user.hpp on spawn_from_elf(): safe to run several concurrently.  Tasks that
\* load or fork at the same time still get disjoint kernel memory.
HeldIsDisjoint ==
    \A x, y \in held : x # y => \/ x[1] + x[2] + HDR + FTR <= y[1]
                                \/ y[1] + y[2] + HDR + FTR <= x[1]

============================================================================
