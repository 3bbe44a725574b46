--------------------------- MODULE VirtualMemory ---------------------------
(***************************************************************************)
(* What a program may expect of its memory, task/user.hpp and mem/vmm.hpp: *)
(* every task has pages of its own that nobody else changes; growing adds  *)
(* zeroed pages and leaves the others alone, fork() copies, execve()       *)
(* replaces.                                                               *)
(***************************************************************************)
EXTENDS Naturals, Functions

CONSTANTS Task, NULL, Zero,
          Fresh(_)   \* is this the memory of a program that has just been loaded?

VARIABLE vm   \* a task's pages: a function to [val, fl], or NULL for no task

Live == {t \in Task : vm[t] # NULL}
OthersKeepTheirs(t) == \A u \in Task \ {t} : vm'[u] = vm[u]

Init == vm = [t \in Task |-> NULL]

Start(t) == t \notin Live /\ vm' = [vm EXCEPT ![t] = << >>]
Exit(t) == t \in Live /\ vm' = [vm EXCEPT ![t] = NULL]

\* A new image, at the task's start or by execve().
Load(t) == t \in Live /\ vm'[t] # NULL /\ Fresh(vm'[t]) /\ OthersKeepTheirs(t)

Store(t) ==
    /\ t \in Live /\ vm'[t] # NULL /\ OthersKeepTheirs(t)
    /\ DOMAIN vm'[t] = DOMAIN vm[t]
    /\ \E p \in DOMAIN vm[t] :
         /\ vm[t][p].fl = "RW" /\ vm'[t][p].fl = "RW"
         /\ \A q \in DOMAIN vm[t] \ {p} : vm'[t][q] = vm[t][q]

\* brk() and mmap(): new zeroed pages, all with the same permissions.
Grow(t) ==
    /\ t \in Live /\ vm'[t] # NULL /\ OthersKeepTheirs(t)
    /\ DOMAIN vm[t] \subseteq DOMAIN vm'[t]
    /\ Restrict(vm'[t], DOMAIN vm[t]) = vm[t]
    /\ \E fl \in {"RW", "RO"} : \A p \in DOMAIN vm'[t] \ DOMAIN vm[t] :
          vm'[t][p] = [val |-> Zero, fl |-> fl]

\* brk() and munmap(): some pages go, the others stay as they are.
Shrink(t) ==
    /\ t \in Live /\ vm'[t] # NULL /\ OthersKeepTheirs(t)
    /\ DOMAIN vm'[t] \subseteq DOMAIN vm[t]
    /\ Restrict(vm[t], DOMAIN vm'[t]) = vm'[t]

Protect(t) ==
    /\ t \in Live /\ vm'[t] # NULL /\ OthersKeepTheirs(t)
    /\ DOMAIN vm'[t] = DOMAIN vm[t]
    /\ \A p \in DOMAIN vm[t] : vm'[t][p].val = vm[t][p].val

Fork(t, c) == t \in Live /\ c \notin Live /\ vm' = [vm EXCEPT ![c] = vm[t]]

Next ==
    \/ \E t \in Task : Start(t) \/ Exit(t) \/ Load(t) \/ Store(t) \/ Grow(t)
                         \/ Shrink(t) \/ Protect(t)
    \/ \E t, c \in Task : Fork(t, c)

Spec == Init /\ [][Next]_vm

============================================================================
