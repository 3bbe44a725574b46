------------------------------- MODULE Sched -------------------------------
(***************************************************************************)
(* The task scheduler and the life cycle of tasks: task/sched.cpp,         *)
(* task/task.cpp, and the parts of task/fork.cpp, task/user.cpp and        *)
(* cpu/syscall.cpp that create, replace, block and end a task.             *)
(*                                                                         *)
(* One CPU.  A SYSCALL masks interrupts, so a system call is one step up   *)
(* to the point where it calls schedule().  Everything else - ring 3, the  *)
(* idle and boot loops, a new task's entry function and the exit path of   *)
(* an entry function that returns - runs with interrupts enabled, and the  *)
(* timer may preempt it between any two of its steps.                      *)
(*                                                                         *)
(* A Task is named by the address of its heap block; a freed block can be  *)
(* handed out again.  The ring is the sequence met when walking `next`     *)
(* pointers from current_, so ring[1] is current_.  The other registers    *)
(* that schedule() loads (kernel stack, TLS, FPU) are in SyscallGate.      *)
(***************************************************************************)
EXTENDS Naturals, FiniteSets, Sequences, SequencesExt

CONSTANTS
    Addr,         \* heap addresses a Task block can be allocated at
    Boot, Idle,   \* the two tasks that sched::init() sets up
    Space,        \* roots (PML4 frames) of private address spaces
    KernelSpace,  \* the address space kernel_main boots on
    NULL,
    MaxId,        \* bound: ids handed out by task::create()
    MaxSpawn,     \* spawn_from_elf() calls of kernel_main
    Timeslice     \* TIMESLICE_TICKS

ASSUME SchedAssumption ==
    /\ Boot \notin Addr /\ Idle \notin Addr /\ Boot # Idle
    /\ NULL \notin Addr \cup {Boot, Idle} \cup Space
    /\ KernelSpace \notin Space \cup {NULL}
    /\ MaxId \in Nat /\ MaxSpawn \in Nat /\ Timeslice \in Nat \ {0}

VARIABLES
    ring,        \* the circular run queue, walked from current_
    task,        \* contents of every Task block
    zombie,      \* zombie_
    ticks_left,  \* ticks_left_
    cr3,         \* the CR3 register
    spaces,      \* address spaces whose page tables are allocated
    next_id,     \* next_id of task.cpp
    spawned      \* spawn_from_elf() calls made so far

vars == <<ring, task, zombie, ticks_left, cr3, spaces, next_id, spawned>>

Task == Addr \cup {Boot, Idle}
State == {"Free", "Ready", "Running", "Dead"}

\* Where a task's kernel or user code stands when it is switched away from.
\* "hlt": the boot and idle loops.  "linux_entry", "fork_entry": a new task
\* before ring 3.  "wait4", "read": in the blocking loop of that system call.
\* "returned": the entry function came back to task_trampoline.  "dying":
\* exit_current() has marked it Dead and not yet looked at its parent.
Pc == {"none", "hlt", "linux_entry", "fork_entry", "user", "wait4", "read",
       "returned", "dying"}

TaskRecord == [state : State, id : Nat, parent : Task \cup {NULL},
               cr3 : Space \cup {NULL}, pc : Pc, child : Task \cup {NULL}]

\* A block on the heap's free list; its bytes mean nothing.
FreeBlock == [state |-> "Free", id |-> 0, parent |-> NULL, cr3 |-> NULL,
              pc |-> "none", child |-> NULL]

current == ring[1]
Self == task[current]

----------------------------------------------------------------------------
(* The ring *)

IndexIn(r, t) == CHOOSE i \in DOMAIN r : r[i] = t

unlink_from_ring(r, t) == RemoveAt(r, IndexIn(r, t))

\* spawn()'s splice: t goes right after current_.
splice_after_current(r, t) == InsertAt(r, 2, t)

\* The same ring seen from its i-th element.
RotateTo(r, i) == SubSeq(r, i, Len(r)) \o SubSeq(r, 1, i - 1)

\* Position of the first Ready task strictly after current_, 0 if none.
next_ready_after(r, tk) ==
    LET ready == {i \in 2..Len(r) : tk[r[i]].state = "Ready"}
    IN  IF ready = {} THEN 0
        ELSE CHOOSE i \in ready : \A j \in ready : i <= j

----------------------------------------------------------------------------
(* schedule() *)

\* Mutant: the address space of a freed task is never destroyed.
free_task_leaks_space(t, tk) == spaces

\* free_task(): the address space and the blocks the task owns.
free_task_spaces(t, tk) == spaces \ {tk[t].cr3}
free_task_block(t, tk) == [tk EXCEPT ![t] = FreeBlock]

\* reap_zombie() does something: there is a zombie and it is not on the CPU.
reapable(z) == z # NULL /\ z # current

\* Nobody else Ready: keep the caller if it can run, else fall back to idle.
switch_next(r, tk) ==
    LET i == next_ready_after(r, tk)
    IN  IF i # 0 THEN i
        ELSE IF tk[current].state = "Running" THEN 1 ELSE IndexIn(r, Idle)

\* Mutant: the outgoing task becomes Ready even when it has just died.
old_is_revived(tk, next) ==
    IF next = current THEN tk
    ELSE [tk EXCEPT ![current].state = "Ready", ![next].state = "Running"]

switched_tasks(tk, next) ==
    IF next = current THEN tk
    ELSE [tk EXCEPT ![current].state = IF @ = "Running" THEN "Ready" ELSE @,
                    ![next].state = "Running"]

\* A kernel-only task (cr3 field 0) leaves the register alone.
switched_cr3(tk, next) ==
    IF next # current /\ tk[next].cr3 # NULL THEN tk[next].cr3 ELSE cr3

refilled_ticks == Timeslice

\* The switch half of schedule(): `r` and `tk` are the ring and the tasks
\* after reaping.
switch(r, tk) ==
    LET i == switch_next(r, tk)
    IN  /\ ticks_left' = refilled_ticks
        /\ ring' = RotateTo(r, i)
        /\ task' = switched_tasks(tk, r[i])
        /\ cr3' = switched_cr3(tk, r[i])

\* Mutant: the zombie is freed and not unlinked.
schedule_without_unlink(tk, z) ==
    IF reapable(z)
    THEN /\ zombie' = NULL
         /\ spaces' = free_task_spaces(z, tk)
         /\ switch(ring, free_task_block(z, tk))
    ELSE zombie' = z /\ spaces' = spaces /\ switch(ring, tk)

\* schedule(), called with the tasks and the zombie as the caller left them.
schedule(tk, z) ==
    IF reapable(z)
    THEN /\ zombie' = NULL
         /\ spaces' = free_task_spaces(z, tk)
         /\ switch(unlink_from_ring(ring, z), free_task_block(z, tk))
    ELSE /\ zombie' = z
         /\ spaces' = spaces
         /\ switch(ring, tk)

----------------------------------------------------------------------------
(* Creation *)

\* task::create() and sched::spawn(): block a, private address space s.
spawn(a, s, pc, parent) ==
    /\ task[a].state = "Free"
    /\ s \notin spaces
    /\ next_id < MaxId
    /\ task' = [task EXCEPT ![a] = [FreeBlock EXCEPT !.state = "Ready",
                   !.id = next_id, !.parent = parent, !.cr3 = s, !.pc = pc]]
    /\ spaces' = spaces \cup {s}
    /\ ring' = splice_after_current(ring, a)
    /\ next_id' = next_id + 1

\* kernel_main starts /bin/retsh from the boot task.
spawn_from_elf ==
    /\ current = Boot
    /\ spawned < MaxSpawn
    /\ \E a \in Addr, s \in Space : spawn(a, s, "linux_entry", NULL)
    /\ spawned' = spawned + 1
    /\ UNCHANGED <<zombie, ticks_left, cr3>>

\* The copy of the caller is made and spliced in one interrupt-free step.
sys_fork ==
    /\ Self.pc = "user"
    /\ \E a \in Addr, s \in Space : spawn(a, s, "fork_entry", current)
    /\ UNCHANGED <<zombie, ticks_left, cr3, spawned>>

\* linux_task_entry(): ring 3, or back to task_trampoline when the ELF does
\* not load or its argument block does not fit.
linux_task_entry ==
    /\ Self.pc = "linux_entry"
    /\ \E p \in {"user", "returned"} : task' = [task EXCEPT ![current].pc = p]
    /\ UNCHANGED <<ring, zombie, ticks_left, cr3, spaces, next_id, spawned>>

fork_child_entry ==
    /\ Self.pc = "fork_entry"
    /\ task' = [task EXCEPT ![current].pc = "user"]
    /\ UNCHANGED <<ring, zombie, ticks_left, cr3, spaces, next_id, spawned>>

\* A successful execve(): stage a new space, switch to it, free the old one.
\* A failing one restores the field and the register and frees the new space.
sys_execve ==
    /\ Self.pc = "user"
    /\ \E s \in Space \ spaces :
          /\ task' = [task EXCEPT ![current].cr3 = s]
          /\ cr3' = s
          /\ spaces' = (spaces \ {Self.cr3}) \cup {s}
    /\ UNCHANGED <<ring, zombie, ticks_left, next_id, spawned>>

----------------------------------------------------------------------------
(* Exit *)

\* Mutant: every exiting task is handed to reap_zombie(), waited for or not.
zombie_regardless(t) == t

\* Task and zombie_ after exit_current()'s two assignments.
mark_dead(t) == [task EXCEPT ![t].state = "Dead", ![t].pc = "dying"]
zombie_on_exit(t) == IF task[t].parent = NULL THEN t ELSE zombie

\* sys_exit(): interrupts are masked, so exit_current() runs to its switch.
sys_exit ==
    /\ Self.pc = "user"
    /\ schedule(mark_dead(current), zombie_on_exit(current))
    /\ UNCHANGED <<next_id, spawned>>

\* exit_current() from task_trampoline, interrupts enabled: the timer can
\* come between its two assignments.
exit_current_mark ==
    /\ Self.pc = "returned"
    /\ task' = mark_dead(current)
    /\ UNCHANGED <<ring, zombie, ticks_left, cr3, spaces, next_id, spawned>>

exit_current_finish ==
    /\ Self.pc = "dying"
    /\ schedule(task, zombie_on_exit(current))
    /\ UNCHANGED <<next_id, spawned>>

----------------------------------------------------------------------------
(* Blocking system calls *)

\* The tail of wait4(): unlink and free the dead child, return its pid.
wait4_collect(c) ==
    /\ ring' = unlink_from_ring(ring, c)
    /\ task' = [free_task_block(c, task) EXCEPT ![current].pc = "user",
                                                ![current].child = NULL]
    /\ spaces' = free_task_spaces(c, task)
    /\ UNCHANGED <<zombie, ticks_left, cr3, next_id, spawned>>

wait4_block(c) ==
    /\ schedule([task EXCEPT ![current].pc = "wait4", ![current].child = c],
                zombie)
    /\ UNCHANGED <<next_id, spawned>>

\* A pid that find_task() finds on the ring and whose parent pointer is the
\* caller; any other pid returns ECHILD and changes nothing.
wait4_accepts(c) == task[c].parent = current

wait4 ==
    /\ Self.pc = "user"
    /\ \E c \in ToSet(ring) :
          /\ wait4_accepts(c)
          /\ IF task[c].state = "Dead" THEN wait4_collect(c) ELSE wait4_block(c)

\* Mutant: the loop tests the state it read before it first blocked.
wait4_resume_stale == Self.pc = "wait4" /\ wait4_block(Self.child)

\* Switched back to in wait4()'s loop: test the child again.
wait4_resume ==
    /\ Self.pc = "wait4"
    /\ IF task[Self.child].state = "Dead"
       THEN wait4_collect(Self.child) ELSE wait4_block(Self.child)

\* read(0) with no key to consume yields until a line is ready.
read_block ==
    /\ Self.pc \in {"user", "read"}
    /\ schedule([task EXCEPT ![current].pc = "read"], zombie)
    /\ UNCHANGED <<next_id, spawned>>

read_resume ==
    /\ Self.pc = "read"
    /\ task' = [task EXCEPT ![current].pc = "user"]
    /\ UNCHANGED <<ring, zombie, ticks_left, cr3, spaces, next_id, spawned>>

----------------------------------------------------------------------------
(* The timer *)

InterruptsEnabled == Self.pc \notin {"wait4", "read"}

\* Mutant: the post-EOI hook is not installed.
timer_without_hook ==
    /\ InterruptsEnabled /\ ticks_left > 1
    /\ ticks_left' = ticks_left - 1
    /\ UNCHANGED <<ring, task, zombie, cr3, spaces, next_id, spawned>>

\* Mutant: only yield() reaps.
timer_without_reaping ==
    /\ InterruptsEnabled
    /\ switch(ring, task)
    /\ UNCHANGED <<zombie, spaces, next_id, spawned>>

\* Timer IRQ: tick(), EOI, then the post-EOI hook maybe_reschedule().
timer_irq ==
    /\ InterruptsEnabled
    /\ IF ticks_left = 1
       THEN schedule(task, zombie)
       ELSE /\ ticks_left' = ticks_left - 1
            /\ UNCHANGED <<ring, task, zombie, cr3, spaces>>
    /\ UNCHANGED <<next_id, spawned>>

----------------------------------------------------------------------------

\* sched::init(): kernel_main becomes the boot task, idle is created Ready.
Init ==
    /\ ring = <<Boot, Idle>>
    /\ task = [t \in Task |->
                 IF t = Boot
                 THEN [FreeBlock EXCEPT !.state = "Running", !.pc = "hlt"]
                 ELSE IF t = Idle
                 THEN [FreeBlock EXCEPT !.state = "Ready", !.pc = "hlt",
                                        !.id = 1]
                 ELSE FreeBlock]
    /\ zombie = NULL
    /\ ticks_left = Timeslice
    /\ cr3 = KernelSpace
    /\ spaces = {}
    /\ next_id = 2
    /\ spawned = 0

KernelStep ==
    \/ linux_task_entry \/ fork_child_entry
    \/ exit_current_mark \/ exit_current_finish
    \/ wait4_resume

Next ==
    \/ spawn_from_elf
    \/ sys_fork \/ sys_execve \/ sys_exit \/ wait4
    \/ read_block \/ read_resume
    \/ KernelStep
    \/ timer_irq

\* The timer never stops, and kernel code that has the CPU with nothing to
\* wait for goes on.  Nothing is assumed of user programs or of the keyboard.
Fairness ==
    /\ WF_vars(timer_irq)
    /\ WF_vars(KernelStep)
    /\ WF_vars(Self.pc = "read" /\ (read_block \/ read_resume))

Spec == Init /\ [][Next]_vars
FairSpec == Spec /\ Fairness

----------------------------------------------------------------------------
(* Properties *)

\* Every variable of the scheduler keeps its type.
TypeOK ==
    /\ ring \in Seq(Task) /\ ring # << >>
    /\ task \in [Task -> TaskRecord]
    /\ zombie \in Task \cup {NULL}
    /\ ticks_left \in 1..Timeslice
    /\ cr3 \in Space \cup {KernelSpace}
    /\ spaces \subseteq Space
    /\ next_id \in Nat /\ spawned \in Nat

\* Walking the ring from current_ meets every allocated task exactly once and
\* no freed one: reaping, wait4() and spawn() never leave a dangling `next`
\* pointer, never free the task that has the CPU and never lose a task.
RingIsAllocatedTasks ==
    /\ ToSet(ring) = {t \in Task : task[t].state # "Free"}
    /\ \A i, j \in DOMAIN ring : ring[i] = ring[j] => i = j

\* current_ is the one task in state Running, or it is on its way out of
\* exit_current(); boot and idle can always be scheduled, so schedule() from a
\* dead task always has somewhere to go.
OneTaskRuns ==
    /\ \A t \in Task : task[t].state = "Running" => t = current
    /\ Self.state = "Running" \/ (Self.state = "Dead" /\ Self.pc = "dying")
    /\ \A t \in {Boot, Idle} : task[t].state \in {"Ready", "Running"}

\* What reap_zombie() frees is a dead task that no wait4() may be looking at:
\* zombie_ never names a freed block or a task with a parent.
ZombieIsUnclaimed ==
    zombie # NULL => /\ task[zombie].state = "Dead"
                     /\ task[zombie].parent = NULL
                     /\ zombie \in ToSet(ring)

\* The child pointer that wait4() keeps across its blocking loop still names
\* the caller's own child each time it is dereferenced: nobody else frees it
\* while the parent is switched away.
WaitedChildIsHeld ==
    \A t \in Task : task[t].pc = "wait4" =>
        /\ task[t].child # NULL
        /\ task[task[t].child].state # "Free"
        /\ task[task[t].child].parent = t

\* Address spaces are owned: the allocated ones are exactly those of the tasks
\* on the ring and no two tasks share one, so fork(), execve(), wait4() and
\* reaping neither leak a space nor free one that another task uses.
SpacesAreOwned ==
    LET users == {t \in Task : task[t].cr3 # NULL}
    IN  /\ spaces = {task[t].cr3 : t \in users}
        /\ \A t, u \in users : task[t].cr3 = task[u].cr3 => t = u

\* A task with a private address space runs, in ring 3 and in the kernel, with
\* that space loaded, whatever ran before it.
RunsOnOwnSpace == Self.cr3 # NULL => cr3 = Self.cr3

\* The rest of what the proofs need: freed blocks are blank, exactly the dead
\* tasks are past exit_current()'s first assignment, boot and idle never leave
\* their loops.
RecordsAgree ==
    /\ \A t \in Task : task[t].state = "Free" => task[t] = FreeBlock
    /\ \A t \in Task : task[t].pc = "dying" <=> task[t].state = "Dead"
    /\ \A t \in {Boot, Idle} : task[t].pc = "hlt"

\* The inductive invariant: no schedule(), reaping, fork(), execve(), exit or
\* wait4() step of the code takes the tasks out of it.
SchedInv ==
    /\ TypeOK
    /\ RingIsAllocatedTasks
    /\ OneTaskRuns
    /\ ZombieIsUnclaimed
    /\ WaitedChildIsHeld
    /\ SpacesAreOwned
    /\ RunsOnOwnSpace
    /\ RecordsAgree

\* A dead task is never scheduled again: its block only goes to the heap.
DeadStaysDead ==
    [][\A t \in Task : task[t].state = "Dead"
                          => task'[t].state \in {"Dead", "Free"}]_vars

\* Round robin without starvation: a Ready task gets the CPU.
ReadyTasksRun ==
    \A t \in Task : task[t].state = "Ready" ~> task[t].state # "Ready"

\* Once the child is dead, its parent's blocked wait4() returns.
Wait4Returns ==
    \A t \in Task : (task[t].pc = "wait4" /\ task[task[t].child].state = "Dead")
                       ~> task[t].pc # "wait4"

\* A task that exit_current() puts in zombie_ is freed, even when nothing but
\* the boot and idle tasks is left to call schedule().  The one exception is
\* that a second unparented task exits before any schedule() gets to reap the
\* first: its store overwrites the slot, and the first stays Dead on the ring
\* for ever (README, findings), against the comment in exit_current() that
\* schedule() reaps the previous zombie first.
ZombieIsReaped ==
    \A t \in Task :
        zombie = t ~> (task[t].state = "Free" \/ zombie \notin {NULL, t})

----------------------------------------------------------------------------
(* What a comment in the code says and the code does not do *)

\* sched.cpp on free_task(): the caller must not be running on t's CR3.  The
\* CR3 register always holds page tables that are still allocated.
ActiveSpaceIsAllocated == cr3 \in spaces \cup {KernelSpace}

============================================================================
