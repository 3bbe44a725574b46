---------------------------- MODULE SyscallGate ----------------------------
(***************************************************************************)
(* The way in and out of ring 3: cpu/syscall_entry.asm, the IRQ stubs,     *)
(* task/switch.asm, task/fork_entry.asm, the register half of schedule(),  *)
(* sched::yield_blocking() and the system calls that leave through another *)
(* door than SYSRET (exit, execve, a blocking read or wait4).              *)
(*                                                                         *)
(* One CPU, one CpuLocal: the two SWAPGS slots, the saved user RSP, the    *)
(* SYSCALL stack pointer and TSS.RSP0 are shared by every task, and each   *)
(* door has to leave them right for whichever task runs next.  Which task  *)
(* that is belongs to Sched; here schedule() may pick any that can run.    *)
(*                                                                         *)
(* Memory that nothing reads again - a popped frame, a local of a handler  *)
(* that returned, a freed ForkFrame or Task - is set to Junk or Blank.     *)
(***************************************************************************)
EXTENDS Naturals, FiniteSets

CONSTANTS
    Task,        \* tasks that can enter ring 3
    Boot, Idle,  \* kernel-only tasks; Boot has no kernel stack of its own
    Val,         \* contents of a user register
    Junk         \* whatever kernel code leaves in one

All == Task \cup {Boot, Idle}

ASSUME GateAssumption ==
    /\ Boot \notin Task /\ Idle \notin Task /\ Boot # Idle
    /\ Junk \notin Val \cup Task /\ Val # {}

VARIABLES
    current,     \* current_
    mode,        \* where each task stands, see Mode
    GS_BASE, KERNEL_GS_BASE,   \* "local" is &g_cpu_local, "user" any other base
    user_rsp,    \* CpuLocal::user_rsp
    kernel_rsp,  \* CpuLocal::kernel_rsp, named by the task whose stack it is
    rsp0,        \* TSS.RSP0, likewise
    sp,          \* the kernel stack each task's kernel context is on
    kstack,      \* the register frame at the top of each kernel stack
    saved,       \* saved_user_rsp of wait4() and sys_read()
    fork_frame,  \* the ForkFrame of a child that has not run yet
    regs,        \* user-visible registers: callee-saved, argument, rsp
    xmm, fpu,    \* the SSE registers; Task::fpu_state
    FS_BASE, fs_base,          \* the MSR; Task::fs_base
    want,        \* ghost: what each task must find when it is back in ring 3
    fresh        \* ghost: fork children in their first registers in ring 3

gate == <<GS_BASE, KERNEL_GS_BASE, user_rsp>>
stacks == <<kernel_rsp, rsp0>>
ghost == <<want, fresh>>
vars == <<current, mode, gate, stacks, sp, kstack, saved, fork_frame, regs,
          xmm, fpu, FS_BASE, fs_base, ghost>>

\* "new", "fork": created, before ring 3.  "user": ring 3.  "syscall": in a
\* handler, interrupts masked.  "loop": in the loop of a blocking handler.
\* "blocked": inside that loop's yield.  "preempted": in the timer IRQ that
\* interrupted ring 3.  "kernel": the boot and idle loops.
Mode == {"none", "new", "fork", "user", "syscall", "loop", "blocked",
         "preempted", "kernel", "dead"}

Reg == Val \cup {Junk}
Frame == [callee : Reg, arg : Reg, rsp : Reg]
Base == Task \cup {Junk}
Image == [callee : Reg, arg : Reg, rsp : Reg, xmm : Reg]
Blank == [callee |-> Junk, arg |-> Junk, rsp |-> Junk]

image(r, x) == [callee |-> r.callee, arg |-> r.arg, rsp |-> r.rsp, xmm |-> x]

Runnable == {"new", "fork", "blocked", "preempted", "kernel"}

\* The frame at the top of stack s is popped.
pop(s) == [kstack EXCEPT ![s] = Blank]

swapgs == GS_BASE' = KERNEL_GS_BASE /\ KERNEL_GS_BASE' = GS_BASE

----------------------------------------------------------------------------
(* The register half of schedule(), and switch_to() *)

\* The boot task has no kernel stack: the previous one stays loaded.
stack_of(old, next) == IF next = Boot THEN old ELSE next

\* Mutant: TSS.RSP0 is not updated with the SYSCALL stack.
load_syscall_stack_only(next) ==
    /\ kernel_rsp' = stack_of(kernel_rsp, next)
    /\ UNCHANGED rsp0

load_stacks(next) ==
    /\ kernel_rsp' = stack_of(kernel_rsp, next)
    /\ rsp0' = stack_of(rsp0, next)

load_tls(next) == FS_BASE' = fs_base[next]

\* Mutant: FXRSTOR without FXSAVE.
switch_fpu_restore_only(next) == xmm' = fpu[next] /\ UNCHANGED fpu

switch_fpu(next) ==
    /\ fpu' = [fpu EXCEPT ![current] = xmm]
    /\ xmm' = fpu[next]

\* Leave the CPU to some other task, which continues where it left off; `m` is
\* every task's mode with the caller's already changed.
schedule(m) ==
    \E next \in All \ {current} :
        /\ m[next] \in Runnable
        /\ current' = next
        /\ mode' = m
        /\ load_stacks(next)
        /\ load_tls(next)
        /\ switch_fpu(next)

become(m) == [mode EXCEPT ![current] = m]

\* Ghost: what the running program finds next is what it leaves ring 3 with.
leave_ring3 ==
    /\ want' = [want EXCEPT ![current] = image(regs, xmm)]
    /\ fresh' = fresh \ {current}

----------------------------------------------------------------------------
(* Ring 3 *)

\* The program writes its registers; one value stands for all of them.
user_compute ==
    /\ mode[current] = "user"
    /\ \E v \in Val :
          /\ regs' = [callee |-> v, arg |-> v, rsp |-> v]
          /\ xmm' = v
          /\ want' = [want EXCEPT ![current] = image(regs', v)]
    /\ fresh' = fresh \ {current}
    /\ UNCHANGED <<current, mode, gate, stacks, sp, kstack, saved, fork_frame,
                   fpu, FS_BASE, fs_base>>

\* syscall_entry: SWAPGS, stash the user RSP through GS, take the kernel stack
\* and push a Frame on it.  Handlers then use the registers freely.
syscall_entry ==
    /\ mode[current] = "user"
    /\ swapgs
    /\ user_rsp' = IF GS_BASE' = "local" THEN regs.rsp ELSE user_rsp
    /\ sp' = [sp EXCEPT ![current] = kernel_rsp]
    /\ kstack' = [kstack EXCEPT ![kernel_rsp] = [regs EXCEPT !.rsp = user_rsp']]
    /\ regs' = Blank
    /\ mode' = become("syscall")
    /\ leave_ring3
    /\ UNCHANGED <<current, stacks, saved, fork_frame, xmm, fpu, FS_BASE,
                   fs_base>>

\* The tail of syscall_entry: registers from the Frame, RSP from CpuLocal.
sysret ==
    /\ mode[current] = "syscall"
    /\ regs' = [kstack[sp[current]] EXCEPT !.rsp = user_rsp]
    /\ kstack' = pop(sp[current])
    /\ swapgs
    /\ mode' = become("user")
    /\ UNCHANGED <<current, user_rsp, stacks, sp, saved, fork_frame, xmm, fpu,
                   FS_BASE, fs_base, ghost>>

----------------------------------------------------------------------------
(* Handlers *)

\* ARCH_SET_FS; a TLS base is named by the task that set it.
sys_arch_prctl ==
    /\ mode[current] = "syscall"
    /\ FS_BASE' = current
    /\ fs_base' = [fs_base EXCEPT ![current] = current]
    /\ UNCHANGED <<current, mode, gate, stacks, sp, kstack, saved, fork_frame,
                   regs, xmm, fpu, ghost>>

\* The child gets the callee-saved registers and the RSP of the caller's
\* Frame, the caller's TLS base, and a default FPU image.
sys_fork ==
    /\ mode[current] = "syscall"
    /\ \E child \in Task :
          /\ mode[child] = "none"
          /\ mode' = [mode EXCEPT ![child] = "fork"]
          /\ fork_frame' = [fork_frame EXCEPT ![child] =
                              [kstack[sp[current]] EXCEPT !.arg = Junk]]
          /\ fs_base' = [fs_base EXCEPT ![child] = fs_base[current]]
          /\ fpu' = [fpu EXCEPT ![child] = Junk]
          /\ want' = [want EXCEPT ![child] = want[current]]
    /\ UNCHANGED <<current, gate, stacks, sp, kstack, saved, regs, xmm, FS_BASE,
                   fresh>>

\* A committed execve() leaves by IRETQ to a fresh stack, after its own SWAPGS.
sys_execve ==
    /\ mode[current] = "syscall"
    /\ swapgs
    /\ \E v \in Val : regs' = [Blank EXCEPT !.rsp = v]
    /\ want' = [want EXCEPT ![current] = image(regs', xmm)]
    /\ kstack' = pop(sp[current])
    /\ mode' = become("user")
    /\ UNCHANGED <<current, user_rsp, stacks, sp, saved, fork_frame, xmm, fpu,
                   FS_BASE, fs_base, fresh>>

\* Mutant: exit leaves the SWAPGS of its SYSCALL unpaired.
sys_exit_without_swapgs ==
    /\ mode[current] = "syscall"
    /\ schedule(become("dead"))
    /\ UNCHANGED <<gate, sp, kstack, saved, fork_frame, regs, fs_base, ghost>>

\* exit never reaches the tail of syscall_entry, so it does its own SWAPGS.
sys_exit ==
    /\ mode[current] = "syscall"
    /\ swapgs
    /\ schedule(become("dead"))
    /\ UNCHANGED <<user_rsp, sp, kstack, saved, fork_frame, regs, fs_base, ghost>>

\* wait4() and read(0) save user_rsp before their loop ...
begin_blocking ==
    /\ mode[current] = "syscall"
    /\ saved' = [saved EXCEPT ![current] = user_rsp]
    /\ mode' = become("loop")
    /\ UNCHANGED <<current, gate, stacks, sp, kstack, fork_frame, regs, xmm,
                   fpu, FS_BASE, fs_base, ghost>>

\* ... yield_blocking() first points both SWAPGS slots at CpuLocal ...
yield_blocking ==
    /\ mode[current] = "loop"
    /\ KERNEL_GS_BASE' = "local"
    /\ schedule(become("blocked"))
    /\ UNCHANGED <<GS_BASE, user_rsp, sp, kstack, saved, fork_frame, regs,
                   fs_base, ghost>>

\* ... and again when it is switched back to ...
yield_blocking_return ==
    /\ mode[current] = "blocked"
    /\ GS_BASE' = "local"
    /\ mode' = become("loop")
    /\ UNCHANGED <<current, KERNEL_GS_BASE, user_rsp, stacks, sp, kstack, saved,
                   fork_frame, regs, xmm, fpu, FS_BASE, fs_base, ghost>>

\* Mutant: user_rsp is not restored after the loop.
end_blocking_unrestored ==
    /\ mode[current] = "loop"
    /\ mode' = become("syscall")
    /\ UNCHANGED <<current, gate, stacks, sp, kstack, saved, fork_frame, regs,
                   xmm, fpu, FS_BASE, fs_base, ghost>>

\* ... and user_rsp is put back once the loop is done.
end_blocking ==
    /\ mode[current] = "loop"
    /\ user_rsp' = saved[current]
    /\ saved' = [saved EXCEPT ![current] = Junk]
    /\ mode' = become("syscall")
    /\ UNCHANGED <<current, GS_BASE, KERNEL_GS_BASE, stacks, sp, kstack,
                   fork_frame, regs, xmm, fpu, FS_BASE, fs_base, ghost>>

----------------------------------------------------------------------------
(* Interrupts; a task's first entry to ring 3; creation and reaping *)

\* The timer interrupts ring 3: the CPU takes the stack in TSS.RSP0, the stub
\* pushes every register, and the post-EOI hook switches away.  The IRQ stubs
\* do no SWAPGS.
irq_in_user ==
    /\ mode[current] = "user"
    /\ sp' = [sp EXCEPT ![current] = rsp0]
    /\ kstack' = [kstack EXCEPT ![rsp0] = regs]
    /\ regs' = Blank
    /\ schedule(become("preempted"))
    /\ leave_ring3
    /\ UNCHANGED <<gate, saved, fork_frame, fs_base>>

\* Switched back to in the IRQ: unwind it.
iretq ==
    /\ mode[current] = "preempted"
    /\ regs' = kstack[sp[current]]
    /\ kstack' = pop(sp[current])
    /\ mode' = become("user")
    /\ UNCHANGED <<current, gate, stacks, sp, saved, fork_frame, xmm,
                   fpu, FS_BASE, fs_base, ghost>>

\* The timer interrupts a task in the kernel with interrupts enabled.
irq_in_kernel ==
    /\ mode[current] \in {"new", "fork", "kernel"}
    /\ schedule(mode)
    /\ UNCHANGED <<gate, sp, kstack, saved, fork_frame, regs, fs_base, ghost>>

\* linux_task_entry() ends in enter_ring3() on the stack it built.
enter_ring3 ==
    /\ mode[current] = "new"
    /\ \E v \in Val : regs' = [Blank EXCEPT !.rsp = v]
    /\ want' = [want EXCEPT ![current] = image(regs', xmm)]
    /\ mode' = become("user")
    /\ UNCHANGED <<current, gate, stacks, sp, kstack, saved, fork_frame, xmm,
                   fpu, FS_BASE, fs_base, fresh>>

\* fork_enter_ring3(): callee-saved registers and RSP from the ForkFrame; the
\* argument and SSE registers are as the kernel and FXRSTOR left them.  What
\* the child must find is still its parent's image, see sys_fork.
fork_enter_ring3 ==
    /\ mode[current] = "fork"
    /\ regs' = fork_frame[current]
    /\ fork_frame' = [fork_frame EXCEPT ![current] = Blank]
    /\ fresh' = fresh \cup {current}
    /\ mode' = become("user")
    /\ UNCHANGED <<current, gate, stacks, sp, kstack, saved, xmm, fpu, FS_BASE,
                   fs_base, want>>

\* A task that failed to load returns to task_trampoline and exits there.
exit_in_kernel ==
    /\ mode[current] = "new"
    /\ schedule(become("dead"))
    /\ UNCHANGED <<gate, sp, kstack, saved, fork_frame, regs, fs_base, ghost>>

\* task::create() for spawn_from_elf(), called by the boot task.
spawn_from_elf ==
    /\ current = Boot
    /\ \E t \in Task : /\ mode[t] = "none"
                       /\ mode' = [mode EXCEPT ![t] = "new"]
                       /\ fpu' = [fpu EXCEPT ![t] = Junk]
                       /\ fs_base' = [fs_base EXCEPT ![t] = Junk]
    /\ UNCHANGED <<current, gate, stacks, sp, kstack, saved, fork_frame, regs,
                   xmm, FS_BASE, ghost>>

\* reap_zombie() or a parent's wait4() frees a dead task.
free_task ==
    /\ \E t \in Task :
          /\ mode[t] = "dead"
          /\ mode' = [mode EXCEPT ![t] = "none"]
          /\ sp' = [sp EXCEPT ![t] = t]
          /\ kstack' = pop(t)
          /\ fpu' = [fpu EXCEPT ![t] = Junk]
          /\ fs_base' = [fs_base EXCEPT ![t] = Junk]
          /\ want' = [want EXCEPT ![t] = image(Blank, Junk)]
    /\ UNCHANGED <<current, gate, stacks, saved, fork_frame, regs, xmm,
                   FS_BASE, fresh>>

----------------------------------------------------------------------------

\* cpu::init() sets KERNEL_GS_BASE; the boot task is running, idle waits.
Init ==
    /\ current = Boot
    /\ mode = [t \in All |-> IF t \in Task THEN "none" ELSE "kernel"]
    /\ GS_BASE = "user" /\ KERNEL_GS_BASE = "local"
    /\ user_rsp = Junk
    /\ kernel_rsp = Boot /\ rsp0 = Boot
    /\ sp = [t \in All |-> t]
    /\ kstack = [t \in All |-> Blank]
    /\ saved = [t \in All |-> Junk]
    /\ fork_frame = [t \in All |-> Blank]
    /\ regs = Blank
    /\ xmm = Junk /\ fpu = [t \in All |-> Junk]
    /\ FS_BASE = Junk /\ fs_base = [t \in All |-> Junk]
    /\ want = [t \in All |-> image(Blank, Junk)] /\ fresh = {}

Next ==
    \/ user_compute \/ syscall_entry \/ sysret
    \/ sys_arch_prctl \/ sys_fork \/ sys_execve \/ sys_exit
    \/ begin_blocking \/ yield_blocking \/ yield_blocking_return \/ end_blocking
    \/ irq_in_user \/ iretq \/ irq_in_kernel
    \/ enter_ring3 \/ fork_enter_ring3 \/ exit_in_kernel
    \/ spawn_from_elf \/ free_task

Spec == Init /\ [][Next]_vars

----------------------------------------------------------------------------
(* Properties *)

\* Every register, slot and stack holds a value of its type; the stack slots
\* never hold the boot task's missing kernel stack.
TypeOK ==
    /\ current \in All /\ mode \in [All -> Mode]
    /\ GS_BASE \in {"local", "user"} /\ KERNEL_GS_BASE \in {"local", "user"}
    /\ user_rsp \in Reg
    /\ kernel_rsp \in All /\ rsp0 \in All /\ sp \in [All -> All]
    /\ kstack \in [All -> Frame] /\ saved \in [All -> Reg]
    /\ fork_frame \in [All -> Frame] /\ regs \in Frame
    /\ xmm \in Reg /\ fpu \in [All -> Reg]
    /\ FS_BASE \in Base /\ fs_base \in [All -> Base]
    /\ want \in [All -> Image] /\ fresh \subseteq Task

\* Inside a system call GS reaches CpuLocal; outside one the next SWAPGS will,
\* whichever task executes it and however the previous ones left the kernel.
GsReachesCpuLocal ==
    IF mode[current] \in {"syscall", "loop"}
    THEN GS_BASE = "local" ELSE KERNEL_GS_BASE = "local"

\* A task with a kernel stack runs with both entry stacks set to its own, so a
\* SYSCALL or an IRQ never lands on the stack of a task that is switched away.
EntersOnOwnStack ==
    current # Boot => kernel_rsp = current /\ rsp0 = current

\* Back in ring 3, through SYSRET, IRETQ or after blocking, a program finds
\* its registers, stack pointer and SSE state as it left them, whatever other
\* tasks did in between.  A fork child finds its parent's callee-saved
\* registers and stack pointer; its argument and SSE registers are excepted
\* until it leaves ring 3 again, see ForkChildIsParent.
ReturnsIntact ==
    mode[current] = "user" =>
        /\ regs.callee = want[current].callee
        /\ regs.rsp = want[current].rsp
        /\ current \notin fresh => /\ regs.arg = want[current].arg
                                   /\ xmm = want[current].xmm

\* The TLS base in the CPU is the running task's own.
TlsIsLoaded == FS_BASE = fs_base[current]

\* What the proof needs besides.  Only the current task is in ring 3 or in a
\* handler; boot and idle never are.
OnlyCurrentRuns ==
    /\ \A t \in All : mode[t] \in {"user", "syscall", "loop"} => t = current
    /\ \A t \in {Boot, Idle} : mode[t] = "kernel"
    /\ mode[current] \notin {"none", "dead"}

\* Whoever is away from ring 3 has the registers it must come back with: the
\* frame on its own stack, and the RSP in CpuLocal, in its blocking handler's
\* local or in that frame; the SSE registers live or in its FPU area.
Away == {"syscall", "loop", "blocked", "preempted"}
ImagesAreKept ==
    /\ \A t \in All : mode[t] \in Away =>
          /\ sp[t] = t
          /\ kstack[t].callee = want[t].callee
          /\ kstack[t].arg = want[t].arg
          /\ kstack[t].rsp = want[t].rsp
    /\ mode[current] = "syscall" => user_rsp = want[current].rsp
    /\ \A t \in All : mode[t] \in {"loop", "blocked"} => saved[t] = want[t].rsp
    /\ \A t \in All : mode[t] \in Away =>
          want[t].xmm = IF t = current THEN xmm ELSE fpu[t]
    /\ \A t \in All : mode[t] = "fork" =>
          /\ fork_frame[t].callee = want[t].callee
          /\ fork_frame[t].rsp = want[t].rsp
    /\ \A t \in fresh : mode[t] = "user"

\* The inductive invariant: every door into and out of the kernel keeps it.
GateInv ==
    /\ TypeOK
    /\ GsReachesCpuLocal
    /\ EntersOnOwnStack
    /\ ReturnsIntact
    /\ TlsIsLoaded
    /\ OnlyCurrentRuns
    /\ ImagesAreKept

----------------------------------------------------------------------------
(* What the comments say and the code does not do *)

\* fork_entry.asm on fork_enter_ring3(): the child resumes in ring 3 identical
\* to the parent bar rax.  In its first registers in ring 3 a fork child finds
\* every register, argument and SSE ones included, as fork() left the parent's.
ForkChildIsParent ==
    current \in fresh => image(regs, xmm) = want[current]

============================================================================
