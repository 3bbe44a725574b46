------------------------- MODULE SyscallGateProofs -------------------------
(***************************************************************************)
(* Proofs about SyscallGate: whatever tasks do and however the timer       *)
(* interleaves them, GS reaches CpuLocal at every entry, every entry is on *)
(* the running task's own kernel stack, and a task comes back to ring 3    *)
(* with its own registers, SSE state and TLS base (a fork child, with its  *)
(* parent's callee-saved registers and stack pointer).                     *)
(*                                                                         *)
(* GateInv is inductive.  ReturnsIntact alone is not: what a task finds in *)
(* ring 3 was saved several steps earlier, so ImagesAreKept follows it     *)
(* through its kernel stack, CpuLocal, the blocking handler's local and    *)
(* the FPU area, and OnlyCurrentRuns says that nobody else writes CpuLocal *)
(* in between.                                                             *)
(***************************************************************************)
EXTENDS SyscallGate, TLAPS

\* The state cpu::init() and sched::init() leave satisfies the invariant.
LEMMA GateInit == Init => GateInv
  BY GateAssumption DEF Init, GateInv, TypeOK, GsReachesCpuLocal,
     EntersOnOwnStack, ReturnsIntact, TlsIsLoaded, OnlyCurrentRuns,
     ImagesAreKept, All, Mode, Reg, Frame, Image, Base, Blank, image, Away

\* Every door in or out of the kernel, and every step between two, keeps it.
LEMMA GateStep == GateInv /\ [Next]_vars => GateInv'
<1> SUFFICES ASSUME GateInv, [Next]_vars PROVE GateInv'
  OBVIOUS
<1> USE GateAssumption DEF GateInv, All, gate, stacks, become, schedule, pop, ghost, leave_ring3
<1>1. CASE user_compute
  <2>1. TypeOK'
    BY <1>1 DEF user_compute, TypeOK, Reg, Frame, Image, image
  <2>2. GsReachesCpuLocal'
    BY <1>1 DEF user_compute, GsReachesCpuLocal
  <2>3. EntersOnOwnStack'
    BY <1>1 DEF user_compute, EntersOnOwnStack
  <2>4. ReturnsIntact'
    BY <1>1 DEF user_compute, ReturnsIntact, TypeOK, image
  <2>5. TlsIsLoaded'
    BY <1>1 DEF user_compute, TlsIsLoaded
  <2>6. OnlyCurrentRuns'
    BY <1>1 DEF user_compute, OnlyCurrentRuns
  <2>7. ImagesAreKept'
    BY <1>1 DEF user_compute, ImagesAreKept, Away
  <2> QED
    BY <2>1, <2>2, <2>3, <2>4, <2>5, <2>6, <2>7
<1>2. CASE syscall_entry
  <2>1. TypeOK'
    BY <1>2 DEF syscall_entry, TypeOK, Mode, Reg, Frame, Image, Blank, image,
       swapgs
  <2>2. GsReachesCpuLocal'
    BY <1>2 DEF syscall_entry, GsReachesCpuLocal, TypeOK, swapgs
  <2>3. EntersOnOwnStack'
    BY <1>2 DEF syscall_entry, EntersOnOwnStack
  <2>4. ReturnsIntact'
    BY <1>2 DEF syscall_entry, ReturnsIntact, TypeOK
  <2>5. TlsIsLoaded'
    BY <1>2 DEF syscall_entry, TlsIsLoaded
  <2>6. OnlyCurrentRuns'
    BY <1>2 DEF syscall_entry, OnlyCurrentRuns
  <2>7. ImagesAreKept'
    BY <1>2 DEF syscall_entry, ImagesAreKept, TypeOK, OnlyCurrentRuns,
       EntersOnOwnStack, ReturnsIntact, GsReachesCpuLocal, image, swapgs
  <2> QED
    BY <2>1, <2>2, <2>3, <2>4, <2>5, <2>6, <2>7
<1>3. CASE sysret
  <2>1. TypeOK'
    BY <1>3 DEF sysret, TypeOK, Mode, Reg, Frame, Blank, swapgs
  <2>2. GsReachesCpuLocal'
    BY <1>3 DEF sysret, GsReachesCpuLocal, TypeOK, swapgs
  <2>3. EntersOnOwnStack'
    BY <1>3 DEF sysret, EntersOnOwnStack
  <2>4. ReturnsIntact'
    BY <1>3 DEF sysret, ReturnsIntact, TypeOK, ImagesAreKept, Away
  <2>5. TlsIsLoaded'
    BY <1>3 DEF sysret, TlsIsLoaded
  <2>6. OnlyCurrentRuns'
    BY <1>3 DEF sysret, OnlyCurrentRuns
  <2>7. ImagesAreKept'
    BY <1>3 DEF sysret, ImagesAreKept, TypeOK, Away
  <2> QED
    BY <2>1, <2>2, <2>3, <2>4, <2>5, <2>6, <2>7
<1>4. CASE sys_arch_prctl
  <2>1. TypeOK'
    BY <1>4 DEF sys_arch_prctl, TypeOK, OnlyCurrentRuns, Base
  <2>2. GsReachesCpuLocal'
    BY <1>4 DEF sys_arch_prctl, GsReachesCpuLocal
  <2>3. EntersOnOwnStack'
    BY <1>4 DEF sys_arch_prctl, EntersOnOwnStack
  <2>4. ReturnsIntact'
    BY <1>4 DEF sys_arch_prctl, ReturnsIntact
  <2>5. TlsIsLoaded'
    BY <1>4 DEF sys_arch_prctl, TlsIsLoaded, TypeOK
  <2>6. OnlyCurrentRuns'
    BY <1>4 DEF sys_arch_prctl, OnlyCurrentRuns
  <2>7. ImagesAreKept'
    BY <1>4 DEF sys_arch_prctl, ImagesAreKept
  <2> QED
    BY <2>1, <2>2, <2>3, <2>4, <2>5, <2>6, <2>7
<1>5. CASE sys_fork
  <2>1. TypeOK'
    BY <1>5 DEF sys_fork, TypeOK, Mode, Reg, Frame
  <2>2. GsReachesCpuLocal'
    BY <1>5 DEF sys_fork, GsReachesCpuLocal
  <2>3. EntersOnOwnStack'
    BY <1>5 DEF sys_fork, EntersOnOwnStack
  <2>4. ReturnsIntact'
    BY <1>5 DEF sys_fork, ReturnsIntact
  <2>5. TlsIsLoaded'
    BY <1>5 DEF sys_fork, TlsIsLoaded
  <2>6. OnlyCurrentRuns'
    BY <1>5 DEF sys_fork, OnlyCurrentRuns
  <2>7. ImagesAreKept'
    BY <1>5 DEF sys_fork, ImagesAreKept, TypeOK, Away
  <2> QED
    BY <2>1, <2>2, <2>3, <2>4, <2>5, <2>6, <2>7
<1>6. CASE sys_execve
  <2>1. TypeOK'
    BY <1>6 DEF sys_execve, TypeOK, Mode, Reg, Frame, Image, Blank, image,
       swapgs
  <2>2. GsReachesCpuLocal'
    BY <1>6 DEF sys_execve, GsReachesCpuLocal, TypeOK, swapgs
  <2>3. EntersOnOwnStack'
    BY <1>6 DEF sys_execve, EntersOnOwnStack
  <2>4. ReturnsIntact'
    BY <1>6 DEF sys_execve, ReturnsIntact, TypeOK, Blank, image
  <2>5. TlsIsLoaded'
    BY <1>6 DEF sys_execve, TlsIsLoaded
  <2>6. OnlyCurrentRuns'
    BY <1>6 DEF sys_execve, OnlyCurrentRuns
  <2>7. ImagesAreKept'
    BY <1>6 DEF sys_execve, ImagesAreKept, TypeOK, Away
  <2> QED
    BY <2>1, <2>2, <2>3, <2>4, <2>5, <2>6, <2>7
<1>7. CASE sys_exit
  <2>1. TypeOK'
    BY <1>7 DEF sys_exit, TypeOK, Mode, swapgs, load_stacks, stack_of,
       load_tls, switch_fpu
  <2>2. GsReachesCpuLocal'
    BY <1>7 DEF sys_exit, GsReachesCpuLocal, OnlyCurrentRuns, swapgs
  <2>3. EntersOnOwnStack'
    BY <1>7 DEF sys_exit, EntersOnOwnStack, load_stacks, stack_of
  <2>4. ReturnsIntact'
    BY <1>7 DEF sys_exit, ReturnsIntact, OnlyCurrentRuns
  <2>5. TlsIsLoaded'
    BY <1>7 DEF sys_exit, TlsIsLoaded, load_tls
  <2>6. OnlyCurrentRuns'
    BY <1>7 DEF sys_exit, OnlyCurrentRuns, TypeOK, Runnable
  <2>7. ImagesAreKept'
    BY <1>7 DEF sys_exit, ImagesAreKept, TypeOK, OnlyCurrentRuns, Away,
       switch_fpu
  <2> QED
    BY <2>1, <2>2, <2>3, <2>4, <2>5, <2>6, <2>7
<1>8. CASE begin_blocking
  <2>1. TypeOK'
    BY <1>8 DEF begin_blocking, TypeOK, Mode
  <2>2. GsReachesCpuLocal'
    BY <1>8 DEF begin_blocking, GsReachesCpuLocal
  <2>3. EntersOnOwnStack'
    BY <1>8 DEF begin_blocking, EntersOnOwnStack
  <2>4. ReturnsIntact'
    BY <1>8 DEF begin_blocking, ReturnsIntact
  <2>5. TlsIsLoaded'
    BY <1>8 DEF begin_blocking, TlsIsLoaded
  <2>6. OnlyCurrentRuns'
    BY <1>8 DEF begin_blocking, OnlyCurrentRuns
  <2>7. ImagesAreKept'
    BY <1>8 DEF begin_blocking, ImagesAreKept, TypeOK, Away
  <2> QED
    BY <2>1, <2>2, <2>3, <2>4, <2>5, <2>6, <2>7
<1>9. CASE yield_blocking
  <2>1. TypeOK'
    BY <1>9 DEF yield_blocking, TypeOK, Mode, load_stacks, stack_of, load_tls,
       switch_fpu
  <2>2. GsReachesCpuLocal'
    BY <1>9 DEF yield_blocking, GsReachesCpuLocal
  <2>3. EntersOnOwnStack'
    BY <1>9 DEF yield_blocking, EntersOnOwnStack, load_stacks, stack_of
  <2>4. ReturnsIntact'
    BY <1>9 DEF yield_blocking, ReturnsIntact, OnlyCurrentRuns
  <2>5. TlsIsLoaded'
    BY <1>9 DEF yield_blocking, TlsIsLoaded, load_tls
  <2>6. OnlyCurrentRuns'
    BY <1>9 DEF yield_blocking, OnlyCurrentRuns, TypeOK, Runnable
  <2>7. ImagesAreKept'
    BY <1>9 DEF yield_blocking, ImagesAreKept, TypeOK, OnlyCurrentRuns, Away,
       switch_fpu
  <2> QED
    BY <2>1, <2>2, <2>3, <2>4, <2>5, <2>6, <2>7
<1>10. CASE yield_blocking_return
  <2>1. TypeOK'
    BY <1>10 DEF yield_blocking_return, TypeOK, Mode
  <2>2. GsReachesCpuLocal'
    BY <1>10 DEF yield_blocking_return, GsReachesCpuLocal
  <2>3. EntersOnOwnStack'
    BY <1>10 DEF yield_blocking_return, EntersOnOwnStack
  <2>4. ReturnsIntact'
    BY <1>10 DEF yield_blocking_return, ReturnsIntact
  <2>5. TlsIsLoaded'
    BY <1>10 DEF yield_blocking_return, TlsIsLoaded
  <2>6. OnlyCurrentRuns'
    BY <1>10 DEF yield_blocking_return, OnlyCurrentRuns
  <2>7. ImagesAreKept'
    BY <1>10 DEF yield_blocking_return, ImagesAreKept, Away
  <2> QED
    BY <2>1, <2>2, <2>3, <2>4, <2>5, <2>6, <2>7
<1>11. CASE end_blocking
  <2>1. TypeOK'
    BY <1>11 DEF end_blocking, TypeOK, Mode, Reg
  <2>2. GsReachesCpuLocal'
    BY <1>11 DEF end_blocking, GsReachesCpuLocal
  <2>3. EntersOnOwnStack'
    BY <1>11 DEF end_blocking, EntersOnOwnStack
  <2>4. ReturnsIntact'
    BY <1>11 DEF end_blocking, ReturnsIntact
  <2>5. TlsIsLoaded'
    BY <1>11 DEF end_blocking, TlsIsLoaded
  <2>6. OnlyCurrentRuns'
    BY <1>11 DEF end_blocking, OnlyCurrentRuns
  <2>7. ImagesAreKept'
    BY <1>11 DEF end_blocking, ImagesAreKept, TypeOK, Away
  <2> QED
    BY <2>1, <2>2, <2>3, <2>4, <2>5, <2>6, <2>7
<1>12. CASE irq_in_user
  <2>1. TypeOK'
    BY <1>12 DEF irq_in_user, TypeOK, Mode, Reg, Frame, Image, Blank, image,
       load_stacks, stack_of, load_tls, switch_fpu
  <2>2. GsReachesCpuLocal'
    BY <1>12 DEF irq_in_user, GsReachesCpuLocal, OnlyCurrentRuns
  <2>3. EntersOnOwnStack'
    BY <1>12 DEF irq_in_user, EntersOnOwnStack, load_stacks, stack_of
  <2>4. ReturnsIntact'
    BY <1>12 DEF irq_in_user, ReturnsIntact, OnlyCurrentRuns
  <2>5. TlsIsLoaded'
    BY <1>12 DEF irq_in_user, TlsIsLoaded, load_tls
  <2>6. OnlyCurrentRuns'
    BY <1>12 DEF irq_in_user, OnlyCurrentRuns, TypeOK, Runnable
  <2>7. ImagesAreKept'
    BY <1>12 DEF irq_in_user, ImagesAreKept, TypeOK, OnlyCurrentRuns,
       EntersOnOwnStack, ReturnsIntact, image, switch_fpu
  <2> QED
    BY <2>1, <2>2, <2>3, <2>4, <2>5, <2>6, <2>7
<1>13. CASE iretq
  <2>1. TypeOK'
    BY <1>13 DEF iretq, TypeOK, Mode, Reg, Frame, Blank
  <2>2. GsReachesCpuLocal'
    BY <1>13 DEF iretq, GsReachesCpuLocal
  <2>3. EntersOnOwnStack'
    BY <1>13 DEF iretq, EntersOnOwnStack
  <2>4. ReturnsIntact'
    BY <1>13 DEF iretq, ReturnsIntact, TypeOK, ImagesAreKept, Away
  <2>5. TlsIsLoaded'
    BY <1>13 DEF iretq, TlsIsLoaded
  <2>6. OnlyCurrentRuns'
    BY <1>13 DEF iretq, OnlyCurrentRuns
  <2>7. ImagesAreKept'
    BY <1>13 DEF iretq, ImagesAreKept, TypeOK, Away
  <2> QED
    BY <2>1, <2>2, <2>3, <2>4, <2>5, <2>6, <2>7
<1>14. CASE irq_in_kernel
  <2>1. TypeOK'
    BY <1>14 DEF irq_in_kernel, TypeOK, load_stacks, stack_of, load_tls,
       switch_fpu
  <2>2. GsReachesCpuLocal'
    BY <1>14 DEF irq_in_kernel, GsReachesCpuLocal, OnlyCurrentRuns
  <2>3. EntersOnOwnStack'
    BY <1>14 DEF irq_in_kernel, EntersOnOwnStack, load_stacks, stack_of
  <2>4. ReturnsIntact'
    BY <1>14 DEF irq_in_kernel, ReturnsIntact, OnlyCurrentRuns
  <2>5. TlsIsLoaded'
    BY <1>14 DEF irq_in_kernel, TlsIsLoaded, load_tls
  <2>6. OnlyCurrentRuns'
    BY <1>14 DEF irq_in_kernel, OnlyCurrentRuns, Runnable
  <2>7. ImagesAreKept'
    BY <1>14 DEF irq_in_kernel, ImagesAreKept, TypeOK, OnlyCurrentRuns,
       switch_fpu
  <2> QED
    BY <2>1, <2>2, <2>3, <2>4, <2>5, <2>6, <2>7
<1>15. CASE enter_ring3
  <2>1. TypeOK'
    BY <1>15 DEF enter_ring3, TypeOK, Mode, Reg, Frame, Image, Blank, image
  <2>2. GsReachesCpuLocal'
    BY <1>15 DEF enter_ring3, GsReachesCpuLocal
  <2>3. EntersOnOwnStack'
    BY <1>15 DEF enter_ring3, EntersOnOwnStack
  <2>4. ReturnsIntact'
    BY <1>15 DEF enter_ring3, ReturnsIntact, TypeOK, Blank, image
  <2>5. TlsIsLoaded'
    BY <1>15 DEF enter_ring3, TlsIsLoaded
  <2>6. OnlyCurrentRuns'
    BY <1>15 DEF enter_ring3, OnlyCurrentRuns
  <2>7. ImagesAreKept'
    BY <1>15 DEF enter_ring3, ImagesAreKept, Away
  <2> QED
    BY <2>1, <2>2, <2>3, <2>4, <2>5, <2>6, <2>7
<1>16. CASE fork_enter_ring3
  <2>1. TypeOK'
    BY <1>16 DEF fork_enter_ring3, TypeOK, OnlyCurrentRuns, Mode, Reg, Frame,
       Blank
  <2>2. GsReachesCpuLocal'
    BY <1>16 DEF fork_enter_ring3, GsReachesCpuLocal
  <2>3. EntersOnOwnStack'
    BY <1>16 DEF fork_enter_ring3, EntersOnOwnStack
  <2>4. ReturnsIntact'
    BY <1>16 DEF fork_enter_ring3, ReturnsIntact, TypeOK, ImagesAreKept
  <2>5. TlsIsLoaded'
    BY <1>16 DEF fork_enter_ring3, TlsIsLoaded
  <2>6. OnlyCurrentRuns'
    BY <1>16 DEF fork_enter_ring3, OnlyCurrentRuns
  <2>7. ImagesAreKept'
    BY <1>16 DEF fork_enter_ring3, ImagesAreKept, TypeOK, Away
  <2> QED
    BY <2>1, <2>2, <2>3, <2>4, <2>5, <2>6, <2>7
<1>17. CASE exit_in_kernel
  <2>1. TypeOK'
    BY <1>17 DEF exit_in_kernel, TypeOK, Mode, load_stacks, stack_of,
       load_tls, switch_fpu
  <2>2. GsReachesCpuLocal'
    BY <1>17 DEF exit_in_kernel, GsReachesCpuLocal, OnlyCurrentRuns
  <2>3. EntersOnOwnStack'
    BY <1>17 DEF exit_in_kernel, EntersOnOwnStack, load_stacks, stack_of
  <2>4. ReturnsIntact'
    BY <1>17 DEF exit_in_kernel, ReturnsIntact, OnlyCurrentRuns
  <2>5. TlsIsLoaded'
    BY <1>17 DEF exit_in_kernel, TlsIsLoaded, load_tls
  <2>6. OnlyCurrentRuns'
    BY <1>17 DEF exit_in_kernel, OnlyCurrentRuns, Runnable
  <2>7. ImagesAreKept'
    BY <1>17 DEF exit_in_kernel, ImagesAreKept, OnlyCurrentRuns, Away,
       switch_fpu
  <2> QED
    BY <2>1, <2>2, <2>3, <2>4, <2>5, <2>6, <2>7
<1>18. CASE spawn_from_elf
  <2>1. TypeOK'
    BY <1>18 DEF spawn_from_elf, TypeOK, Mode, Reg, Base
  <2>2. GsReachesCpuLocal'
    BY <1>18 DEF spawn_from_elf, GsReachesCpuLocal
  <2>3. EntersOnOwnStack'
    BY <1>18 DEF spawn_from_elf, EntersOnOwnStack
  <2>4. ReturnsIntact'
    BY <1>18 DEF spawn_from_elf, ReturnsIntact
  <2>5. TlsIsLoaded'
    BY <1>18 DEF spawn_from_elf, TlsIsLoaded
  <2>6. OnlyCurrentRuns'
    BY <1>18 DEF spawn_from_elf, OnlyCurrentRuns
  <2>7. ImagesAreKept'
    BY <1>18 DEF spawn_from_elf, ImagesAreKept, Away
  <2> QED
    BY <2>1, <2>2, <2>3, <2>4, <2>5, <2>6, <2>7
<1>19. CASE free_task
  <2>1. TypeOK'
    BY <1>19 DEF free_task, TypeOK, Mode, Reg, Frame, Image, Base, Blank,
       image
  <2>2. GsReachesCpuLocal'
    BY <1>19 DEF free_task, GsReachesCpuLocal
  <2>3. EntersOnOwnStack'
    BY <1>19 DEF free_task, EntersOnOwnStack
  <2>4. ReturnsIntact'
    BY <1>19 DEF free_task, ReturnsIntact
  <2>5. TlsIsLoaded'
    BY <1>19 DEF free_task, TlsIsLoaded, OnlyCurrentRuns
  <2>6. OnlyCurrentRuns'
    BY <1>19 DEF free_task, OnlyCurrentRuns
  <2>7. ImagesAreKept'
    BY <1>19 DEF free_task, ImagesAreKept, Away
  <2> QED
    BY <2>1, <2>2, <2>3, <2>4, <2>5, <2>6, <2>7
<1>20. CASE UNCHANGED vars
  BY <1>20 DEF vars, TypeOK, GsReachesCpuLocal, EntersOnOwnStack,
     ReturnsIntact, TlsIsLoaded, OnlyCurrentRuns, ImagesAreKept
<1> QED
  BY <1>1, <1>2, <1>3, <1>4, <1>5, <1>6, <1>7, <1>8, <1>9, <1>10, <1>11,
     <1>12, <1>13, <1>14, <1>15, <1>16, <1>17, <1>18, <1>19, <1>20 DEF Next

\* The inductive invariant holds in every reachable state, for any number of
\* tasks and any register contents.
THEOREM GateInvariant == Spec => []GateInv
  BY GateInit, GateStep, PTL DEF Spec

\* SWAPGS is balanced across SYSRET, exit, execve and blocking calls.
THEOREM GsSafety == Spec => []GsReachesCpuLocal
<1>1. GateInv => GsReachesCpuLocal
  BY DEF GateInv
<1> QED
  BY <1>1, GateInvariant, PTL

\* The stack of SYSCALL (CpuLocal::kernel_rsp) and that of interrupts (TSS::rsp0)
\* are both the running task's own after every switch, exit and execve.
THEOREM EntryStackSafety == Spec => []EntersOnOwnStack
<1>1. GateInv => EntersOnOwnStack
  BY DEF GateInv
<1> QED
  BY <1>1, GateInvariant, PTL

\* A program that is back in ring 3 finds its registers, its stack pointer and
\* its SSE state, whatever ran in between; a fork child that has not left ring
\* 3 yet, its parent's callee-saved registers and stack pointer.
THEOREM ReturnSafety == Spec => []ReturnsIntact
<1>1. GateInv => ReturnsIntact
  BY DEF GateInv
<1> QED
  BY <1>1, GateInvariant, PTL

\* The TLS base in the CPU is the running task's own.
THEOREM TlsSafety == Spec => []TlsIsLoaded
<1>1. GateInv => TlsIsLoaded
  BY DEF GateInv
<1> QED
  BY <1>1, GateInvariant, PTL

=============================================================================
