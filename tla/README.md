# retux in TLA+

retux is a single-CPU x86-64 kernel in C++ that boots from GRUB, mounts an
initrd, and runs statically linked Linux programs in ring 3 with a small part of
the Linux system call interface. This directory holds TLA+ models of its core,
TLC configurations that check them on small instances, and TLAPS proofs. Source
paths below are relative to `src/` of the repository (`task/sched.cpp` is
`src/task/sched.cpp`).

## 1. The system

| Component | State it keeps | Operations | Talks to |
|---|---|---|---|
| Scheduler, task life cycle (`task/sched.cpp`, `task/task.cpp`) | circular run queue, `current_`, `zombie_`, `ticks_left_`, `Task` blocks | `spawn`, `schedule`, `maybe_reschedule`, `exit_current`, `wait4`, `reap_zombie` | heap (blocks), page tables (CR3), entry code |
| fork, execve (`task/fork.cpp`, `task/user.cpp`) | `ForkFrame`, argument copies | `sys_fork`, `sys_execve`, `linux_task_entry`, `fork_child_entry` | scheduler, page tables, ELF loader, descriptors |
| System call entry, context switch (`cpu/syscall_entry.asm`, `task/switch.asm`, `cpu/isr.asm`) | `CpuLocal`, the two GS bases, TSS.RSP0, FS base, FPU areas, kernel stacks | SYSCALL/SYSRET, IRQ/IRETQ, `switch_to`, `yield_blocking` | every blocking call, scheduler |
| Boot, ACPI (`main.cpp`, `boot/acpi.cpp`) | line-to-interrupt map, I/O APICs, HPET | `kernel_main`, `acpi::init` | everything |
| Interrupt routing and dispatch (`cpu/apic.cpp`, `cpu/irq.cpp`) | redirection table, gates, handlers, the post-EOI hook | `init_ioapic`, `set_irq_mask`, `register_handler`, `irq_common_handler` | timers, scheduler, keyboard |
| Timers (`io/hpet.cpp`, `io/pit.cpp`) | tick count, callback | `init`, interrupt handler | scheduler, /proc |
| Kernel heap (`mem/heap.cpp`) | boundary-tagged blocks, free list, `heap_end` | `kmalloc`, `kfree`, `grow_heap` | frames, page tables |
| Frames (`mem/pmm.cpp`), page tables (`mem/vmm.cpp`) | bitmap; 4-level tables, shared kernel entries | `alloc_frame`, `free_frame`, `map`, `unmap`, `protect`, create/clone/destroy | heap, all memory calls |
| ELF loader (`task/elf.cpp`) | none | `load` | page tables, VFS |
| System calls (`cpu/syscall.cpp`) | line buffer of stdin, a task's `brk_*`, `mmap_next`, `fds[]` | one handler per call | everything |
| VFS, tarfs, procfs (`fs/*.cpp`) | mounts, node table, `File` objects | mount, `lookup_path`, `open`, `read`, `readdir`, `close` | heap, descriptors |
| Keyboard (`io/keyboard.cpp`) | ring of 64 characters, modifiers | handler, `getchar` | stdin, consoles |
| Consoles (`tty/tty.cpp`) | 4 text buffers with cursors, active one, VGA memory | `print`, `switch_to` | write, echo, Alt+Fn |
| Partitions, ext2 (`fs/partition.cpp`, `fs/ext2.cpp`) | one partition context, `Ext2State`, inodes read at open | `scan`, `mount`, `ext2_read`, `ext2_readdir` | VFS, AHCI |
| AHCI (`dev/ahci.cpp`) | one port, command slot 0, a bounce frame per command | `init`, `read_sectors`, `issue_and_wait` | frames, the drive (DMA) |

### What is hard here

Everything runs on one CPU. A SYSCALL masks interrupts (`cpu/syscall.cpp`,
`syscall::init`), so a handler is atomic up to the point where it calls
`schedule()`; everything else (ring 3, the boot and idle loops, a new task's
entry function, the exit path of an entry function that returns) can be preempted
between any two instructions. The difficult behaviours follow from that:

* freeing a task, its stack and its page tables from *another* task's
  `schedule()`, with raw pointers to it kept across blocking loops;
* CPU-wide state (GS bases, `CpuLocal`, TSS.RSP0, FS base, SSE registers, CR3)
  that every door into and out of the kernel leaves for whichever task is next;
* the shared line buffer and ring of standard input, used by several blocked
  readers and an interrupt handler;
* failures half-way (execve, the ELF loader, a full table) that have to be undone;
* memory recycled long after a mistake: heap blocks, frames, `File` objects;
* a drive that answers by DMA when it likes, or not at all, while the driver counts
  polls;
* the boot itself, with interrupts enabled long before what they need is set up;
* entry functions, which use the heap and the frame allocator *without* masked
  interrupts.

The correctness properties that answer these, per component:

* scheduler: the ring is exactly the allocated tasks; what is reaped is dead and
  unclaimed; the child a `wait4()` waits for is not freed; one owner per address
  space; no starvation, no lost wake-up, no zombie for ever;
* entry code: SWAPGS balanced, entries on the own stack, registers/SSE/TLS intact;
* heap: blocks tile the heap, tags agree, growth suffices; an abstract allocator;
* memory: each frame has one owner, the kernel part is the same everywhere, the
  break is where the window ends; an abstract private memory per task;
* files: lookups say what the archive says; descriptors name live Files; an
  abstract descriptor table;
* stdin: a queue, edited lines handed out once and in order, readers wake up;
* consoles: the screen is the active console at every moment;
* interrupts: each one finds its gate and its driver, from the first `sti` on; an
  expired timeslice is honoured;
* disk: what a read returns is what the disk holds; files whole or not at all, each
  directory entry once; the right partition is mounted; every call returns.

`PROJECT.json` lists the hazards line by line under `hazards`.

## 2. Modules

```
Sched ── SchedProofs            SyscallGate ── SyscallGateProofs
Allocator ◁── Heap ── HeapPreempt
                 └── HeapProofs
VirtualMemory ◁── AddressSpace ── AddressSpaceProofs
Tarfs ── Files ── FilesRefinement ── FilesProofs
                         └──▷ Descriptors
Tty ── Stdin ──┐
  Interrupts ──┴── Console ── ConsoleProofs
Ahci, Ext2 ── Storage ── StorageProofs
NumberFacts ── the *Proofs modules but SyscallGateProofs
```
(`──` EXTENDS; `──▷` implements, by `INSTANCE ... WITH`. `MC*.tla` only define
constants and symmetry for TLC. `NumberFacts` proves the least-element principle
that stands in for induction, see section 4, and facts about division, rounding and
pieces of sequences.)

**Sched** models tasks from creation to the reuse of their block. `ring` is the
sequence met when walking `next` from `current_`, so `ring[1]` is `current_` and
`RotateTo` is the assignment to `current_`. `task` is the content of every `Task`
block, named by its heap address, so that reuse after `free_task()` is visible.
`pc` says where a task's code stands when it is switched away. `schedule(tk, z)`
is the whole function: reaping first, then choosing, refilling the timeslice,
state changes and CR3; callers pass in the tasks and the zombie as they have just
changed them. `exit_current()` is one step from `sys_exit` (interrupts masked) and
two, `exit_current_mark` and `exit_current_finish`, from a returning entry
function (interrupts enabled). `timer_irq` is the tick with its post-EOI hook.
`sys_fork` and `sys_execve` keep the scheduling half of those calls.

**SyscallGate** models the registers. `GS_BASE`/`KERNEL_GS_BASE` point at
`CpuLocal` or elsewhere; `user_rsp`, `kernel_rsp` and `rsp0` are the single copies
in `CpuLocal` and the TSS; `kstack` is the register frame on each kernel stack;
`want` is a ghost: what a task must find when it is back in ring 3. Which task
`schedule()` picks is left open here (Sched settles it), so the results hold for
any choice. A `fork()` child is to find what its parent left ring 3 with, as
`fork_entry.asm` says; `fork_enter_ring3` loads less, so the ghost `fresh` marks a
child on its first stay in ring 3: `ReturnsIntact` leaves it out, and
`ForkChildIsParent` is about just that (finding 3).

**Heap** keeps headers, footers and the free list as `heap.cpp` does, in abstract
units; `coalesce`, `carve` and `grow_heap` are operators on the heap value, one
per piece of code. Memory handed out is overwritten by its caller. **Allocator**
is what `heap.hpp` promises. **HeapPreempt** splits `kfree()` at the point where
a timer interrupt hurts.

**AddressSpace** covers `pmm.cpp`, `vmm.cpp`, the memory system calls, fork,
execve and the loader. The levels above a page table are folded into one, so a
root has one entry per region: kernel image, private window, device memory, mmap
and stack area, kernel heap. Frames hold tables or data; huge pages are split when
a page is mapped below them. A call either completes, or fails where the code
fails with its partial effects (`alloc_frame()` halts the kernel when it finds no
frame, `halted`). **VirtualMemory** is a private memory per task.

**Tarfs** builds the node table entry by entry as `insert_path()` does, with its
capacity, and pages directories by byte offset. **Files** adds mounts, path
lookup, /proc, `File` objects in reusable heap blocks and the descriptor calls.
**Descriptors** is the abstract table, and FilesRefinement the mapping to it.

**Console** is the machine from power-on to the shell. `kernel_main()` is a sequence
of steps, `boot_order`, one for every piece that an interrupt could see half done;
timer and keyboard interrupts come in between from `sti` on. It composes
**Interrupts** (what `acpi::init()` makes of the firmware's tables, the redirection
table, gates, handlers, the tick and `need_resched_`; the rest of `schedule()` is in
Sched), **Tty** (`print()` as one step from system calls, and store by store from
`kernel_main`, which prints its banner with interrupts enabled) and **Stdin** (the
keyboard handler, the ring and `sys_read_stdin()` with its echo; `busy` is the reader
that has the CPU with interrupts masked). A machine is its firmware tables and its
wiring; the model's machines have tables that tell the truth about the wiring.

**Storage** is the way from `vfs::init()`, `read_whole_file()`, `read()` and a
directory listing down to the drive. A file system call is a chain of steps, each
ending in a call of `read_sectors()`; `op` says where it is. **Ext2** holds what is
computed from the sectors without reading any: geometry, the block map as the path
of indices through pointer blocks, inode positions, directory pages, partition
tables. **Ahci** is the driver, one step per poll, and the drive beside it, which
fetches the command table some time after PxCI is set, completes, fails (going on, or
stopping with the command still in PxCI, as the AHCI specification has it), or is
silent. Disks are read-only, so the contents of a sector are represented by its
address until the file system looks at them; each disk image carries the files,
directories and partitions it was made from, and the properties compare with those.
The ghost `late` marks that a command has outlived its wait.

Definitions keep the names of the functions they model; `PROJECT.json` maps each
to its lines. Operators marked `Mutant` are plausible bugs in the definition that
follows them; for each property one of them is substituted and TLC has to find
the property violated.

## 3. Runs

| Run | Config | Shows |
|---|---|---|
| `sched` | `Sched.cfg` | `SchedInv` (the inductive invariant: types, the ring, one running task, an unclaimed zombie, own spaces) and its parts: the ring is the allocated tasks, a waited-for child is held, spaces have one owner; dead tasks stay dead; no starvation, `wait4()` returns after the child's death, the task in `zombie_` is freed unless another one takes the slot |
| `sched_active_space` | `SchedActiveSpace.cfg` | **violation**, finding 1 |
| `syscall_gate` | `SyscallGate.cfg` | `GateInv` and its parts for two user tasks, boot and idle |
| `fork_child` | `ForkChild.cfg` | **violation**, finding 3 |
| `heap_safety` | `HeapSafety.cfg` | blocks tile, tags and list agree, neighbours are merged, requests fit, growth suffices, Heap implements Allocator |
| `heap_preempted` | `HeapPreempt.cfg` | **violation**, finding 2 |
| `address_space` | `AddressSpace.cfg` | frames owned once and never leaked, break at the end of the window, kernel part shared, AddressSpace implements VirtualMemory |
| `files` | `Files.cfg` | lookups agree with the archive, descriptors live, no File leaked but by exit, Files implements Descriptors |
| `files_shared` | `FilesShared.cfg` | **violation**, finding 4 |
| `console` | `Console.cfg` | interrupts reach their handler on every machine at every moment of the boot; an expired timeslice is honoured; the screen shows the active console, also when Alt+Fn comes in the middle of a banner character; the ring is a queue, readers get the edited lines (a full one perhaps without its newline), no false EOF, a typed line is read |
| `storage` | `Storage.cfg` | `read_sectors()` returns what was asked for, bounce frames go back, `ext2_read()` agrees with the file, whole files or nothing, listings complete, the first mountable place is the root; every call returns whatever the drive does |
| `drive_timeout` | `DriveTimeout.cfg` | **violation**, finding 5 |

### Bounds, and why they are enough

* Sched: two task blocks for up to six user tasks one after the other (ids up to 8),
  so that blocks are reused while pointers to them exist; three spaces (an execve
  needs a spare one), two `spawn_from_elf()`, so that two unparented tasks exit one
  after the other, a timeslice of 2 (so that a tick with and without a switch both
  occur). Small, because liveness rules out symmetry, and
  because the safety properties are proved for all values of the constants.
* SyscallGate: two user tasks and two register values; a mix-up needs two tasks,
  and two values tell them apart. Unbounded otherwise: the state space is finite.
* Heap: up to three pages of 12 units. A small request splits a block, the large
  one needs more than a page or leaves a rest too small to split, so splits,
  exact fits, merges on either side, growth with and without a free block at the
  end, and both ways to halt all happen.
* AddressSpace: tables of two pages, pages of two bytes, break addresses at, below
  and above page and window boundaries, 16 frames (they run out), six operations:
  start, fork and four more. One image loads, one fails with its pages mapped.
* Files: all archives of one to three entries out of eight kinds (nested,
  replaced, doubled and trailing slashes, too deep for a node table of one node per
  entry and three spare ones), 13 paths; descriptors on one archive, with two
  tasks, two descriptors each, three File blocks, five calls, and a chunk that
  holds one directory entry or two short ones. Two descriptors make the table fill up.
  `getdents64()` cuts names at `NAME_SIZE`, 7 in the run, and one name is longer.
* Console: two consoles of 2 by 2 cells, row counter modulo 4, so wrapping,
  scrolling and stepping back off the top take a few characters; a banner of a newline
  and a character; a ring of three slots (it fills with two characters), lines of up
  to two characters, two readers that take one byte at a time, three keys typed, one
  character written by a program (a backspace: typed ones are echoed). Five machines:
  the usual one with the timer on pin 2; no overrides, no HPET legacy routing, a MADT
  cut short; everything moved to an I/O APIC with a base of 4; the keyboard on a
  second I/O APIC; no I/O APIC. Three ISA lines stand for 16: timer, keyboard and the
  line that is skipped. Programs run on the first machine only.
* Storage: blocks of two sectors (two pointers or entries each), one direct block
  per inode, so a file of 15 blocks goes through every level of indirection up to
  the last triple indirect block; a file with a hole, one of one sector, an empty
  one; a directory of a direct and two indirect blocks, with two deleted entries and a
  record of two sectors over a removed one, whose name is still there, in pages that
  hold one entry or two short ones; reads inside, across and past the end. Four
  disks: MBR, GPT (with an unused entry, a file system with too many groups and
  more partitions than are looked at), no table, nothing to mount. Commands of two
  sectors, one poll before the timeout, polls counted modulo 4, two frames, one
  failing command. After a command has outlived its wait no new call begins, and
  contents that never came from the disk are not interpreted (`garbage`).

`CHECK_DEADLOCK FALSE` stands where the kernel halts (heap, frames, no I/O APIC), has no disk to use,
or a bound on calls ends the behaviours.

### Environment assumptions

* `AddressSpace`: programs unmap and protect memory of their own; page contents of
  freed frames are forgotten. A program has at least one loadable segment: `elf.cpp`
  would accept one without, and its break would then be 0. Segments ascend, share no
  page and lie in the private window (`ImageOK`), as linkers lay programs out;
  `elf.cpp:66-100` does not check it, and a file that breaks it is not covered.
  `TooBig = {FALSE}` says that arguments of execve() fit the stack; section 5 says
  what happens otherwise.
* `Files`, `Storage`: `offset + count` of a read does not wrap around 64 bits
  (`tarfs.cpp:204`, `ext2.cpp:251`); with a count near 2^64 the code would not clip it.
* `Files`: paths are absolute; components have at most 99 bytes and are not ".".
  `SharedClose = {FALSE}` in the passing run says that a program does not close a
  descriptor another task shares after fork(); the other run drops that.
* `Console`: a cursor that a backspace has taken off the top of the screen (the row is
  an unsigned byte) makes the next character a store behind that console's buffer: in
  the consoles after it for rows up to 100 or so, else in other kernel memory. The
  model follows the cursor and leaves the store out; `ScreenShowsActive` says nothing
  of what it destroys. The tables a machine's firmware
  leaves are about that machine (`FirmwareAssumption`): where they are found, the
  overrides name the pins that timer and keyboard are wired to, and no other line but
  line 2 is given one of these.
* `Storage`: `ReadsAreDisk` and the second half of `BounceIsHeld` speak of behaviours
  in which no command has outlived its wait; `drive_timeout` drops that. A disk holds
  what it was made from (`ImageAssumption`, evaluated by TLC for the disks of the run):
  the tables list the partitions, the group descriptors lead to the inode tables, the
  inodes and pointer blocks to the blocks, and these hold the files, and the directories
  record after record. That is stated the
  way a formatter lays a disk out, with products and sums, block by block; the kernel's
  code goes the other way, with quotients and remainders. `NoneAssumption` says that the model's
  `None` is neither a mounted file system nor a result; `ReadsAssumption` that offsets,
  counts and the size of a page are not negative.

### Fairness

Sched: weak fairness of the timer (HPET or PIT: it is periodic and enabled while any
task runs with interrupts on), of kernel code that has the CPU and nothing to wait
for, and of the loop of a blocked read. Nothing is assumed of programs: a ring 3
loop may go on for ever. Console: weak fairness of `kernel_main` (the boot task is
always ready) and of a reader with the CPU; strong fairness of resuming a blocked
reader, which is what `Sched!ReadyTasksRun` establishes, and of the timer's interrupt,
which stays pending while interrupts are masked. Nothing is assumed of the user.
Storage: weak fairness of the kernel's code, which polls; nothing is assumed of the
drive.

## 4. Proofs

`SchedProofs` proves `Spec => []SchedInv` for any set of task blocks and spaces,
any ids and any timeslice, from `SchedAssumption` (the named tasks and NULL are
distinct, the timeslice is not 0), and from it ring safety, `wait4()` safety, space
ownership and, as an action property, that dead tasks stay dead. None of these is
inductive by itself: unlinking a task from the ring is right only if the ring has it
once; reaping is safe for `wait4()` only because a zombie has no parent while a
waited-for child has one; destroying a space is safe only if nobody else owns
it; a switch needs boot and idle to be schedulable. `SchedInv` is the
conjunction, with `RecordsAgree` tying a task's state to its place in the code. The
proof restates it over explicit arguments (`Inv(r, tk, z, sp, c)`), so that
the lemmas can speak of the values between reaping, state change and switch inside one
`schedule()`: `UnlinkFacts`, `SpliceFacts`, `RotateFacts` about the ring as a
sequence; `FreePreserves`, `SwitchPreserves`, `SpawnPreserves`,
`DeathPreserves`... one per building block; `StepKeeps` one case per action.

`SyscallGateProofs` proves `Spec => []GateInv` for any set of tasks and register
values, from `GateAssumption`, and from it that SWAPGS always reaches `CpuLocal`
(`GsSafety`), entries use the own stack (`EntryStackSafety`), programs come back to
their registers (`ReturnSafety`, but for a fork() child's first stay in ring 3) and
to their TLS base (`TlsSafety`).
`ReturnsIntact` speaks of ring 3 only; `ImagesAreKept` follows the registers
through the kernel stack, `CpuLocal::user_rsp`, the local of the blocking handler and
the FPU area, and `OnlyCurrentRuns` says who may overwrite them.

`HeapProofs` proves all that the run checks of Heap, the refinement included, for
any header, footer, alignment, page and heap size and any requests, from
`HeapAssumption` (a smallest block is aligned and fits a page, a page is aligned, the
first pages fit the range; `heap.cpp`'s constants satisfy it). The argument is about
heap *values*: `Good(h, D, X)` says that the callers' blocks `D`, the blocks on the
list and the block `X` that is on neither (between `block->free = true` and the end
of `coalesce()`, or freshly grown) tile `h`, that every footer repeats its header,
that the list has each block once, that flags agree, and that no two listed blocks
are adjacent. One lemma per operation takes a `Good` value to a `Good` value:
`MergeNextKeeps`, `MergePrevKeeps`, `CoalesceKeeps`, `CarveKeeps`, `OverwriteKeeps`
(the caller's data may look like tags), `GrowKeeps`; under them `TileMerge`,
`TileSplit`, `TileExtend` and `TilePrev`, where the last is the reason the footers
are there: the block before another ends where it begins, so `prev_block()` finds
it. `GrowthSafety` rests on `TotalIs`: rounding up to `ALIGNMENT` never passes the
next multiple of a page. `HeapRefines` maps every block held to its extent;
`kmalloc()` is `Alloc` or a halt, `kfree()` is `Free`.

`AddressSpaceProofs` proves all that the run checks of AddressSpace, for any number
of tasks, frames, pages per table and images, from `AddressSpaceAssumption` and under
the hypothesis of the run, `TRUE \notin TooBig` (section 5 says what happens
without it). `IndInv` says that every task has a root of its own, that each frame in
use is a root, a private table, a private page or the kernel's, and only one of
these in only one place, that shared regions have the kernel's entries and private
ones no huge page, and that nothing is mapped where `brk()` or `mmap()` would map next.
The last part is why the break matters: `map_page()` over a page in use would lose its
frame, so `FramesAreOwned` holds only together with `BrkEndsTheWindow`. A system call
changes memory many times in one step, and may run out of frames at each of them, so
the invariant is about memory *values*, `Good(m, P, X, h)`, with the roots `P` and
frames `X` in hand (a clone under construction). One lemma per operator takes `Good` to
`Good` and says what a program sees afterwards (`view`); the loops over pages of
`load_segments`, `map_pages`, `clone_address_space` and `munmap` are followed to the first
page at which the claim would fail. `MemoryRefines` then reads the abstract memory
through `view`. `FramesAreOwned` also counts entries, which `SpaceCounts` gets from
injectivity of the mapping.

`FilesProofs` proves that no File leaks but by exit (`FilesSafety`), and that no
descriptor dangles (`DescriptorSafety`), for any number of tasks, descriptors,
blocks and archives. The second has two hypotheses: `TRUE \notin SharedClose`, the
environment assumption of the passing run (finding 4 is what happens without it), and
`NullIsNoFile`, that the model's `NULL` is no File value. `OneSlotEach` is the
strengthening: within a task a File is in one slot only, so that clearing the slot
`close()` was called on clears the last pointer.

It also proves what a path leads to. `LookupSafety`: for any archive, node table and
page size, `open()` finds what the archive holds, with its size and content. The fold
over the entries is followed from table to table: `Built` says of the table after some
entries that its nodes can be given distinct paths such that the list of siblings below
a node is exactly the nodes one name further (`Tree`), that each of these paths begins
some entry's path (`Rooted`), that a node's kind, size and content are those of
the last entry with its path (`Stamped`), and that, as long as the table has not filled up,
every entry's path has its node (`Whole`). The second
half of the property, that nothing is lost when the table is large enough, needs a
count: distinct paths have distinct nodes, so a full table has at least as many paths
as slots. The other way, from a path to its node, goes through readdir() in pages:
`ChunksAreWhole` says that adding up the bytes of each page visits every entry once and in
order, wherever the pages are cut and however long the names are.

`DescriptorRefinement`: Files implements Descriptors. Its hypotheses are the two of
`DescriptorSafety` and `DirectoriesFit`, that no directory of an initrd that programs
run on has more entries than `getdents64()` collects (TLC evaluates it for the archives
of the run); a directory with more loses the rest, see section 5. A listing in
Descriptors has its names cut as `getdents64()` cuts them (`shown`), for any
`NAME_SIZE` and any names (`NamesAssumption`). `RefInv` is the
invariant: `DescriptorsAreLive` with `OneSlotEach`, that the ghost names of descriptions are
used once, and that every File holds an inode that can be listed whole; `BootInv` carries the tree that `mount()` left. Each call is then one abstract
step (`StepMaps`): a File block that `close()` freed and `open()` took again is a new
description, because its name is new.

`StorageProofs` proves what `read_sectors()` promises, while any file system calls
run above it and for any number of frames, sectors per command, timeout and drive
behaviour: `ReadSafety` and `BounceSafety`. `DriverInv` follows one request through
its commands: `FramesHeld` (who owns the bounce frame at which step), `DriveFollows`
(while no command has outlived its wait, the drive works on the driver's command or
on none), `AnswersAreData` (PxCI cleared without an error means that the sectors are
in the frame) and `Gathered` (what was copied so far is the part of the request
already done).

On top of that it proves, for every disk that `ImageAssumption` describes, any block
size, number of direct blocks, partitions and reads, and whichever reads fail, what the
file system promises. `RootSafety`: the root is the first place that holds a file
system, and the partition context stays on it. `ScanOK` and `MountOK` carry through the
scan and the tries what has been ruled out so far; for a GPT, `Divides` relates the
entries passed to the candidates found, so that skipping unused entries loses none and
stopping at `MAX_PARTS` stops at the right one. `FileReadSafety`: `ext2_read()` delivers
the file's bytes. `Leads` says that following what is left of the path of indices from
the block at hand ends at the block of the file that the read is at; `PathLeads` shows
it of the path that `resolve_block()` computes (the division of a block number by the
pointers per block, at one, two and three levels), `LeadsOn` that reading a pointer block
keeps it, `CopiedIs` that the part copied at the end is the next part of the file.
`WholeFileSafety`: `read_whole_file()` returns the file or nothing. Neither is inductive:
`FileRead` adds that what earlier rounds collected ends where the read in progress
starts, and that a short read without a failure is the end of the file.

`ListingSafety`: a directory read page by page, as `lookup_path()` and `getdents64()`
read it, gives every name in use once and in order, up to a read that fails. Of a
directory `ImageAssumption` says what mkfs and the kernels that write to it keep: the
records follow one another to the end, none over the end of a block (`RecordsFollow`), and
a name fits a page (names have at most 255 bytes, a page 512; with a longer one the
listing would end there). `Laid` numbers the names by their records and adds up the
bytes they take; `EntriesAre` shows that the walk over a block meets just the records
that start in it, which needs that a record starts where a block does (`BlockStarts`);
`EmitStep` that a record takes a page one step on: `PageAt` says that it holds the names
from its offset on up to the records passed, or to the one it has no room for. An empty
page is then one that began behind the last name (`PageEnds`), and every other makes the
next begin where it ends. `ListInv` carries this along with `Leads`, as for files.

`ConsoleProofs` proves, for any ring size, line length above 1, number of readers and
consoles, screen size and banner that fits (`BannerFits`), in every interleaving of
boot, interrupts and programs: the ring is a queue (`RingSafety`), `read(0)` never
returns an end of file that is none (`EofSafety`), readers get the lines that the
keys edit to and nothing else, a full line perhaps without its newline
(`LineSafety`), the screen shows the active console
(`ScreenSafety`), and, on any machine that satisfies `FirmwareAssumption`, a device's
interrupt finds its own handler (`InterruptSafety`). `StdinInv` states the queue slot by slot with arithmetic
modulo the ring's size. `ScreenInv` needs to know where a `print()` that a switch
interrupts stands (`PrintingOK`, `PendingOK`), that the banner cannot scroll
(`BannerOK`, by counting lines and characters), and that no reader runs during the
boot (`QuietOK`). `LinesInv` relates what was handed out and what is left of the line
to the editor of `Typeset` over the keys taken; that the editor over one more key is one
step more is `EditedIs`, which needs that the recursive function in its definition exists and is unique
(`FollowsExists`, `FollowsOnce`). `RoutingInv` says for each point of `kernel_main`
what is set up there, and that the entry of a device's pin is that device's, masked
until its driver has registered; the redirection table comes out that way because
`init_ioapic()` leaves out line 2, whose identity mapping would take the timer's pin.

The provers installed cannot use the library's induction theorems, which take an
operator as parameter. `NumberFacts` proves that a nonempty set of naturals has a
least element, from which "the last block before b", "the first free frame" and the
like are obtained as minimal elements, and what a recursive function computes as the absence of
a first argument at which it would not.

Folds are taken the same way: `FoldsExist` and `RecursionExists` give the function that
a fold or a recursive definition chooses by an explicit witness, the function of all
prefixes, and `FoldSteps` its value from one element to the next.

Only model-checked; every invariant the runs check is proved:

* all liveness (fairness is out of the prover's reach): `ReadyTasksRun`, `Wait4Returns`,
  `ZombieIsReaped`, `RescheduleIsTaken`, `TypedLineIsRead`, `EveryCallReturns`.

The type invariants are parts of the inductive invariants above.

## 5. Findings

1. `sched.cpp:55`: a kernel-only task leaves CR3 as it was, so the idle task can
   reap the task whose page tables the CPU is using (`sched_active_space`).
2. `heap.cpp:252`: the heap has no lock and is used with interrupts enabled by
   entry functions; an interrupted `kfree()` ends with memory in use on the free list
   (`heap_preempted`).
3. `fork_entry.asm:27`: a fork() child starts without the argument registers and the
   SSE state of its parent: `ForkFrame` has neither, and a new task's FPU area is the
   default one. `fork_entry.asm:6-7` says "identical to the parent bar rax" and
   `ARCHITECTURE.md:187` "with the parent's saved register/stack state"; the
   parent's own way back does restore them (`fork_child`).
4. `syscall.cpp:350`: close() frees a File that fork() shared (`files_shared`).
5. `ahci.cpp:143`: the unsigned timeout of `issue_and_wait()` wraps, so a command that
   was given up counts as done: `read_sectors()` returns true with whatever the bounce
   frame held, and frees a frame the drive may still write to. A drive that stops
   after an error makes every later read "succeed" (`drive_timeout`).

Noted while modelling, without a run of their own:

* `user.cpp:374`: execve() overwrites the break and mmap fields and can still fail
  with E2BIG at `:382`, which restores CR3 only, against `user.hpp:41` "caller runs
  on, unchanged". The next brk() maps over pages in use or refuses a valid break. With
  `TooBig = {FALSE, TRUE}` in `AddressSpace.cfg` TLC finds `BrkEndsTheWindow` violated;
* `sched.cpp:233`: `zombie_` is one slot. When an unparented task exits and the
  switch goes straight to another one that exits in turn, the second overwrites the
  slot, since `schedule()` reaps before it switches and not after; the first stays
  Dead in the ring for ever, against `sched.cpp:229-230`. kernel_main spawns one such
  task, `user.hpp:20` allows several. `ZombieIsReaped` names this exception; without it
  (`zombie = t ~> task[t].state = "Free"`) TLC finds the property violated with
  `MaxSpawn = 2`, and not with 1;
* a returning entry function preempted between `state = Dead` and `zombie_ = ...`
  is never switched to again and never reaped (`sched.cpp:227`; `sched.hpp:50`).
  `DeadStaysDead` holds of it; that every Dead task without a parent is freed does not;
* a parent pointer outlives the parent: getppid() (`syscall.cpp:422`) and
  wait4()'s test (`sched.cpp:253`) can take the next task in that block for it;
* kernel_main prints with interrupts enabled, so Alt+Fn can split a `print()`
  (`main.cpp:128`): one cell of the old console stays on the new one's screen
  (`torn` in Tty);
* `con.row` is unsigned, so `con.row < 0` never holds (`tty.cpp:86`): typing a
  character, Alt+F2 and Backspace put that console's cursor at row 255, and what is
  printed there is stored behind its buffer. A backspace at column 0 erases nothing,
  although `syscall.cpp:228` says the echo erases the cell;
* `alloc_frame()` finds a bit and then sets it, and entry functions call it with
  interrupts enabled (`pmm.cpp:134`);
* `ext2_read()` returns 0 or a short count, not -1, for a failed read or a hole
  (`ext2.cpp:268`, against `vfs.hpp:19`); `read_whole_file()` refuses such files;
* a GPT with entries larger than a sector divides by zero (`partition.cpp:88`);
* only the first implemented AHCI port is tried, and a drive with an unexpected
  signature is used all the same (`ahci.cpp:226`);
* devices on a second I/O APIC never interrupt (`apic.cpp:80`, as its comment says);
* the newline of a full input line is dropped while the line still ends
  (`syscall.cpp:246`), although `:226` says of a ready line that its newline has been
  appended. `ReadersGetTheLines` allows for that byte: with `end = <<"NL">>` as its
  only choice TLC finds it violated; Caps Lock also reacts to its release (`keyboard.cpp:52`);
* getdents64() lists at most 32 entries, cuts names to 47 bytes and returns 0, the
  end, for a buffer too small for one entry (`syscall.cpp:293`);
* `lookup_path()` does not skip doubled slashes between components, `insert_path()`
  does (`vfs.cpp:38`), and splits a 100-byte tar component (`tarfs.cpp:116`).

## 6. Plan

Done: Sched, SyscallGate, Heap, AddressSpace, Tarfs/Files, Console (Tty, Stdin,
Interrupts), Storage (Ahci, Ext2); proofs of Sched, SyscallGate, Heap, AddressSpace and
Files, the last three with their refinements, Console and Storage.

Left: Sched composed with SyscallGate, so that `schedule()`'s open choice becomes the
scheduler's, and `schedule()` and `alloc_frame()` split for callers with interrupts
enabled.

Not modelled: PCI enumeration; the register formats of the APICs, PIC, IDT, PIT, HPET
and AHCI controller; serial and VGA set-up (register I/O without a protocol of their
own); byte-level formats (Multiboot tags, ELF, tar and ext2 records, /proc texts, the
argument block on a new stack) beyond the values the properties tell apart;
exceptions, which halt the kernel; failures of `kmalloc()`, which halts instead of
returning nullptr.
