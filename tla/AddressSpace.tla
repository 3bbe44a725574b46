---------------------------- MODULE AddressSpace ----------------------------
(***************************************************************************)
(* Physical frames (mem/pmm.cpp), page tables (mem/vmm.cpp) and the system *)
(* calls that change a task's memory: brk, mmap, munmap, mprotect, fork    *)
(* and execve, with the ELF loader behind the last.                        *)
(*                                                                         *)
(* The levels above a page table are one: a root stands for PML4, PDPT and *)
(* PD, its entry r for the PD entry of region r.  A task calls the kernel  *)
(* with its own root in CR3 (Sched!RunsOnOwnSpace) and with interrupts     *)
(* masked, so a call is one step.  A freed frame's old contents are        *)
(* dropped; what a stack page starts with is any value.  Programs unmap    *)
(* and protect memory of their own only, and the pages of an image's       *)
(* segments are distinct.                                                  *)
(***************************************************************************)
EXTENDS Naturals, Sequences, FiniteSets, SequencesExt

CONSTANTS
    Task, NULL,
    NumFrames,      \* MAX_FRAMES
    PagesPerTable,  \* 512
    PAGE_SIZE,      \* 4096
    Image,          \* the ELF files programs start, see ImageOK
    Value, Zero,    \* contents of a page
    Address, Length,  \* what programs pass to brk(), mmap(), munmap(), mprotect()
    TooBig,         \* may the arguments of execve() exceed the stack?
    MaxCalls        \* bound: operations

Frame == 0..(NumFrames - 1)
Index == 0..(PagesPerTable - 1)

\* Regions: the kernel image, the private window [RESERVED_LOW, RESERVED_HIGH),
\* device memory, mmap area and stack, the kernel heap.
KERNEL == 0
WINDOW == 1
MMIO == 2
HIGH == 3
HEAP == 4
Region == KERNEL..HEAP
Private == {WINDOW, HIGH}

PagesOf(r) == {r * PagesPerTable + i : i \in Index}
PrivatePage == UNION {PagesOf(r) : r \in Private}
StartOf(r) == r * PagesPerTable * PAGE_SIZE

RESERVED_LOW == StartOf(WINDOW)
BRK_CEILING == StartOf(MMIO)
LINUX_MMAP_BASE == StartOf(HIGH)
LINUX_STACK_BASE == StartOf(HEAP) - PAGE_SIZE
STACK_PAGE == LINUX_STACK_BASE \div PAGE_SIZE

\* What the bits of an entry permit, or say of what it points to.
Flag == {"TABLE", "HUGE", "KERNEL", "RW", "RO", NULL}

\* An image: the pages its PT_LOAD segments cover, in order; `ok` is false when
\* a later header is bad, so that the load fails with these pages mapped.  That
\* segments ascend, share no page and lie in the window is an assumption about
\* the files: linkers lay programs out so, and load_segment() does not check it.
ImageOK(img) ==
    /\ img.ok \in BOOLEAN
    /\ Len(img.pages) \in Nat /\ DOMAIN img.pages = 1..Len(img.pages)
    /\ img.ok => Len(img.pages) > 0
    /\ \A i \in DOMAIN img.pages :
         /\ img.pages[i].page \in PagesOf(WINDOW)
         /\ img.pages[i].fl \in {"RW", "RO"} /\ img.pages[i].val \in Value
         /\ \A j \in DOMAIN img.pages :
              i < j => img.pages[i].page < img.pages[j].page

ASSUME AddressSpaceAssumption ==
    /\ NumFrames \in Nat /\ NumFrames > 4   \* what boot takes
    /\ PagesPerTable \in Nat \ {0, 1} /\ PAGE_SIZE \in Nat \ {0}
    /\ NULL \notin Nat \cup {"HUGE"} /\ NULL # << >>
    /\ \A S \in SUBSET PrivatePage : NULL \notin [S -> [val : Value, fl : Flag]]
    /\ Zero \in Value /\ Address \cup Length \subseteq Nat /\ TooBig \subseteq BOOLEAN /\ MaxCalls \in Nat
    /\ \A img \in Image : ImageOK(img)

VARIABLES
    used,       \* the frames whose bit is set in the pmm's bitmap
    table,      \* frames as page tables or roots
    data,       \* frames as memory
    heap_end,   \* first page after the kernel heap
    proc,       \* the memory fields of each task
    halted,     \* alloc_frame() found no frame
    calls       \* operations so far

vars == <<used, table, data, heap_end, proc, halted, calls>>

ram == [used |-> used, table |-> table, data |-> data, oom |-> FALSE]

Absent == [to |-> NULL, fl |-> NULL]
Zeroed == [i \in Index \cup Region |-> Absent]
NoTask == [cr3 |-> NULL, brk_start |-> 0, brk_cur |-> 0, mmap_next |-> 0,
           pc |-> "none"]

page_down(a) == a \div PAGE_SIZE
page_up(a) == (a + PAGE_SIZE - 1) \div PAGE_SIZE

----------------------------------------------------------------------------
(* Frames *)

\* The first free frame.  There is none: the kernel stops.
alloc_frame(m) ==
    IF m.used = Frame THEN 0
    ELSE CHOOSE f \in Frame \ m.used : \A g \in Frame \ m.used : f <= g

with_frame(m) == [m EXCEPT !.used = @ \cup {alloc_frame(m)},
                           !.oom = @ \/ m.used = Frame]

free_frames(m, F) ==
    [m EXCEPT !.used = @ \ F,
              !.table = [f \in Frame |-> IF f \in F THEN Zeroed ELSE @[f]],
              !.data = [f \in Frame |-> IF f \in F THEN Zero ELSE @[f]]]

----------------------------------------------------------------------------
(* Page tables *)

region(p) == p \div PagesPerTable
index(p) == p % PagesPerTable
present(e) == e.to # NULL
huge(e) == e.fl = "HUGE"

\* The 2 MB page becomes a table of the same pages.
split_huge_page(m, root, r) ==
    LET e == m.table[root][r]
        pt == alloc_frame(m)
    IN  [with_frame(m) EXCEPT
           !.table[pt] = [i \in DOMAIN Zeroed |-> IF i \in Index
                            THEN [to |-> e.to + i, fl |-> "KERNEL"] ELSE Absent],
           !.table[root][r] = [to |-> pt, fl |-> "TABLE"]]

ensure_table(m, root, r) ==
    LET f == alloc_frame(m)
    IN  IF present(m.table[root][r]) THEN m
        ELSE [with_frame(m) EXCEPT !.table[f] = Zeroed,
                                   !.table[root][r] = [to |-> f, fl |-> "TABLE"]]

map_into(m, root, p, f, fl) ==
    LET r == region(p)
        split == IF huge(m.table[root][r]) THEN split_huge_page(m, root, r) ELSE m
        full == ensure_table(split, root, r)
    IN  [full EXCEPT !.table[full.table[root][r].to][index(p)] =
                        [to |-> f, fl |-> fl]]

\* The frame of page p, or NULL.
virt_to_phys(m, root, p) ==
    LET e == m.table[root][region(p)]
    IN  IF ~present(e) THEN NULL
        ELSE IF huge(e) THEN e.to + index(p)
        ELSE m.table[e.to][index(p)].to

\* alloc_frame(), map() and the first contents of the page.
map_new_page(m, root, p, fl, v) ==
    [map_into(with_frame(m), root, p, alloc_frame(m), fl)
        EXCEPT !.data[alloc_frame(m)] = v]

map_page(m, root, x) ==
    IF x.page = NULL THEN m ELSE map_new_page(m, root, x.page, x.fl, x.val)

\* The pages of a sequence, one after the other.
map_pages(m, root, s) ==
    LET after[i \in 0..Len(s)] ==
          IF i = 0 THEN m ELSE map_page(after[i - 1], root, s[i])
    IN  after[Len(s)]

Mapped(m, root) == {p \in PrivatePage : virt_to_phys(m, root, p) # NULL}
leaf(m, root, p) == m.table[m.table[root][region(p)].to][index(p)]

\* `new` gives some pages new leaves.
set_leaves(m, root, new) ==
    LET at(f, i) == {p \in DOMAIN new : f = m.table[root][region(p)].to /\ i = index(p)}
    IN  [m EXCEPT !.table = [f \in Frame |-> [i \in DOMAIN Zeroed |->
            IF at(f, i) = {} THEN @[f][i] ELSE new[CHOOSE p \in at(f, i) : TRUE]]]]

\* Mutant: the frames are freed, the pages stay mapped.
release_keeps_leaves(m, root, S) ==
    free_frames(m, {virt_to_phys(m, root, p) : p \in S \cap Mapped(m, root)})

\* virt_to_phys(), unmap() and free_frame() for every page of S.
release(m, root, S) ==
    LET there == S \cap Mapped(m, root)
    IN  free_frames(set_leaves(m, root, [p \in there |-> Absent]),
                    {virt_to_phys(m, root, p) : p \in there})

protect(m, root, S, fl) ==
    set_leaves(m, root, [p \in S \cap Mapped(m, root) |->
                            [leaf(m, root, p) EXCEPT !.fl = fl]])

----------------------------------------------------------------------------
(* Address spaces *)

KernelRoot == 1   \* boot.asm's tables are part of the image

\* What a new root takes over: everything but the private regions.
shared_entries(m) == [r \in DOMAIN Zeroed |-> IF r \in Region \ Private
                        THEN m.table[KernelRoot][r] ELSE Absent]

\* The new root is the frame alloc_frame(m).
create_address_space(m) ==
    [with_frame(m) EXCEPT !.table[alloc_frame(m)] = shared_entries(m)]

\* Mutant: parent and child share their pages.
clone_shares_frames(m, dst, src) ==
    LET share_leaf(n, p) == map_into(n, dst, p, virt_to_phys(n, src, p),
                                     leaf(n, src, p).fl)
    IN  FoldLeft(share_leaf, m, SetToSortSeq(Mapped(m, src), LAMBDA p, q : p < q))

\* The walk over the private pages: the window, then the rest.
private_page(i) == IF i <= PagesPerTable THEN WINDOW * PagesPerTable + i - 1
                   ELSE HIGH * PagesPerTable + (i - PagesPerTable) - 1

\* What clone_leaf() maps for page p; nothing where none is present.
copy_of(m, src, p) ==
    IF p \in Mapped(m, src)
    THEN [page |-> p, fl |-> leaf(m, src, p).fl, val |-> m.data[virt_to_phys(m, src, p)]]
    ELSE [page |-> NULL, fl |-> NULL, val |-> NULL]

\* Every private page is copied to a frame of its own.
clone_address_space(m, dst, src) ==
    map_pages(m, dst, [i \in 1..(2 * PagesPerTable) |-> copy_of(m, src, private_page(i))])

\* The private pages, the tables over them and the root.
private_tables(m, root) ==
    {m.table[root][r].to : r \in {x \in Private : present(m.table[root][x])}}

private_frames(m, root) ==
    {root} \cup private_tables(m, root)
      \cup {virt_to_phys(m, root, p) : p \in Mapped(m, root)}

destroy_address_space(m, root) == free_frames(m, private_frames(m, root))

\* Pages [a, b) with zeroed frames.
grow(m, root, a, b, fl) ==
    map_pages(m, root, [i \in 1..(b - a) |-> [page |-> a + i - 1, fl |-> fl, val |-> Zero]])

\* elf::load(): every page of every segment.
load_segments(m, root, img) == map_pages(m, root, img.pages)

\* The stack, and build_linux_stack() over what its page held.
map_stack(m, root, v) == map_new_page(m, root, STACK_PAGE, "RW", v)

highest_addr(img) ==
    IF Len(img.pages) = 0 THEN 0 ELSE (img.pages[Len(img.pages)].page + 1) * PAGE_SIZE

----------------------------------------------------------------------------
(* Operations *)

\* The frames after an operation; without a frame for alloc_frame() the kernel
\* has stopped on the way.
commit(m, procs) ==
    IF m.oom
    THEN halted' = TRUE /\ UNCHANGED <<used, table, data, proc>>
    ELSE /\ used' = m.used /\ table' = m.table /\ data' = m.data
         /\ proc' = procs
         /\ UNCHANGED halted

Runs(t) == ~halted /\ proc[t].pc = "user"

\* spawn_from_elf(): the task is created with its own empty space.
spawn_from_elf(t) ==
    /\ ~halted /\ proc[t] = NoTask
    /\ commit(create_address_space(ram),
              [proc EXCEPT ![t].cr3 = alloc_frame(ram), ![t].pc = "new"])
    /\ UNCHANGED heap_end

loaded_fields(p, img) ==
    [p EXCEPT !.brk_start = highest_addr(img), !.brk_cur = highest_addr(img),
              !.mmap_next = LINUX_MMAP_BASE, !.pc = "user"]

\* linux_task_entry(): a failed load ends the task.
linux_task_entry(t, img, v) ==
    LET image == load_segments(ram, proc[t].cr3, img)
    IN  /\ ~halted /\ proc[t].pc = "new"
        /\ IF img.ok
           THEN commit(map_stack(image, proc[t].cr3, v),
                       [proc EXCEPT ![t] = loaded_fields(@, img)])
           ELSE commit(image, [proc EXCEPT ![t].pc = "failed"])
        /\ UNCHANGED heap_end

\* Mutant: the break may run into device memory.
brk_accepts_high(p, addr) ==
    addr # 0 /\ addr >= p.brk_start /\ addr <= BRK_CEILING + PAGE_SIZE

\* A refused brk() changes nothing.
brk_accepts(p, addr) == addr # 0 /\ addr >= p.brk_start /\ addr <= BRK_CEILING

\* Mutant: the page under the new break's end stays.
brk_dropped_late(new_top, old_top) == (new_top + 1)..(old_top - 1)

\* The pages a lower break gives back.
brk_dropped(new_top, old_top) == new_top..(old_top - 1)

sys_brk(t, addr) ==
    LET old_top == page_up(proc[t].brk_cur)
        new_top == page_up(addr)
    IN  /\ Runs(t) /\ brk_accepts(proc[t], addr)
        /\ commit(IF new_top > old_top
                  THEN grow(ram, proc[t].cr3, old_top, new_top, "RW")
                  ELSE release(ram, proc[t].cr3, brk_dropped(new_top, old_top)),
                  [proc EXCEPT ![t].brk_cur = addr])
        /\ UNCHANGED heap_end

\* Bound: the bump pointer stays below the stack.
MmapFits(p, len) == p.mmap_next + page_up(len) * PAGE_SIZE <= LINUX_STACK_BASE

mmap_end(p, len) == p.mmap_next + page_up(len) * PAGE_SIZE

sys_mmap(t, len, prot) ==
    LET base == proc[t].mmap_next
        end == mmap_end(proc[t], len)
    IN  /\ Runs(t) /\ len # 0 /\ MmapFits(proc[t], len)
        /\ commit(grow(ram, proc[t].cr3, page_down(base), page_up(base + len), prot),
                  [proc EXCEPT ![t].mmap_next = end])
        /\ UNCHANGED heap_end

call_range(addr, len) == page_down(addr)..(page_up(addr + len) - 1)

sys_munmap(t, addr, len) ==
    /\ Runs(t) /\ call_range(addr, len) \subseteq PrivatePage
    /\ commit(release(ram, proc[t].cr3, call_range(addr, len)), proc)
    /\ UNCHANGED heap_end

sys_mprotect(t, addr, len, prot) ==
    /\ Runs(t) /\ call_range(addr, len) \subseteq PrivatePage
    /\ commit(protect(ram, proc[t].cr3, call_range(addr, len), prot), proc)
    /\ UNCHANGED heap_end

sys_fork(t, c) ==
    LET child == alloc_frame(ram)
    IN  /\ Runs(t) /\ proc[c] = NoTask
        /\ commit(clone_address_space(create_address_space(ram), child, proc[t].cr3),
                  [proc EXCEPT ![c] = [proc[t] EXCEPT !.cr3 = child]])
        /\ UNCHANGED heap_end

\* The new image is staged in a new space; a load that fails drops it.  Arguments
\* that do not fit the stack are noticed after the fields have been set.
sys_execve(t, img, big, v) ==
    LET root == alloc_frame(ram)
        image == load_segments(create_address_space(ram), root, img)
        staged == map_stack(image, root, v)
        fields == loaded_fields(proc[t], img)
    IN  /\ Runs(t)
        /\ IF ~img.ok
           THEN commit(destroy_address_space(image, root), proc)
           ELSE IF big
           THEN commit(destroy_address_space(staged, root), [proc EXCEPT ![t] = fields])
           ELSE commit(destroy_address_space(staged, proc[t].cr3),
                       [proc EXCEPT ![t] = [fields EXCEPT !.cr3 = root]])
        /\ UNCHANGED heap_end

\* The task exits and is reaped.
free_task(t) ==
    /\ ~halted /\ proc[t].pc \in {"user", "failed"}
    /\ commit(destroy_address_space(ram, proc[t].cr3), [proc EXCEPT ![t] = NoTask])
    /\ UNCHANGED heap_end

\* grow_heap() in a system call of t: a page is mapped under t's root.
grow_heap(t) ==
    /\ Runs(t) /\ heap_end \in PagesOf(HEAP)
    /\ commit(map_new_page(ram, proc[t].cr3, heap_end, "KERNEL", Zero), proc)
    /\ heap_end' = IF halted' THEN heap_end ELSE heap_end + 1

\* The program writes to a page it may write to.
write(t, p, v) ==
    /\ Runs(t) /\ p \in Mapped(ram, proc[t].cr3) /\ leaf(ram, proc[t].cr3, p).fl = "RW"
    /\ data' = [data EXCEPT ![virt_to_phys(ram, proc[t].cr3, p)] = v]
    /\ UNCHANGED <<used, table, heap_end, proc, halted>>

----------------------------------------------------------------------------

\* boot.asm maps low memory with 2 MB pages; remap_kernel() splits the ones over
\* the image, heap::init() maps the heap's first page.
boot == [used |-> {0, KernelRoot},
         table |-> [f \in Frame |-> IF f = KernelRoot
                      THEN [r \in DOMAIN Zeroed |->
                              IF r \in KERNEL..MMIO
                              THEN [to |-> r * PagesPerTable, fl |-> "HUGE"]
                              ELSE Absent]
                      ELSE Zeroed],
         data |-> [f \in Frame |-> Zero], oom |-> FALSE]

remap_kernel(m) == map_into(m, KernelRoot, 0, 0, "KERNEL")

booted == map_new_page(remap_kernel(boot), KernelRoot, HEAP * PagesPerTable,
                       "KERNEL", Zero)

Init ==
    /\ used = booted.used /\ table = booted.table /\ data = booted.data
    /\ heap_end = HEAP * PagesPerTable + 1
    /\ proc = [t \in Task |-> NoTask]
    /\ halted = FALSE /\ calls = 0

Step(t) ==
    \/ spawn_from_elf(t)
    \/ \E img \in Image, v \in Value : linux_task_entry(t, img, v)
    \/ \E addr \in Address : sys_brk(t, addr)
    \/ \E len \in Length, prot \in {"RW", "RO"} : sys_mmap(t, len, prot)
    \/ \E addr \in Address, len \in Length : sys_munmap(t, addr, len)
    \/ \E addr \in Address, len \in Length, prot \in {"RW", "RO"} :
          sys_mprotect(t, addr, len, prot)
    \/ \E c \in Task : sys_fork(t, c)
    \/ \E img \in Image, big \in TooBig, v \in Value : sys_execve(t, img, big, v)
    \/ free_task(t)
    \/ grow_heap(t)
    \/ \E p \in PrivatePage, v \in Value : write(t, p, v)

Next == calls < MaxCalls /\ calls' = calls + 1 /\ \E t \in Task : Step(t)

Spec == Init /\ [][Next]_vars

----------------------------------------------------------------------------
(* Properties *)

Live == {t \in Task : proc[t].cr3 # NULL}

KernelFrames ==
    {0, KernelRoot, table[KernelRoot][KERNEL].to, table[KernelRoot][HEAP].to}
      \cup ({virt_to_phys(ram, KernelRoot, p) : p \in PagesOf(HEAP)} \ {NULL})

\* The entries of a space that name frames of its own, and its root.
OwnEntries(root) ==
    1 + Cardinality({r \in Private : present(table[root][r])})
      + Cardinality(Mapped(ram, root))

Own(t) == private_frames(ram, proc[t].cr3)

\* pmm.cpp and vmm.cpp together, over brk, mmap, munmap, fork, execve and exit in
\* any order, also when they fail half-way: a frame whose bit is set belongs to
\* the kernel or to exactly one space, whose tables name it exactly once, and no
\* table names a free frame.  No frame leaks, is mapped twice or is freed in use.
FramesAreOwned ==
    /\ used = KernelFrames \cup UNION {Own(t) : t \in Live}
    /\ \A t \in Live : /\ Own(t) \cap KernelFrames = {}
                       /\ Cardinality(Own(t)) = OwnEntries(proc[t].cr3)
                       /\ \A u \in Live \ {t} : Own(t) \cap Own(u) = {}

\* sys_brk() trusts the task's fields to say where its heap ends: a running
\* program has no page of the window at or above its break, so that growing
\* never maps over a page in use.  user.hpp promises as much of an execve() that
\* fails: "caller runs on, unchanged".
BrkEndsTheWindow ==
    \A t \in Task : proc[t].pc = "user" =>
        \A p \in Mapped(ram, proc[t].cr3) \cap PagesOf(WINDOW) :
            p < page_up(proc[t].brk_cur)

\* vmm.hpp on create_address_space(): kernel image, device memory and heap are
\* shared.  In every space they are where the kernel's own tables have them,
\* also a heap page mapped later under another task's root.
KernelIsShared ==
    \A t \in Live : \A r \in Region \ Private : \A p \in PagesOf(r) :
        virt_to_phys(ram, proc[t].cr3, p) = virt_to_phys(ram, KernelRoot, p)

\* A program's memory, read through its page tables.
memory(t) ==
    IF proc[t].cr3 = NULL THEN NULL
    ELSE IF proc[t].pc # "user" THEN << >>
    ELSE [p \in Mapped(ram, proc[t].cr3) |->
            [val |-> data[virt_to_phys(ram, proc[t].cr3, p)],
             fl |-> leaf(ram, proc[t].cr3, p).fl]]

FreshImage(mem) == \E img \in Image :
    /\ img.ok
    /\ DOMAIN mem = {STACK_PAGE} \cup {img.pages[i].page : i \in DOMAIN img.pages}
    /\ \A i \in DOMAIN img.pages :
         mem[img.pages[i].page] = [val |-> img.pages[i].val, fl |-> img.pages[i].fl]

VM == INSTANCE VirtualMemory WITH vm <- [t \in Task |-> memory(t)],
                                  Fresh <- FreshImage

\* user.hpp: each task has its own page tables, fork() clones, execve() replaces.
\* Read through its tables, a task's memory changes only by its own calls and
\* as they say, whatever other tasks do and whichever frames are reused.
ImplementsVirtualMemory == VM!Spec

============================================================================
