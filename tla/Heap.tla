-------------------------------- MODULE Heap --------------------------------
(***************************************************************************)
(* The kernel heap, mem/heap.cpp: blocks with a header and a footer, a     *)
(* free list searched first fit, splitting, coalescing with both           *)
(* neighbours and growth by whole pages.                                   *)
(*                                                                         *)
(* The free list is the sequence met when walking `next` from free_list.   *)
(* Nothing reads Footer::free, so a footer is its size.  Bytes that hold   *)
(* no header or footer of a block keep what was last written there until a *)
(* caller is given them and writes its data.  pmm::alloc_frame() and       *)
(* vmm::map() of grow_heap() stand for one frame that is or is not there.  *)
(***************************************************************************)
EXTENDS Naturals, FiniteSets, Sequences, SequencesExt

CONSTANTS
    HDR, FTR, PTR,   \* sizeof(Block), sizeof(Footer), sizeof(Block*)
    ALIGNMENT, PAGE_SIZE,
    HEAP_START, HEAP_MAX,
    InitPages,       \* pages heap::init() starts with
    GrowPages,       \* kmalloc() grows by at least so many
    Request,         \* sizes callers ask for
    MaxLive          \* bound: blocks allocated at a time

MIN_BLOCK == HDR + PTR + FTR

ASSUME HeapAssumption ==
    /\ HDR \in Nat \ {0} /\ FTR \in Nat \ {0} /\ PTR \in Nat \ {0}
    /\ ALIGNMENT \in Nat \ {0} /\ MIN_BLOCK % ALIGNMENT = 0
    /\ PAGE_SIZE \in Nat \ {0} /\ PAGE_SIZE % ALIGNMENT = 0
    /\ MIN_BLOCK <= PAGE_SIZE
    /\ HEAP_START \in Nat \ {0} /\ HEAP_MAX \in Nat
    /\ InitPages \in Nat \ {0} /\ GrowPages \in Nat \ {0}
    /\ HEAP_START + InitPages * PAGE_SIZE <= HEAP_MAX
    /\ Request \subseteq Nat \ {0} /\ MaxLive \in Nat

VARIABLES
    size, free,  \* the header fields at each address
    footer,      \* the footer size that ends right before each address
    free_list, heap_end,
    held,        \* ghost: callers' blocks, with the size each asked for
    halted       \* the kernel stopped in grow_heap() or kmalloc()

vars == <<size, free, footer, free_list, heap_end, held, halted>>

Addr == HEAP_START..HEAP_MAX

----------------------------------------------------------------------------
(* The block operations, on a heap value h *)

heap == [size |-> size, free |-> free, footer |-> footer, list |-> free_list,
         end |-> heap_end]

next_block(h, b) == b + h.size[b]

\* The address below b by the size in the footer before it; 0 for nullptr.
prev_block(h, b) ==
    IF b < HEAP_START + FTR \/ b < HEAP_START + h.footer[b] THEN 0
    ELSE b - h.footer[b]

\* Header and footer of b are written with size n and the free flag f.
write_tags(h, b, n, f) ==
    [h EXCEPT !.size = [@ EXCEPT ![b] = n], !.free = [@ EXCEPT ![b] = f],
              !.footer = [@ EXCEPT ![b + n] = n]]

\* The walk along the list that finds b, and unlinking it there.
remove_block_from_free_list(h, b) == [h EXCEPT !.list = RemoveFirst(@, b)]

add_block_to_free_list(h, b) ==
    [h EXCEPT !.free = [@ EXCEPT ![b] = TRUE], !.list = <<b>> \o @]

\* Mutant: the footer of the block that swallows its successor is left stale.
merge_next_stale_footer(h, b) ==
    LET n == next_block(h, b)
    IN  IF n < h.end /\ h.free[n]
        THEN [remove_block_from_free_list(h, n) EXCEPT
                 !.size = [@ EXCEPT ![b] = @ + h.size[n]]]
        ELSE h

merge_next(h, b) ==
    LET n == next_block(h, b)
    IN  IF n < h.end /\ h.free[n]
        THEN write_tags(remove_block_from_free_list(h, n), b,
                        h.size[b] + h.size[n], h.free[b])
        ELSE h

\* Mutant: freeing only puts the block on the list.
merge_prev_never(h, b) == add_block_to_free_list(h, b)

\* The merged block goes to the front of the list.
merge_prev(h, b) ==
    LET p == prev_block(h, b)
    IN  IF p # 0 /\ h.free[p]
        THEN add_block_to_free_list(
                 write_tags(remove_block_from_free_list(h, p), p,
                            h.size[p] + h.size[b], TRUE), p)
        ELSE add_block_to_free_list(h, b)

coalesce(h, b) == merge_prev(merge_next(h, b), b)

----------------------------------------------------------------------------
(* kmalloc(), kfree() *)

align_up(n) == ((n + ALIGNMENT - 1) \div ALIGNMENT) * ALIGNMENT

\* Mutant: no room for the footer.
total_without_footer(req) ==
    LET t == align_up(req + HDR) IN IF t < MIN_BLOCK THEN MIN_BLOCK ELSE t

total_of(req) ==
    LET t == align_up(req + HDR + FTR) IN IF t < MIN_BLOCK THEN MIN_BLOCK ELSE t

\* Index of the first block on the list that is large enough, 0 if none.
first_fit(h, total) ==
    LET fits == {i \in DOMAIN h.list : h.size[h.list[i]] >= total}
    IN  IF fits = {} THEN 0 ELSE CHOOSE i \in fits : \A j \in fits : i <= j

\* Mutant: the rest is split off even when it is too small to be a block.
carve_any_rest(h, b, total) ==
    LET g == remove_block_from_free_list(h, b)
        rest == h.size[b] - total
    IN  IF rest > 0
        THEN write_tags(add_block_to_free_list(
                            write_tags(g, b + total, rest, TRUE), b + total),
                        b, total, FALSE)
        ELSE [g EXCEPT !.free = [@ EXCEPT ![b] = FALSE]]

\* Mutant: an allocated block keeps its free flag.
carve_still_free(h, b, total) ==
    LET g == remove_block_from_free_list(h, b)
        rest == h.size[b] - total
    IN  IF rest >= MIN_BLOCK
        THEN write_tags(add_block_to_free_list(
                            write_tags(g, b + total, rest, TRUE), b + total),
                        b, total, TRUE)
        ELSE g

\* Carve `total` bytes off block b, keeping the rest if it can be a block.
carve(h, b, total) ==
    LET g == remove_block_from_free_list(h, b)
        rest == h.size[b] - total
    IN  IF rest >= MIN_BLOCK
        THEN write_tags(add_block_to_free_list(
                            write_tags(g, b + total, rest, TRUE), b + total),
                        b, total, FALSE)
        ELSE [g EXCEPT !.free = [@ EXCEPT ![b] = FALSE]]

\* The caller writes its data over what it was given.
overwrite(h, b) ==
    LET inside == (b + 1)..(next_block(h, b) - 1)
    IN  [h EXCEPT !.size = [a \in Addr |-> IF a \in inside THEN 0 ELSE h.size[a]],
                  !.free = [a \in Addr |-> a \notin inside /\ h.free[a]],
                  !.footer = [a \in Addr |-> IF a \in inside THEN 0 ELSE h.footer[a]]]

\* Mutant: the pages are counted for the request alone.
pages_without_tags(req) == (req + PAGE_SIZE - 1) \div PAGE_SIZE

pages_needed(req) == (req + HDR + FTR + PAGE_SIZE - 1) \div PAGE_SIZE

pages_to_grow(req) ==
    IF pages_needed(req) > GrowPages THEN pages_needed(req) ELSE GrowPages

grow_fits(h, pages) == h.end + pages * PAGE_SIZE <= HEAP_MAX

\* heap_end moves first, then the new pages become a free block.
grow_heap(h, pages) ==
    LET new == pages * PAGE_SIZE
    IN  coalesce(write_tags([h EXCEPT !.end = @ + new], h.end, new, TRUE), h.end)

put(h) == /\ size' = h.size /\ free' = h.free /\ footer' = h.footer
          /\ free_list' = h.list /\ heap_end' = h.end

\* Take block number i of h's list for a request.
take(h, i, req) ==
    /\ put(overwrite(carve(h, h.list[i], total_of(req)), h.list[i]))
    /\ held' = held \cup {<<h.list[i], req>>}
    /\ UNCHANGED halted

halt(why) == halted' = why /\ UNCHANGED <<size, free, footer, free_list,
                                          heap_end, held>>

kmalloc(req) ==
    LET i == first_fit(heap, total_of(req))
        pages == pages_to_grow(req)
        grown == grow_heap(heap, pages)
        j == first_fit(grown, total_of(req))
    IN  IF i # 0 THEN take(heap, i, req)
        ELSE \/ ~grow_fits(heap, pages) /\ halt("out of virtual address space")
             \/ grow_fits(heap, pages) /\ halt("out of physical memory")
             \/ grow_fits(heap, pages) /\ j # 0 /\ take(grown, j, req)
             \/ grow_fits(heap, pages) /\ j = 0 /\ halt("kmalloc failed")

\* A caller frees what it holds; ptr - sizeof(Block) is the block.
kfree(b, req) ==
    /\ held' = held \ {<<b, req>>}
    /\ IF free[b] THEN UNCHANGED <<size, free, footer, free_list, heap_end>>
       ELSE put(coalesce([heap EXCEPT !.free = [@ EXCEPT ![b] = TRUE]], b))
    /\ UNCHANGED halted

----------------------------------------------------------------------------

\* heap::init(): an empty range grown by InitPages.
Init ==
    LET none == [size |-> [a \in Addr |-> 0], free |-> [a \in Addr |-> FALSE],
                 footer |-> [a \in Addr |-> 0], list |-> << >>,
                 end |-> HEAP_START]
        h == grow_heap(none, InitPages)
    IN  /\ size = h.size /\ free = h.free /\ footer = h.footer
        /\ free_list = h.list /\ heap_end = h.end
        /\ held = {} /\ halted = "no"

Next ==
    /\ halted = "no"
    /\ \/ Cardinality(held) < MaxLive /\ \E req \in Request : kmalloc(req)
       \/ \E x \in held : kfree(x[1], x[2])

Spec == Init /\ [][Next]_vars

----------------------------------------------------------------------------
(* Properties *)

Held == {x[1] : x \in held}
Listed == ToSet(free_list)
Blocks == Held \cup Listed

\* The blocks callers hold and the free blocks tile the heap: splitting and
\* coalescing lose no byte, and no two blocks overlap.
BlocksTile ==
    /\ HEAP_START \in Blocks
    /\ \A b \in Blocks :
          /\ size[b] >= MIN_BLOCK /\ size[b] % ALIGNMENT = 0
          /\ next_block(heap, b) \in Blocks \cup {heap_end}
          /\ \A c \in Blocks : c > b => c >= next_block(heap, b)
          /\ b < heap_end

\* The boundary tags agree with the list: each block's footer repeats its
\* size, so prev_block() finds the block before any other, and the free flag
\* says whether the block is on the list, which it is once and never while a
\* caller holds it.
TagsAgree ==
    /\ \A b \in Blocks : footer[next_block(heap, b)] = size[b]
    /\ \A b \in Blocks : free[b] <=> b \in Listed
    /\ Held \cap Listed = {}
    /\ Cardinality(Listed) = Len(free_list)
    /\ Cardinality(Held) = Cardinality(held)

\* Freeing merges with both neighbours: two free blocks are never adjacent.
FullyCoalesced == \A b \in Listed : next_block(heap, b) \notin Listed

\* The memory a caller was given holds what it asked for.
HeldIsLargeEnough ==
    \A x \in held : size[x[1]] >= x[2] + HDR + FTR

\* After growing, the second search of kmalloc() always finds a block: the
\* pages it asks for cover the aligned request with header and footer.
GrowthSuffices == halted # "kmalloc failed"

\* The heap is an allocator: kmalloc() hands out disjoint blocks of at least
\* the requested size and kfree() gives back exactly one.
extent == [b \in Held |-> size[b]]
A == INSTANCE Allocator WITH Low <- HEAP_START, High <- HEAP_MAX,
                             live <- extent
ImplementsAllocator == A!Spec

============================================================================
