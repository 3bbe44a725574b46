----------------------------- MODULE Allocator -----------------------------
(***************************************************************************)
(* What kmalloc() and kfree() promise, mem/heap.hpp: a block of at least   *)
(* the requested size that overlaps no other live block, until it is       *)
(* freed.  `live` maps the address of every live block to its extent.      *)
(***************************************************************************)
EXTENDS Naturals, Functions

CONSTANTS Low, High,   \* the address range
          Request      \* sizes callers ask for

VARIABLE live          \* a function from block addresses to extents

Overlap(a, m, b, n) == a < b + n /\ b < a + m

Init == live = << >>

\* A new block, large enough for the request and clear of every other.  The
\* caller may wait for ever: the kernel halts when memory runs out.
Alloc == \E a \in Low..High :
    /\ a \notin DOMAIN live /\ DOMAIN live' = DOMAIN live \cup {a}
    /\ Restrict(live', DOMAIN live) = live
    /\ \E req \in Request : live'[a] >= req
    /\ a + live'[a] <= High
    /\ \A b \in DOMAIN live : ~Overlap(a, live'[a], b, live[b])

Free == \E a \in DOMAIN live : live' = Restrict(live, DOMAIN live \ {a})

Next == Alloc \/ Free
Spec == Init /\ [][Next]_live

============================================================================
