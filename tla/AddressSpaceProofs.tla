------------------------- MODULE AddressSpaceProofs -------------------------
(***************************************************************************)
(* Proofs about AddressSpace: no sequence of memory calls, forks, execves  *)
(* and exits, failing or not, leaks a frame, maps one twice, frees one in  *)
(* use, or lets a process see another's memory.                            *)
(*                                                                         *)
(* IndInv is inductive.  What it says of the frames is Good(m, P, X, h),   *)
(* where m is a memory (tables, data and the frames in use), P the roots   *)
(* of the processes, X frames held besides, such as those of a space being *)
(* built, and h the end of the kernel heap: roots and tables are whole     *)
(* and every entry names a frame of its own.  A call of the kernel goes    *)
(* through a chain of memories, mapping, unmapping or copying a page at a  *)
(* time; for each operator a lemma says that it keeps Good and what a      *)
(* program sees through its root, `view`, afterwards.  Loops over pages    *)
(* are covered by a least counterexample instead of induction.             *)
(*                                                                         *)
(* The theorems assume that execve() never finds its arguments too large:  *)
(* after that failure the break and the window disagree (README,           *)
(* findings).                                                              *)
(***************************************************************************)
EXTENDS AddressSpace, NumberFacts, FiniteSetTheorems, TLAPS

----------------------------------------------------------------------------
(* Pages *)

LEMMA PageIs ==
    ASSUME NEW r \in Nat, NEW i \in Index
    PROVE  /\ r * PagesPerTable + i \in Nat
           /\ region(r * PagesPerTable + i) = r /\ index(r * PagesPerTable + i) = i
<1>1. PagesPerTable \in Nat \ {0} /\ i \in 0..(PagesPerTable - 1)
  BY AddressSpaceAssumption DEF Index
<1>2. PagesPerTable * r + i = r * PagesPerTable + i /\ r * PagesPerTable + i \in Nat
  BY <1>1
<1>3. /\ (PagesPerTable * r + i) \div PagesPerTable = r
      /\ (PagesPerTable * r + i) % PagesPerTable = i
  BY <1>1, DivIs
<1> QED
  BY <1>2, <1>3 DEF region, index

LEMMA PagesOfIs ==
    ASSUME NEW r \in Nat, NEW p \in PagesOf(r)
    PROVE  /\ p \in Nat /\ region(p) = r /\ index(p) \in Index
           /\ p = r * PagesPerTable + index(p)
           /\ p >= r * PagesPerTable /\ p < (r + 1) * PagesPerTable
<1>1. PICK i \in Index : p = r * PagesPerTable + i
  BY DEF PagesOf
<1>2. PagesPerTable \in Nat \ {0} /\ i \in 0..(PagesPerTable - 1)
  BY AddressSpaceAssumption DEF Index
<1>3. (r + 1) * PagesPerTable = r * PagesPerTable + PagesPerTable /\ r * PagesPerTable \in Nat
  BY <1>2
<1>4. p >= r * PagesPerTable /\ p < (r + 1) * PagesPerTable
  BY <1>1, <1>2, <1>3
<1> QED
  BY <1>1, <1>4, PageIs

\* A number in the region's range is one of its pages.
LEMMA InPagesOf ==
    ASSUME NEW r \in Nat, NEW p \in Nat,
           p >= r * PagesPerTable, p < (r + 1) * PagesPerTable
    PROVE  p \in PagesOf(r)
<1> DEFINE i == p - r * PagesPerTable
<1>1. PagesPerTable \in Nat \ {0}
  BY AddressSpaceAssumption
<1>2. (r + 1) * PagesPerTable = r * PagesPerTable + PagesPerTable /\ r * PagesPerTable \in Nat
  BY <1>1
<1>3. i \in Index /\ p = r * PagesPerTable + i
  BY <1>1, <1>2 DEF Index
<1> QED
  BY <1>3 DEF PagesOf

LEMMA PrivateIs ==
    /\ PrivatePage = PagesOf(WINDOW) \cup PagesOf(HIGH)
    /\ \A p \in PrivatePage : /\ p \in Nat /\ region(p) \in Private /\ index(p) \in Index
                              /\ p = region(p) * PagesPerTable + index(p)
    /\ \A p, x \in PrivatePage : region(p) = region(x) /\ index(p) = index(x) => p = x
<1>1. PrivatePage = PagesOf(WINDOW) \cup PagesOf(HIGH)
  BY DEF PrivatePage, Private
<1>2. WINDOW \in Nat /\ HIGH \in Nat /\ WINDOW \in Private /\ HIGH \in Private
  BY DEF WINDOW, HIGH, Private
<1>3. ASSUME NEW p \in PrivatePage
      PROVE  /\ p \in Nat /\ region(p) \in Private /\ index(p) \in Index
             /\ p = region(p) * PagesPerTable + index(p)
  BY <1>1, <1>2, PagesOfIs
<1>4. ASSUME NEW p \in PrivatePage, NEW x \in PrivatePage,
             region(p) = region(x), index(p) = index(x)
      PROVE  p = x
  BY <1>3, <1>4
<1> QED
  BY <1>1, <1>3, <1>4

----------------------------------------------------------------------------
(* Memory values *)

Slots == Index \cup Region
Entry == [to : Nat \cup {NULL}, fl : Flag]

\* A value that has the fields of `ram`; out of frames, the rest means nothing.
HasFields(m) ==
    m \in [used : {m.used}, table : {m.table}, data : {m.data}, oom : BOOLEAN]

IsRam(m) ==
    /\ HasFields(m) /\ m.used \subseteq Frame
    /\ m.table \in [Frame -> [Slots -> Entry]] /\ m.data \in [Frame -> Value]

\* The table under entry r of a root.
tab(m, q, r) == m.table[q][r].to

\* What a page holds and permits; nothing where no page is mapped.
view(m, q, p) ==
    IF virt_to_phys(m, q, p) = NULL THEN << >>
    ELSE <<m.data[virt_to_phys(m, q, p)], leaf(m, q, p).fl>>

\* The kernel's own frames, as KernelFrames.
KF(m) ==
    {0, KernelRoot, tab(m, KernelRoot, KERNEL), tab(m, KernelRoot, HEAP)}
      \cup ({virt_to_phys(m, KernelRoot, p) : p \in PagesOf(HEAP)} \ {NULL})

\* The heap has a table, with frames below h and none from there on.
KernelOK(m, h) ==
    /\ tab(m, KernelRoot, KERNEL) \in Frame
    /\ tab(m, KernelRoot, HEAP) \in Frame \ {KernelRoot}
    /\ ~huge(m.table[KernelRoot][HEAP])
    /\ \A p \in PagesOf(HEAP) : virt_to_phys(m, KernelRoot, p) \in Frame \cup {NULL}
    /\ \A p \in PagesOf(HEAP) : p >= h => virt_to_phys(m, KernelRoot, p) = NULL

\* A space takes the shared regions from the kernel; its own have small pages.
SpacesOK(m, P) ==
    \A q \in P : /\ \A r \in Region \ Private : m.table[q][r] = m.table[KernelRoot][r]
                 /\ \A r \in Private : ~huge(m.table[q][r])

\* The frames in use are the roots P, the frames X in hand, the kernel's K, the
\* private tables and the private pages, and each is one of these only once.
Owned(m, P, X, K) ==
    /\ P \subseteq Frame /\ X \subseteq Frame /\ K \subseteq Frame
    /\ P \cap X = {} /\ P \cap K = {} /\ X \cap K = {}
    /\ \A q \in P, r \in Private : tab(m, q, r) \in (Frame \ (P \cup X \cup K)) \cup {NULL}
    /\ \A q \in P, p \in PrivatePage :
          virt_to_phys(m, q, p) \in (Frame \ (P \cup X \cup K)) \cup {NULL}
    /\ \A q, u \in P : \A r, s \in Private :
          tab(m, q, r) = tab(m, u, s) /\ tab(m, q, r) # NULL => q = u /\ r = s
    /\ \A q, u \in P : \A p, x \in PrivatePage :
          /\ virt_to_phys(m, q, p) = virt_to_phys(m, u, x)
          /\ virt_to_phys(m, q, p) # NULL
          => q = u /\ p = x
    /\ \A q, u \in P : \A r \in Private, p \in PrivatePage :
          tab(m, q, r) = virt_to_phys(m, u, p) => tab(m, q, r) = NULL
    /\ \A f \in Frame : f \in m.used <=>
          \/ f \in P \cup X \cup K
          \/ \E q \in P, r \in Private : f = tab(m, q, r)
          \/ \E q \in P, p \in PrivatePage : f = virt_to_phys(m, q, p)

Good(m, P, X, h) ==
    /\ IsRam(m) /\ ~m.oom /\ KernelOK(m, h) /\ SpacesOK(m, P)
    /\ Owned(m, P, X, KF(m))

----------------------------------------------------------------------------
(* Frames *)

LEMMA Constants ==
    /\ KernelRoot \in Frame /\ 0 \in Frame /\ Frame \subseteq Nat /\ NULL \notin Nat
    /\ NULL \notin Frame /\ Private \subseteq Slots /\ Index \subseteq Slots
    /\ Region \subseteq Slots /\ HEAP \in Region \ Private /\ KERNEL \in Region \ Private
    /\ Slots = DOMAIN Zeroed /\ Absent \in Entry /\ Zeroed \in [Slots -> Entry]
    /\ ~present(Absent) /\ ~huge(Absent)
  BY AddressSpaceAssumption
  DEF KernelRoot, Frame, Private, Slots, Region, Zeroed, Absent, Entry, Flag, present,
      huge, WINDOW, HIGH, HEAP, KERNEL

LEMMA AllocIs ==
    ASSUME NEW m, m.used \subseteq Frame, m.used # Frame
    PROVE  alloc_frame(m) \in Frame \ m.used
<1> DEFINE S == Frame \ m.used
<1>1. S \subseteq Nat /\ S # {}
  BY Constants
<1>2. \E f \in S : \A g \in S : f <= g
  <2> HIDE DEF S
  <2> QED
    BY <1>1, LeastNatural
<1> QED
  BY <1>2 DEF alloc_frame

LEMMA WithFrameIs ==
    ASSUME NEW m, HasFields(m)
    PROVE  LET n == with_frame(m)
           IN  /\ HasFields(n) /\ n.used = m.used \cup {alloc_frame(m)}
               /\ n.table = m.table /\ n.data = m.data
               /\ n.oom <=> (m.oom \/ m.used = Frame)
  BY DEF HasFields, with_frame

\* The frame that has been allocated is in hand.
LEMMA AllocKeeps ==
    ASSUME NEW m, NEW P, NEW X, NEW h, Good(m, P, X, h)
    PROVE  LET n == with_frame(m)
               f == alloc_frame(m)
           IN  /\ HasFields(n)
               /\ ~n.oom => /\ f \in Frame \ m.used /\ f \notin X
                            /\ Good(n, P, X \cup {f}, h)
                            /\ n.table = m.table /\ n.data = m.data
                            /\ \A q, p : view(n, q, p) = view(m, q, p)
<1> DEFINE n == with_frame(m)
           f == alloc_frame(m)
<1>1. HasFields(m) /\ m.oom = FALSE /\ m.used \subseteq Frame
  BY DEF Good, IsRam, HasFields
<1>2. /\ HasFields(n) /\ n.used = m.used \cup {f} /\ n.table = m.table /\ n.data = m.data
      /\ n.oom <=> (m.oom \/ m.used = Frame)
  BY <1>1, WithFrameIs
<1> HIDE DEF n, f
<1>3. ASSUME ~n.oom
      PROVE  /\ f \in Frame \ m.used /\ f \notin X /\ Good(n, P, X \cup {f}, h)
             /\ \A q, p : view(n, q, p) = view(m, q, p)
  <2>1. f \in Frame \ m.used
    BY <1>1, <1>2, <1>3, AllocIs DEF f
  <2>2. /\ \A q, r : tab(n, q, r) = tab(m, q, r)
        /\ \A q, p : virt_to_phys(n, q, p) = virt_to_phys(m, q, p)
        /\ \A q, p : view(n, q, p) = view(m, q, p)
    BY <1>2 DEF tab, virt_to_phys, view, leaf
  <2>3. KF(n) = KF(m) /\ KernelOK(n, h) /\ SpacesOK(n, P)
    BY <1>2, <2>2 DEF KF, KernelOK, SpacesOK, Good
  <2>4. IsRam(n)
    BY <1>2, <2>1 DEF Good, IsRam
  <2>5. Owned(m, P, X, KF(m))
    BY DEF Good
  <2>6. f \notin X /\ Owned(n, P, X \cup {f}, KF(m))
    BY <1>2, <2>1, <2>2, <2>5, Constants DEF Owned
  <2> QED
    BY <1>3, <2>1, <2>2, <2>3, <2>4, <2>6 DEF Good
<1> QED
  BY <1>2, <1>3 DEF n, f

\* The kernel's part does not change with tables that are not the kernel's.
LEMMA KernelSame ==
    ASSUME NEW m, NEW n, NEW h, KernelOK(m, h),
           n.table[KernelRoot] = m.table[KernelRoot],
           n.table[tab(m, KernelRoot, HEAP)] = m.table[tab(m, KernelRoot, HEAP)]
    PROVE  KernelOK(n, h) /\ KF(n) = KF(m)
<1>1. \A r : tab(n, KernelRoot, r) = tab(m, KernelRoot, r)
  BY DEF tab
<1>2. ASSUME NEW p \in PagesOf(HEAP)
      PROVE  virt_to_phys(n, KernelRoot, p) = virt_to_phys(m, KernelRoot, p)
  <2>1. region(p) = HEAP
    BY PagesOfIs DEF HEAP
  <2> QED
    BY <2>1 DEF virt_to_phys, tab
<1> QED
  BY <1>1, <1>2 DEF KernelOK, KF

----------------------------------------------------------------------------
(* Page tables *)

\* The facts about frames that the table proofs take from Good.
LEMMA GoodFacts ==
    ASSUME NEW m, NEW P, NEW X, NEW h, Good(m, P, X, h)
    PROVE  /\ HasFields(m) /\ m.oom = FALSE /\ m.used \subseteq Frame
           /\ m.table \in [Frame -> [Slots -> Entry]] /\ m.data \in [Frame -> Value]
           /\ P \subseteq m.used /\ X \subseteq m.used /\ KF(m) \subseteq m.used
           /\ P \cap X = {} /\ P \cap KF(m) = {} /\ X \cap KF(m) = {}
           /\ KernelRoot \in KF(m) /\ tab(m, KernelRoot, HEAP) \in KF(m)
           /\ \A q \in P, r \in Private :
                tab(m, q, r) \in (m.used \ (P \cup X \cup KF(m))) \cup {NULL}
           /\ \A q \in P, p \in PrivatePage :
                virt_to_phys(m, q, p) \in (m.used \ (P \cup X \cup KF(m))) \cup {NULL}
           /\ \A q \in P, r \in Private : ~huge(m.table[q][r])
<1>1. IsRam(m) /\ ~m.oom /\ SpacesOK(m, P) /\ Owned(m, P, X, KF(m))
  BY DEF Good
<1>2. HasFields(m) /\ m.used \subseteq Frame /\ m.oom \in BOOLEAN
  BY <1>1 DEF IsRam, HasFields
<1>3. m.oom = FALSE
  BY <1>1, <1>2
<1>4. KernelRoot \in KF(m) /\ tab(m, KernelRoot, HEAP) \in KF(m)
  BY DEF KF
<1>5. \A q \in P, r \in Private : ~huge(m.table[q][r])
  BY <1>1 DEF SpacesOK
<1>6. /\ P \subseteq m.used /\ X \subseteq m.used /\ KF(m) \subseteq m.used
      /\ P \cap X = {} /\ P \cap KF(m) = {} /\ X \cap KF(m) = {}
  BY <1>1 DEF Owned
<1>7. /\ \A q \in P, r \in Private :
           tab(m, q, r) \in (m.used \ (P \cup X \cup KF(m))) \cup {NULL}
      /\ \A q \in P, p \in PrivatePage :
           virt_to_phys(m, q, p) \in (m.used \ (P \cup X \cup KF(m))) \cup {NULL}
  BY <1>1 DEF Owned
<1> QED
  BY <1>1, <1>2, <1>3, <1>4, <1>5, <1>6, <1>7 DEF IsRam

\* With its table, a page has the frame its leaf names.
LEMMA LeafIs ==
    ASSUME NEW m, NEW q, NEW p, ~huge(m.table[q][region(p)])
    PROVE  virt_to_phys(m, q, p) =
             IF tab(m, q, region(p)) = NULL THEN NULL
             ELSE m.table[tab(m, q, region(p))][index(p)].to
  BY DEF virt_to_phys, tab, present

LEMMA TableWrite ==
    ASSUME NEW T \in [Frame -> [Slots -> Entry]], NEW q \in Frame, NEW r \in Slots, NEW e \in Entry
    PROVE  LET S == [T EXCEPT ![q][r] = e]
           IN  /\ S \in [Frame -> [Slots -> Entry]]
               /\ \A x \in Frame \ {q} : S[x] = T[x]
               /\ \A s \in Slots \ {r} : S[q][s] = T[q][s]
               /\ S[q][r] = e
  OBVIOUS

\* A table in a frame that nobody has.
LEMMA OwnedTable ==
    ASSUME NEW m, NEW n, NEW P, NEW X, NEW K, Owned(m, P, X, K),
           NEW q \in P, NEW r \in Private, tab(m, q, r) = NULL,
           NEW f \in Frame \ m.used, tab(n, q, r) = f, n.used = m.used \cup {f},
           \A u \in P, s \in Private : u # q \/ s # r => tab(n, u, s) = tab(m, u, s),
           \A u \in P, p \in PrivatePage : virt_to_phys(n, u, p) = virt_to_phys(m, u, p)
    PROVE  Owned(n, P, X, K)
<1>1. /\ f \notin P \cup X \cup K
      /\ \A u \in P, s \in Private : tab(m, u, s) # f
      /\ \A u \in P, p \in PrivatePage : virt_to_phys(m, u, p) # f
  BY DEF Owned
<1>2. \A u \in P, s \in Private : tab(n, u, s) \in (Frame \ (P \cup X \cup K)) \cup {NULL}
  BY <1>1 DEF Owned
<1>3. \A v, u \in P : \A x, s \in Private :
          tab(n, v, x) = tab(n, u, s) /\ tab(n, v, x) # NULL => v = u /\ x = s
  BY <1>1 DEF Owned
<1>4. \A v, u \in P : \A x \in Private, p \in PrivatePage :
          tab(n, v, x) = virt_to_phys(n, u, p) => tab(n, v, x) = NULL
  BY <1>1 DEF Owned
<1>5. ASSUME NEW g \in Frame
      PROVE  g \in n.used <=>
               \/ g \in P \cup X \cup K
               \/ \E u \in P, s \in Private : g = tab(n, u, s)
               \/ \E u \in P, p \in PrivatePage : g = virt_to_phys(n, u, p)
  <2>1. g \in m.used <=>
               \/ g \in P \cup X \cup K
               \/ \E u \in P, s \in Private : g = tab(m, u, s)
               \/ \E u \in P, p \in PrivatePage : g = virt_to_phys(m, u, p)
    BY DEF Owned
  <2>2. g # NULL
    BY Constants
  <2> QED
    BY <2>1, <2>2
<1> QED
  BY <1>2, <1>3, <1>4, <1>5 DEF Owned

LEMMA EnsureKeeps ==
    ASSUME NEW m, NEW P, NEW X, NEW h, Good(m, P, X, h), NEW q \in P, NEW r \in Private
    PROVE  LET n == ensure_table(m, q, r)
           IN  /\ HasFields(n)
               /\ ~n.oom => /\ Good(n, P, X, h) /\ tab(n, q, r) # NULL
                            /\ n.data = m.data
                            /\ \A u \in P, p \in PrivatePage :
                                 /\ virt_to_phys(n, u, p) = virt_to_phys(m, u, p)
                                 /\ view(n, u, p) = view(m, u, p)
<1> DEFINE n == ensure_table(m, q, r)
           w == with_frame(m)
           f == alloc_frame(m)
<1>0. /\ HasFields(m) /\ m.used \subseteq Frame
      /\ m.table \in [Frame -> [Slots -> Entry]] /\ m.data \in [Frame -> Value]
      /\ P \subseteq m.used /\ X \subseteq m.used /\ KF(m) \subseteq m.used
      /\ P \cap KF(m) = {} /\ KernelRoot \in KF(m) /\ tab(m, KernelRoot, HEAP) \in KF(m)
  BY GoodFacts
<1>a. /\ \A u \in P, s \in Private : tab(m, u, s) \in (m.used \ P) \cup {NULL}
      /\ \A u \in P, s \in Private : ~huge(m.table[u][s])
  BY GoodFacts
<1>1. CASE present(m.table[q][r])
  <2>1. n = m
    BY <1>1 DEF ensure_table
  <2> QED
    BY <1>0, <1>1, <2>1 DEF present, tab
<1>2. CASE ~present(m.table[q][r])
  <2>1. n = [w EXCEPT !.table[f] = Zeroed, !.table[q][r] = [to |-> f, fl |-> "TABLE"]]
    BY <1>2 DEF ensure_table
  <2>2. /\ HasFields(w) /\ w.used = m.used \cup {f} /\ w.table = m.table /\ w.data = m.data
        /\ w.oom <=> (m.oom \/ m.used = Frame)
    BY <1>0, WithFrameIs
  <2> HIDE DEF n, w, f
  <2>3. /\ HasFields(n) /\ n.used = w.used /\ n.data = w.data /\ n.oom = w.oom
        /\ n.table = [[m.table EXCEPT ![f] = Zeroed] EXCEPT ![q][r] = [to |-> f, fl |-> "TABLE"]]
    BY <2>1, <2>2 DEF HasFields
  <2>4. SUFFICES ASSUME ~n.oom
                 PROVE  /\ Good(n, P, X, h) /\ tab(n, q, r) # NULL /\ n.data = m.data
                        /\ \A u \in P, p \in PrivatePage :
                             /\ virt_to_phys(n, u, p) = virt_to_phys(m, u, p)
                             /\ view(n, u, p) = view(m, u, p)
    BY <2>3 DEF n
  <2>5. f \in Frame \ m.used
    <3>1. m.used # Frame
      BY <2>2, <2>3, <2>4
    <3> QED
      BY <3>1, <1>0, AllocIs DEF f
  <2>6. q \in Frame /\ q # f /\ q \in m.used /\ r \in Slots
    BY <2>5, <1>0, Constants
  <2>7. /\ n.table \in [Frame -> [Slots -> Entry]]
        /\ \A x \in Frame \ {f, q} : n.table[x] = m.table[x]
        /\ n.table[f] = Zeroed
        /\ \A s \in Slots \ {r} : n.table[q][s] = m.table[q][s]
        /\ n.table[q][r] = [to |-> f, fl |-> "TABLE"]
    <3>1. m.table \in [Frame -> [Slots -> Entry]] /\ Zeroed \in [Slots -> Entry]
      BY GoodFacts, Constants
    <3>2. [to |-> f, fl |-> "TABLE"] \in Entry
      BY <2>5, Constants DEF Entry, Flag
    <3> DEFINE T == [m.table EXCEPT ![f] = Zeroed]
    <3>3. /\ T \in [Frame -> [Slots -> Entry]] /\ T[f] = Zeroed
          /\ \A x \in Frame \ {f} : T[x] = m.table[x]
      BY <2>5, <3>1
    <3> HIDE DEF T
    <3>4. n.table = [T EXCEPT ![q][r] = [to |-> f, fl |-> "TABLE"]]
      BY <2>3 DEF T
    <3> QED
      BY <2>5, <2>6, <3>2, <3>3, <3>4, TableWrite
  <2>8. KernelOK(n, h) /\ KF(n) = KF(m)
    <3>1. KernelRoot \in Frame \ {f, q} /\ tab(m, KernelRoot, HEAP) \in Frame \ {f, q}
      BY <2>5, <2>6, <1>0
    <3> QED
      BY <2>7, <3>1, KernelSame DEF Good
  <2>9. \A u \in P : \A s \in Slots : u # q \/ s # r => n.table[u][s] = m.table[u][s]
    <3>1. ASSUME NEW u \in P, u # q PROVE n.table[u] = m.table[u]
      <4>1. u \in Frame \ {f, q}
        BY <2>5, <3>1, <1>0
      <4> QED
        BY <2>7, <4>1
    <3> QED
      BY <2>7, <3>1
  <2>10. SpacesOK(n, P)
    <3>1. /\ \A s \in Region \ Private : n.table[KernelRoot][s] = m.table[KernelRoot][s]
          /\ ~huge(n.table[q][r])
      <4>1. KernelRoot \in Frame \ {f, q}
        BY <2>5, <2>6, <1>0
      <4> QED
        BY <2>7, <4>1 DEF huge
    <3> QED
      BY <2>9, <3>1, Constants DEF SpacesOK, Good
  <2>11. /\ \A u \in P, s \in Private : u # q \/ s # r => tab(n, u, s) = tab(m, u, s)
         /\ tab(n, q, r) = f /\ tab(m, q, r) = NULL
    BY <1>2, <2>7, <2>9, Constants DEF tab, present
  <2>12. ASSUME NEW u \in P, NEW p \in PrivatePage
         PROVE  /\ virt_to_phys(n, u, p) = virt_to_phys(m, u, p)
                /\ view(n, u, p) = view(m, u, p)
    <3>1. region(p) \in Private /\ index(p) \in Slots
      BY PrivateIs, Constants
    <3>2. ~huge(n.table[u][region(p)]) /\ ~huge(m.table[u][region(p)])
      BY <2>10, <3>1, <1>a DEF SpacesOK
    <3>3. CASE u = q /\ region(p) = r
      <4>1. virt_to_phys(m, u, p) = NULL
        BY <2>11, <3>2, <3>3, LeafIs
      <4>2. n.table[f][index(p)] = Absent
        BY <2>7, <3>1, Constants DEF Zeroed, Slots
      <4>3. virt_to_phys(n, u, p) = NULL
        BY <2>11, <3>2, <3>3, <4>2, LeafIs DEF Absent
      <4> QED
        BY <4>1, <4>3 DEF view
    <3>4. CASE u # q \/ region(p) # r
      <4>1. tab(n, u, region(p)) = tab(m, u, region(p))
        BY <2>11, <3>1, <3>4
      <4>2. tab(m, u, region(p)) # NULL =>
              n.table[tab(m, u, region(p))] = m.table[tab(m, u, region(p))]
        BY <2>5, <2>6, <2>7, <3>1, <1>0, <1>a
      <4>3. virt_to_phys(n, u, p) = virt_to_phys(m, u, p)
        BY <3>2, <4>1, <4>2, LeafIs
      <4>4. virt_to_phys(m, u, p) # NULL => leaf(n, u, p) = leaf(m, u, p)
        BY <3>2, <4>1, <4>2, LeafIs DEF leaf, tab
      <4> QED
        BY <2>2, <2>3, <4>3, <4>4 DEF view
    <3> QED
      BY <3>3, <3>4
  <2>13. Owned(n, P, X, KF(m))
    <3>1. Owned(m, P, X, KF(m)) /\ n.used = m.used \cup {f}
      BY <2>2, <2>3 DEF Good
    <3> QED
      BY <2>5, <2>11, <2>12, <3>1, OwnedTable
  <2>14. IsRam(n)
    BY <2>2, <2>3, <2>5, <2>7, <1>0 DEF IsRam
  <2> QED
    BY <2>2, <2>3, <2>4, <2>5, <2>8, <2>10, <2>11, <2>12, <2>13, <2>14, Constants DEF Good
<1> QED
  BY <1>1, <1>2

\* A frame in hand becomes a page.
LEMMA OwnedPage ==
    ASSUME NEW m, NEW n, NEW P, NEW X, NEW K, Owned(m, P, X, K),
           NEW q \in P, NEW p \in PrivatePage, virt_to_phys(m, q, p) = NULL,
           NEW f \in X, virt_to_phys(n, q, p) = f, n.used = m.used,
           \A u \in P, s \in Private : tab(n, u, s) = tab(m, u, s),
           \A u \in P, x \in PrivatePage :
              u # q \/ x # p => virt_to_phys(n, u, x) = virt_to_phys(m, u, x)
    PROVE  Owned(n, P, X \ {f}, K)
<1>1. /\ f \in Frame /\ f \notin P \cup K /\ f # NULL
      /\ \A u \in P, s \in Private : tab(m, u, s) # f
      /\ \A u \in P, x \in PrivatePage : virt_to_phys(m, u, x) # f
  BY Constants DEF Owned
<1>2. \A u \in P, x \in PrivatePage :
         virt_to_phys(n, u, x) \in (Frame \ (P \cup (X \ {f}) \cup K)) \cup {NULL}
  BY <1>1 DEF Owned
<1>3. \A v, u \in P : \A x, y \in PrivatePage :
          /\ virt_to_phys(n, v, x) = virt_to_phys(n, u, y)
          /\ virt_to_phys(n, v, x) # NULL
          => v = u /\ x = y
  BY <1>1 DEF Owned
<1>4. \A v, u \in P : \A s \in Private, x \in PrivatePage :
          tab(n, v, s) = virt_to_phys(n, u, x) => tab(n, v, s) = NULL
  BY <1>1 DEF Owned
<1>5. ASSUME NEW g \in Frame
      PROVE  g \in n.used <=>
               \/ g \in P \cup (X \ {f}) \cup K
               \/ \E u \in P, s \in Private : g = tab(n, u, s)
               \/ \E u \in P, x \in PrivatePage : g = virt_to_phys(n, u, x)
  <2>1. g \in m.used <=>
               \/ g \in P \cup X \cup K
               \/ \E u \in P, s \in Private : g = tab(m, u, s)
               \/ \E u \in P, x \in PrivatePage : g = virt_to_phys(m, u, x)
    BY DEF Owned
  <2>2. g # NULL
    BY Constants
  <2> QED
    BY <2>1, <2>2
<1>6. \A u \in P, s \in Private : tab(n, u, s) \in (Frame \ (P \cup (X \ {f}) \cup K)) \cup {NULL}
  BY DEF Owned
<1> QED
  BY <1>2, <1>3, <1>4, <1>5, <1>6 DEF Owned

\* The leaf of an unmapped page is set, and what the frame holds.
LEMMA SetLeafKeeps ==
    ASSUME NEW m, NEW P, NEW X, NEW h, Good(m, P, X, h), NEW q \in P, NEW p \in PrivatePage,
           tab(m, q, region(p)) # NULL, virt_to_phys(m, q, p) = NULL,
           NEW f \in X, NEW fl \in Flag, NEW v \in Value,
           NEW n, HasFields(n), ~n.oom, n.used = m.used,
           n.table = [m.table EXCEPT ![tab(m, q, region(p))][index(p)] = [to |-> f, fl |-> fl]],
           n.data = [m.data EXCEPT ![f] = v]
    PROVE  /\ Good(n, P, X \ {f}, h) /\ view(n, q, p) = <<v, fl>>
           /\ \A u \in P, x \in PrivatePage :
                u # q \/ x # p => view(n, u, x) = view(m, u, x)
<1> DEFINE t == tab(m, q, region(p))
           i == index(p)
<1>0. /\ m.used \subseteq Frame
      /\ m.table \in [Frame -> [Slots -> Entry]] /\ m.data \in [Frame -> Value]
      /\ P \subseteq m.used /\ X \subseteq m.used /\ KF(m) \subseteq m.used
      /\ KernelRoot \in KF(m) /\ tab(m, KernelRoot, HEAP) \in KF(m)
  BY GoodFacts
<1>a. /\ \A u \in P, s \in Private : tab(m, u, s) \in (m.used \ (P \cup X \cup KF(m))) \cup {NULL}
      /\ \A u \in P, s \in Private : ~huge(m.table[u][s])
  BY ONLY Good(m, P, X, h), GoodFacts
<1>b. region(p) \in Private /\ i \in Index /\ i \in Slots
  BY PrivateIs, Constants
<1>c. t \in Frame /\ t \notin P /\ t \notin KF(m) /\ f \in Frame /\ f # NULL
  BY <1>0, <1>a, <1>b, Constants
<1>1. /\ n.table \in [Frame -> [Slots -> Entry]]
      /\ \A x \in Frame \ {t} : n.table[x] = m.table[x]
      /\ \A s \in Slots \ {i} : n.table[t][s] = m.table[t][s]
      /\ n.table[t][i] = [to |-> f, fl |-> fl]
  <2>1. [to |-> f, fl |-> fl] \in Entry
    BY <1>c, Constants DEF Entry
  <2> HIDE DEF t, i
  <2>2. n.table = [m.table EXCEPT ![t][i] = [to |-> f, fl |-> fl]]
    BY DEF t, i
  <2> QED
    BY ONLY <1>0, <1>b, <1>c, <2>1, <2>2, TableWrite
<1>2. /\ n.data \in [Frame -> Value] /\ n.data[f] = v
      /\ \A g \in Frame \ {f} : n.data[g] = m.data[g]
  BY <1>0, <1>c
<1> HIDE DEF t, i
<1>3. KernelOK(n, h) /\ KF(n) = KF(m)
  <2>1. KernelRoot \in Frame \ {t} /\ tab(m, KernelRoot, HEAP) \in Frame \ {t}
    BY <1>0, <1>c
  <2> QED
    BY <1>1, <2>1, KernelSame DEF Good
<1>4. \A u \in P : n.table[u] = m.table[u]
  BY <1>0, <1>1, <1>c
<1>5. n.table[KernelRoot] = m.table[KernelRoot]
  BY <1>0, <1>1, <1>c
<1>6. SpacesOK(n, P)
  BY <1>4, <1>5 DEF SpacesOK, Good
<1>7. \A u \in P, s \in Private : tab(n, u, s) = tab(m, u, s)
  BY <1>4 DEF tab
<1>8. Owned(m, P, X, KF(m))
  BY DEF Good
<1>9. ASSUME NEW u \in P, NEW x \in PrivatePage
      PROVE  /\ ~huge(n.table[u][region(x)]) /\ ~huge(m.table[u][region(x)])
             /\ region(x) \in Private /\ index(x) \in Slots
             /\ tab(n, u, region(x)) = tab(m, u, region(x))
  <2>1. region(x) \in Private /\ index(x) \in Slots
    BY PrivateIs, Constants
  <2> QED
    BY <1>4, <1>7, <1>a, <2>1
<1>10. /\ virt_to_phys(n, q, p) = f /\ leaf(n, q, p).fl = fl
  <2>1. leaf(n, q, p) = [to |-> f, fl |-> fl]
    <3>1. n.table[q][region(p)].to = t
      BY <1>4 DEF tab, t
    <3> QED
      BY <1>1, <3>1 DEF leaf, i
  <2>2. virt_to_phys(n, q, p) = n.table[t][i].to
    <3>1. ~huge(n.table[q][region(p)]) /\ tab(n, q, region(p)) = t /\ t # NULL
      BY <1>9 DEF t
    <3> QED
      BY ONLY <3>1, LeafIs DEF i
  <2> QED
    BY <1>1, <2>1, <2>2
<1>11. ASSUME NEW u \in P, NEW x \in PrivatePage, u # q \/ x # p
       PROVE  /\ virt_to_phys(n, u, x) = virt_to_phys(m, u, x)
              /\ view(n, u, x) = view(m, u, x)
  <2> DEFINE y == tab(m, u, region(x))
  <2>0. /\ ~huge(n.table[u][region(x)]) /\ ~huge(m.table[u][region(x)])
        /\ region(x) \in Private /\ index(x) \in Slots
        /\ tab(n, u, region(x)) = y
    BY <1>9
  <2>1. y # NULL => y \in Frame
    BY <1>0, <1>9, <1>a
  <2>2. y # NULL => n.table[y][index(x)] = m.table[y][index(x)]
    <3>1. CASE y = t /\ y # NULL
      <4>1. u = q /\ region(x) = region(p)
        BY <1>8, <1>9, <1>b, <3>1 DEF Owned, t
      <4>2. index(x) # i
        BY <1>11, <4>1, PrivateIs DEF i
      <4> QED
        BY <1>1, <1>9, <3>1, <4>2
    <3>2. CASE y # t
      BY <1>1, <2>1, <3>2
    <3> QED
      BY <3>1, <3>2
  <2>3. virt_to_phys(n, u, x) = virt_to_phys(m, u, x)
    BY ONLY <2>0, <2>2, LeafIs
  <2>4. virt_to_phys(m, u, x) # NULL => leaf(n, u, x) = leaf(m, u, x)
    <3>1. ASSUME virt_to_phys(m, u, x) # NULL PROVE y # NULL
      BY <2>0, <3>1, LeafIs
    <3>2. leaf(n, u, x) = n.table[y][index(x)] /\ leaf(m, u, x) = m.table[y][index(x)]
      BY <2>0 DEF leaf, tab
    <3> QED
      BY <2>2, <3>1, <3>2
  <2>5. virt_to_phys(m, u, x) # NULL =>
          virt_to_phys(m, u, x) \in Frame /\ virt_to_phys(m, u, x) # f
    BY <1>8, <1>c DEF Owned
  <2> QED
    BY <1>2, <2>3, <2>4, <2>5 DEF view
<1>12. Owned(n, P, X \ {f}, KF(m))
  BY <1>7, <1>8, <1>10, <1>11, OwnedPage
<1>13. view(n, q, p) = <<v, fl>>
  BY <1>2, <1>10, <1>c DEF view
<1>14. IsRam(n)
  BY <1>0, <1>1, <1>2 DEF IsRam
<1> QED
  BY <1>3, <1>6, <1>11, <1>12, <1>13, <1>14 DEF Good

LEMMA ViewIs ==
    ASSUME NEW m, NEW q, NEW p
    PROVE  /\ view(m, q, p) = << >> <=> virt_to_phys(m, q, p) = NULL
           /\ view(m, q, p) # << >> =>
                view(m, q, p) = <<m.data[virt_to_phys(m, q, p)], leaf(m, q, p).fl>>
<1>1. \A a, b : <<a, b>> # << >>
  OBVIOUS
<1> QED
  BY <1>1 DEF view

\* Out of frames stays out of frames.
LEMMA MapIntoMono ==
    ASSUME NEW m, HasFields(m), NEW q, NEW p, NEW f, NEW fl
    PROVE  LET n == map_into(m, q, p, f, fl)
           IN  HasFields(n) /\ (m.oom => n.oom)
<1> DEFINE r == region(p)
           split == IF huge(m.table[q][r]) THEN split_huge_page(m, q, r) ELSE m
           full == ensure_table(split, q, r)
           n == map_into(m, q, p, f, fl)
<1>1. HasFields(split) /\ (m.oom => split.oom)
  <2>1. HasFields(with_frame(m)) /\ (m.oom => with_frame(m).oom)
    BY WithFrameIs
  <2>2. HasFields(split_huge_page(m, q, r)) /\ split_huge_page(m, q, r).oom = with_frame(m).oom
    BY <2>1 DEF split_huge_page, HasFields
  <2> QED
    BY <2>1, <2>2
<1> HIDE DEF split
<1>2. HasFields(full) /\ (split.oom => full.oom)
  <2>1. HasFields(with_frame(split)) /\ (split.oom => with_frame(split).oom)
    BY <1>1, WithFrameIs
  <2> QED
    BY <1>1, <2>1 DEF ensure_table, HasFields
<1>3. n = [full EXCEPT !.table[full.table[q][r].to][index(p)] = [to |-> f, fl |-> fl]]
  BY DEF map_into, split
<1> HIDE DEF full, n
<1>4. HasFields(n) /\ n.oom = full.oom
  BY <1>2, <1>3 DEF HasFields
<1> QED
  BY <1>1, <1>2, <1>4 DEF n

LEMMA MapNewPageMono ==
    ASSUME NEW m, HasFields(m), NEW q, NEW p, NEW fl, NEW v
    PROVE  LET n == map_new_page(m, q, p, fl, v)
           IN  HasFields(n) /\ (m.oom => n.oom) /\ (with_frame(m).oom => n.oom)
<1> DEFINE w == with_frame(m)
           g == map_into(w, q, p, alloc_frame(m), fl)
           n == map_new_page(m, q, p, fl, v)
<1>1. HasFields(w) /\ (m.oom => w.oom)
  BY WithFrameIs
<1>2. HasFields(g) /\ (w.oom => g.oom)
  BY <1>1, MapIntoMono
<1>3. n = [g EXCEPT !.data[alloc_frame(m)] = v]
  BY DEF map_new_page
<1> HIDE DEF w, g, n
<1>4. HasFields(n) /\ n.oom = g.oom
  BY <1>2, <1>3 DEF HasFields
<1> QED
  BY <1>1, <1>2, <1>4 DEF n, w

\* A new page: it has its contents and permissions, no other page changes.
LEMMA MapNewPageKeeps ==
    ASSUME NEW m, NEW P, NEW X, NEW h, Good(m, P, X, h), NEW q \in P, NEW p \in PrivatePage,
           view(m, q, p) = << >>, NEW fl \in Flag, NEW v \in Value
    PROVE  LET n == map_new_page(m, q, p, fl, v)
           IN  /\ HasFields(n)
               /\ ~n.oom => /\ Good(n, P, X, h) /\ view(n, q, p) = <<v, fl>>
                            /\ \A u \in P, x \in PrivatePage :
                                 u # q \/ x # p => view(n, u, x) = view(m, u, x)
<1> DEFINE w == with_frame(m)
           f == alloc_frame(m)
           r == region(p)
           full == ensure_table(w, q, r)
           g == map_into(w, q, p, f, fl)
           n == map_new_page(m, q, p, fl, v)
<1>0. HasFields(m) /\ r \in Private
  BY GoodFacts, PrivateIs
<1>1. HasFields(n) /\ (w.oom => n.oom)
  BY <1>0, MapNewPageMono
<1>2. SUFFICES ASSUME ~n.oom
               PROVE  /\ Good(n, P, X, h) /\ view(n, q, p) = <<v, fl>>
                      /\ \A u \in P, x \in PrivatePage :
                           u # q \/ x # p => view(n, u, x) = view(m, u, x)
  BY <1>1
<1>3. /\ f \in Frame \ m.used /\ f \notin X /\ Good(w, P, X \cup {f}, h)
      /\ w.table = m.table /\ w.data = m.data
      /\ \A u, x : view(w, u, x) = view(m, u, x)
  BY <1>1, <1>2, AllocKeeps
<1> HIDE DEF w, f, n
<1>4. ~huge(w.table[q][r])
  BY <1>0, <1>3 DEF Good, SpacesOK
<1>5. g = [full EXCEPT !.table[full.table[q][r].to][index(p)] = [to |-> f, fl |-> fl]]
  BY <1>4 DEF map_into
<1>6. n = [g EXCEPT !.data[f] = v]
  BY DEF map_new_page, n, w, f
<1>7. HasFields(full)
  BY <1>0, <1>3, EnsureKeeps
<1>8. tab(full, q, r) = full.table[q][r].to
  BY DEF tab
<1> HIDE DEF full, g, r
<1>9. /\ HasFields(g) /\ g.used = full.used /\ g.data = full.data /\ g.oom = full.oom
      /\ g.table = [full.table EXCEPT ![tab(full, q, r)][index(p)] = [to |-> f, fl |-> fl]]
  BY <1>5, <1>7, <1>8 DEF HasFields
<1>10. /\ n.used = full.used /\ n.oom = full.oom /\ n.data = [full.data EXCEPT ![f] = v]
       /\ n.table = [full.table EXCEPT ![tab(full, q, r)][index(p)] = [to |-> f, fl |-> fl]]
  BY <1>6, <1>9 DEF HasFields
<1>11. /\ Good(full, P, X \cup {f}, h) /\ tab(full, q, r) # NULL
       /\ \A u \in P, x \in PrivatePage : view(full, u, x) = view(w, u, x)
  <2>1. ~full.oom
    BY <1>2, <1>10
  <2> QED
    BY <1>0, <1>3, <2>1, EnsureKeeps DEF full
<1>12. virt_to_phys(full, q, p) = NULL
  BY <1>3, <1>11, ViewIs
<1>13. ~n.oom
  BY <1>2
<1>14. /\ Good(n, P, (X \cup {f}) \ {f}, h) /\ view(n, q, p) = <<v, fl>>
       /\ \A u \in P, x \in PrivatePage :
            u # q \/ x # p => view(n, u, x) = view(full, u, x)
  <2> DEFINE Y == X \cup {f}
  <2>1. /\ f \in Y /\ Good(full, P, Y, h) /\ HasFields(n) /\ q \in P /\ p \in PrivatePage
        /\ tab(full, q, region(p)) # NULL /\ fl \in Flag /\ v \in Value
        /\ n.table = [full.table EXCEPT ![tab(full, q, region(p))][index(p)] =
                        [to |-> f, fl |-> fl]]
    BY <1>1, <1>10, <1>11 DEF r
  <2> HIDE DEF Y
  <2>2. /\ Good(n, P, Y \ {f}, h) /\ view(n, q, p) = <<v, fl>>
        /\ \A u \in P, x \in PrivatePage :
             u # q \/ x # p => view(n, u, x) = view(full, u, x)
    BY ONLY <2>1, <1>10, <1>12, <1>13, SetLeafKeeps
  <2> QED
    BY <2>2 DEF Y
<1>15. (X \cup {f}) \ {f} = X
  BY <1>3
<1> QED
  BY <1>3, <1>11, <1>14, <1>15

----------------------------------------------------------------------------
(* Sequences of pages *)

\* `g` maps the first k pages, one after the other.
Chain(g, m, q, s, k) ==
    g = [i \in 0..k |-> IF i = 0 THEN m ELSE map_page(g[i - 1], q, s[i])]

LEMMA ChainIs ==
    ASSUME NEW m, NEW q, NEW s, Len(s) \in Nat
    PROVE  \E g : Chain(g, m, q, s, Len(s)) /\ map_pages(m, q, s) = g[Len(s)]
<1> DEFINE Has(k) == \E g : Chain(g, m, q, s, k)
           Bad == {k \in Nat : ~Has(k)}
<1>1. Has(0)
  <2>1. Chain([i \in 0..0 |-> m], m, q, s, 0)
    BY DEF Chain
  <2> QED
    BY <2>1
<1>2. ASSUME NEW k \in Nat, k > 0, Has(k - 1) PROVE Has(k)
  <2>1. PICK g : Chain(g, m, q, s, k - 1)
    BY <1>2
  <2> DEFINE z == [i \in 0..k |-> IF i < k THEN g[i] ELSE map_page(g[k - 1], q, s[k])]
  <2>2. ASSUME NEW i \in 0..k
        PROVE  z[i] = IF i = 0 THEN m ELSE map_page(z[i - 1], q, s[i])
    <3>1. CASE i = 0
      <4>1. z[i] = g[0] /\ 0 \in 0..(k - 1)
        BY <1>2, <3>1
      <4>2. g[0] = m
        BY <2>1, <4>1 DEF Chain
      <4> QED
        BY <3>1, <4>1, <4>2
    <3>2. CASE i > 0 /\ i < k
      <4>1. /\ z[i] = g[i] /\ z[i - 1] = g[i - 1]
            /\ i \in 0..(k - 1) /\ i - 1 \in 0..(k - 1)
        BY <1>2, <3>2
      <4>2. g[i] = map_page(g[i - 1], q, s[i])
        BY <2>1, <3>2, <4>1 DEF Chain
      <4> QED
        BY <3>2, <4>1, <4>2
    <3>3. CASE i = k
      <4>1. z[i] = map_page(g[k - 1], q, s[k]) /\ z[i - 1] = g[k - 1] /\ i # 0
        BY <1>2, <3>3
      <4> QED
        BY <3>3, <4>1
    <3> QED
      BY <3>1, <3>2, <3>3
  <2>3. z = [i \in 0..k |-> z[i]]
    OBVIOUS
  <2> HIDE DEF z
  <2>4. Chain(z, m, q, s, k)
    BY <2>2, <2>3 DEF Chain
  <2> QED
    BY <2>4
<1>3. Bad = {}
  <2> HIDE DEF Has
  <2>1. SUFFICES ASSUME Bad # {} PROVE FALSE
    OBVIOUS
  <2>2. PICK k \in Bad : \A j \in Bad : k <= j
    BY <2>1, LeastNatural
  <2>3. k > 0 /\ k - 1 \in Nat /\ k - 1 \notin Bad
    BY <1>1, <2>2
  <2> QED
    BY <1>2, <2>2, <2>3
<1>4. PICK f : Chain(f, m, q, s, Len(s))
  <2>1. Has(Len(s))
    BY <1>3
  <2> QED
    BY <2>1
<1>5. f = [i \in 0..Len(s) |-> IF i = 0 THEN m ELSE map_page(f[i - 1], q, s[i])]
  BY <1>4 DEF Chain
<1>6. \E g : /\ g = [i \in 0..Len(s) |-> IF i = 0 THEN m ELSE map_page(g[i - 1], q, s[i])]
             /\ map_pages(m, q, s) = g[Len(s)]
  BY <1>5 DEF map_pages
<1> QED
  BY <1>6 DEF Chain

\* The pages of s are not mapped under q, and all different.
Fits(m, q, s) ==
    /\ Len(s) \in Nat
    /\ \A i \in 1..Len(s) : s[i].page # NULL =>
          /\ s[i].page \in PrivatePage /\ view(m, q, s[i].page) = << >>
          /\ s[i].fl \in Flag /\ s[i].val \in Value
    /\ \A i, j \in 1..Len(s) : s[i].page = s[j].page /\ s[i].page # NULL => i = j

\* n is m with the first i pages of s mapped under q.
Added(m, n, P, h, q, s, i) ==
    /\ HasFields(n)
    /\ ~n.oom =>
         /\ Good(n, P, {}, h)
         /\ \A u \in P \ {q}, x \in PrivatePage : view(n, u, x) = view(m, u, x)
         /\ \A x \in PrivatePage : (\A j \in 1..i : s[j].page # x) => view(n, q, x) = view(m, q, x)
         /\ \A j \in 1..i : s[j].page # NULL =>
               view(n, q, s[j].page) = <<s[j].val, s[j].fl>>

LEMMA MapPageAdds ==
    ASSUME NEW m, NEW n, NEW P, NEW h, NEW q \in P, NEW s, Fits(m, q, s),
           NEW i \in 1..Len(s), Added(m, n, P, h, q, s, i - 1)
    PROVE  Added(m, map_page(n, q, s[i]), P, h, q, s, i)
<1> DEFINE e == s[i]
           z == map_page(n, q, e)
<1>0. HasFields(n) /\ Len(s) \in Nat /\ NULL \notin PrivatePage
  BY Constants, PrivateIs DEF Added, Fits
<1>1. CASE e.page = NULL
  <2>1. z = n
    BY <1>1 DEF map_page
  <2>2. \A x \in PrivatePage : (\A j \in 1..i : s[j].page # x) <=> (\A j \in 1..(i - 1) : s[j].page # x)
    BY <1>0, <1>1
  <2>3. \A j \in 1..i : s[j].page # NULL => j \in 1..(i - 1)
    BY <1>0, <1>1
  <2> QED
    BY <1>0, <2>1, <2>2, <2>3 DEF Added
<1>2. CASE e.page # NULL
  <2> DEFINE p == e.page
  <2>1. z = map_new_page(n, q, p, e.fl, e.val)
    BY <1>2 DEF map_page
  <2>2. /\ p \in PrivatePage /\ view(m, q, p) = << >> /\ e.fl \in Flag /\ e.val \in Value
        /\ \A j \in 1..(i - 1) : s[j].page # p
    BY <1>0, <1>2 DEF Fits
  <2> HIDE DEF z, p, e
  <2>3. HasFields(z) /\ (n.oom => z.oom)
    BY <1>0, <2>1, MapNewPageMono
  <2>4. SUFFICES ASSUME ~z.oom
                 PROVE  /\ Good(z, P, {}, h)
                        /\ \A u \in P \ {q}, x \in PrivatePage : view(z, u, x) = view(m, u, x)
                        /\ \A x \in PrivatePage :
                              (\A j \in 1..i : s[j].page # x) => view(z, q, x) = view(m, q, x)
                        /\ \A j \in 1..i : s[j].page # NULL =>
                              view(z, q, s[j].page) = <<s[j].val, s[j].fl>>
    BY <2>3 DEF Added, z, e
  <2>5. /\ Good(n, P, {}, h)
        /\ \A u \in P \ {q}, x \in PrivatePage : view(n, u, x) = view(m, u, x)
        /\ \A x \in PrivatePage :
              (\A j \in 1..(i - 1) : s[j].page # x) => view(n, q, x) = view(m, q, x)
        /\ \A j \in 1..(i - 1) : s[j].page # NULL =>
              view(n, q, s[j].page) = <<s[j].val, s[j].fl>>
    BY <2>3, <2>4 DEF Added
  <2>6. view(n, q, p) = << >>
    BY <2>2, <2>5
  <2>7. /\ Good(z, P, {}, h) /\ view(z, q, p) = <<e.val, e.fl>>
        /\ \A u \in P, x \in PrivatePage : u # q \/ x # p => view(z, u, x) = view(n, u, x)
    BY <2>1, <2>2, <2>4, <2>5, <2>6, MapNewPageKeeps
  <2>8. \A u \in P \ {q}, x \in PrivatePage : view(z, u, x) = view(m, u, x)
    BY <2>5, <2>7
  <2>9. ASSUME NEW x \in PrivatePage, \A j \in 1..i : s[j].page # x
        PROVE  view(z, q, x) = view(m, q, x)
    <3>1. x # p
      BY <1>0, <2>9 DEF p, e
    <3> QED
      BY <1>0, <2>5, <2>7, <2>9, <3>1
  <2>10. ASSUME NEW j \in 1..i, s[j].page # NULL
         PROVE  view(z, q, s[j].page) = <<s[j].val, s[j].fl>>
    <3>1. CASE j = i
      BY <2>7, <3>1 DEF p, e
    <3>2. CASE j \in 1..(i - 1)
      <4>1. s[j].page \in PrivatePage /\ s[j].page # p
        BY <1>0, <2>2, <2>10, <3>2 DEF Fits
      <4> QED
        BY <2>5, <2>7, <2>10, <3>2, <4>1
    <3> QED
      BY <3>1, <3>2
  <2> QED
    BY <2>7, <2>8, <2>9, <2>10
<1> QED
  BY <1>1, <1>2

LEMMA MapPagesAdds ==
    ASSUME NEW m, NEW P, NEW h, Good(m, P, {}, h), NEW q \in P, NEW s, Fits(m, q, s)
    PROVE  Added(m, map_pages(m, q, s), P, h, q, s, Len(s))
<1>0. Len(s) \in Nat /\ HasFields(m)
  BY GoodFacts DEF Fits
<1>1. PICK g : Chain(g, m, q, s, Len(s)) /\ map_pages(m, q, s) = g[Len(s)]
  BY <1>0, ChainIs
<1> DEFINE Bad == {i \in 0..Len(s) : ~Added(m, g[i], P, h, q, s, i)}
<1>2. Added(m, g[0], P, h, q, s, 0)
  <2>1. g[0] = m
    BY <1>0, <1>1 DEF Chain
  <2> QED
    BY <1>0, <2>1 DEF Added
<1>3. ASSUME NEW i \in 1..Len(s), Added(m, g[i - 1], P, h, q, s, i - 1)
      PROVE  Added(m, g[i], P, h, q, s, i)
  <2>1. g[i] = map_page(g[i - 1], q, s[i])
    BY <1>0, <1>1 DEF Chain
  <2> QED
    BY <1>3, <2>1, MapPageAdds
<1>4. Bad = {}
  <2>1. SUFFICES ASSUME Bad # {} PROVE FALSE
    OBVIOUS
  <2>2. PICK k \in Bad : \A j \in Bad : k <= j
    <3>1. Bad \subseteq Nat
      BY <1>0
    <3> HIDE DEF Bad
    <3> QED
      BY <2>1, <3>1, LeastNatural
  <2>3. k \in 1..Len(s) /\ k - 1 \in 0..Len(s) /\ k - 1 \notin Bad
    BY <1>0, <1>2, <2>2
  <2> QED
    BY <1>3, <2>2, <2>3
<1> QED
  BY <1>0, <1>1, <1>4

----------------------------------------------------------------------------
(* Whole spaces *)

LEMMA OwnedRoot ==
    ASSUME NEW m, NEW n, NEW P, NEW X, NEW K, Owned(m, P, X, K),
           NEW f \in Frame \ m.used, n.used = m.used \cup {f},
           \A r \in Private : tab(n, f, r) = NULL,
           \A x \in PrivatePage : virt_to_phys(n, f, x) = NULL,
           \A u \in P, s \in Private : tab(n, u, s) = tab(m, u, s),
           \A u \in P, x \in PrivatePage : virt_to_phys(n, u, x) = virt_to_phys(m, u, x)
    PROVE  Owned(n, P \cup {f}, X, K) /\ f \notin P
<1>1. /\ f \notin P \cup X \cup K /\ f # NULL
      /\ \A u \in P, s \in Private : tab(m, u, s) # f
      /\ \A u \in P, x \in PrivatePage : virt_to_phys(m, u, x) # f
  BY Constants DEF Owned
<1> DEFINE Q == P \cup {f}
<1>2. /\ \A u \in Q, s \in Private : tab(n, u, s) \in (Frame \ (Q \cup X \cup K)) \cup {NULL}
      /\ \A u \in Q, x \in PrivatePage :
            virt_to_phys(n, u, x) \in (Frame \ (Q \cup X \cup K)) \cup {NULL}
  BY <1>1 DEF Owned
<1>3. \A v, u \in Q : \A x, s \in Private :
          tab(n, v, x) = tab(n, u, s) /\ tab(n, v, x) # NULL => v = u /\ x = s
  BY <1>1 DEF Owned
<1>4. \A v, u \in Q : \A x, y \in PrivatePage :
          /\ virt_to_phys(n, v, x) = virt_to_phys(n, u, y)
          /\ virt_to_phys(n, v, x) # NULL
          => v = u /\ x = y
  BY <1>1 DEF Owned
<1>5. \A v, u \in Q : \A s \in Private, x \in PrivatePage :
          tab(n, v, s) = virt_to_phys(n, u, x) => tab(n, v, s) = NULL
  BY <1>1 DEF Owned
<1>6. ASSUME NEW g \in Frame
      PROVE  g \in n.used <=>
               \/ g \in Q \cup X \cup K
               \/ \E u \in Q, s \in Private : g = tab(n, u, s)
               \/ \E u \in Q, x \in PrivatePage : g = virt_to_phys(n, u, x)
  <2>1. g \in m.used <=>
               \/ g \in P \cup X \cup K
               \/ \E u \in P, s \in Private : g = tab(m, u, s)
               \/ \E u \in P, x \in PrivatePage : g = virt_to_phys(m, u, x)
    BY DEF Owned
  <2>2. g # NULL
    BY Constants
  <2> QED
    BY <2>1, <2>2
<1>7. Q \subseteq Frame /\ Q \cap X = {} /\ Q \cap K = {}
  BY <1>1 DEF Owned
<1> HIDE DEF Q
<1>8. Owned(n, Q, X, K)
  BY <1>2, <1>3, <1>4, <1>5, <1>6, <1>7 DEF Owned
<1> QED
  BY <1>1, <1>8 DEF Q

\* A new space has no page of its own.
LEMMA CreateKeeps ==
    ASSUME NEW m, NEW P, NEW h, Good(m, P, {}, h)
    PROVE  LET n == create_address_space(m)
               f == alloc_frame(m)
           IN  /\ HasFields(n)
               /\ ~n.oom => /\ f \in Frame \ P /\ Good(n, P \cup {f}, {}, h)
                            /\ \A x \in PrivatePage : view(n, f, x) = << >>
                            /\ \A u \in P, x \in PrivatePage : view(n, u, x) = view(m, u, x)
<1> DEFINE n == create_address_space(m)
           w == with_frame(m)
           f == alloc_frame(m)
<1>0. /\ HasFields(m) /\ m.used \subseteq Frame
      /\ m.table \in [Frame -> [Slots -> Entry]] /\ m.data \in [Frame -> Value]
      /\ P \subseteq m.used /\ KF(m) \subseteq m.used
      /\ KernelRoot \in KF(m) /\ tab(m, KernelRoot, HEAP) \in KF(m)
  BY GoodFacts
<1>a. /\ \A u \in P, s \in Private : tab(m, u, s) \in m.used \cup {NULL}
      /\ \A u \in P, s \in Private : ~huge(m.table[u][s])
  BY GoodFacts
<1>1. n = [w EXCEPT !.table[f] = shared_entries(m)]
  BY DEF create_address_space
<1>2. /\ HasFields(w) /\ w.used = m.used \cup {f} /\ w.table = m.table /\ w.data = m.data
      /\ w.oom <=> (m.oom \/ m.used = Frame)
  BY <1>0, WithFrameIs
<1> HIDE DEF n, w, f
<1>3. /\ HasFields(n) /\ n.used = w.used /\ n.data = w.data /\ n.oom = w.oom
      /\ n.table = [m.table EXCEPT ![f] = shared_entries(m)]
  BY <1>1, <1>2 DEF HasFields
<1>4. SUFFICES ASSUME ~n.oom
               PROVE  /\ f \in Frame \ P /\ Good(n, P \cup {f}, {}, h)
                      /\ \A x \in PrivatePage : view(n, f, x) = << >>
                      /\ \A u \in P, x \in PrivatePage : view(n, u, x) = view(m, u, x)
  BY <1>3 DEF n, f
<1>5. f \in Frame \ m.used
  <2>1. m.used # Frame
    BY <1>2, <1>3, <1>4
  <2> QED
    BY <2>1, <1>0, AllocIs DEF f
<1>6. /\ shared_entries(m) \in [Slots -> Entry]
      /\ \A r \in Region \ Private : shared_entries(m)[r] = m.table[KernelRoot][r]
      /\ \A r \in Private : shared_entries(m)[r] = Absent
  <2>1. m.table[KernelRoot] \in [Slots -> Entry]
    BY <1>0
  <2> QED
    BY <2>1, Constants DEF shared_entries
<1>7. /\ n.table \in [Frame -> [Slots -> Entry]] /\ n.table[f] = shared_entries(m)
      /\ \A x \in Frame \ {f} : n.table[x] = m.table[x]
  <2> DEFINE e == shared_entries(m)
  <2> HIDE DEF e
  <2>1. n.table = [m.table EXCEPT ![f] = e] /\ e \in [Slots -> Entry]
    BY <1>3, <1>6 DEF e
  <2>2. /\ n.table \in [Frame -> [Slots -> Entry]] /\ n.table[f] = e
        /\ \A x \in Frame \ {f} : n.table[x] = m.table[x]
    BY ONLY <1>0, <1>5, <2>1
  <2> QED
    BY <2>2 DEF e
<1>8. KernelOK(n, h) /\ KF(n) = KF(m) /\ n.table[KernelRoot] = m.table[KernelRoot]
  <2>1. KernelRoot \in Frame \ {f} /\ tab(m, KernelRoot, HEAP) \in Frame \ {f}
    BY <1>0, <1>5
  <2> QED
    BY <1>7, <2>1, KernelSame DEF Good
<1>9. \A u \in P : n.table[u] = m.table[u]
  BY <1>0, <1>5, <1>7
<1>10. SpacesOK(n, P \cup {f})
  <2>1. ASSUME NEW u \in P
        PROVE  /\ \A r \in Region \ Private : n.table[u][r] = n.table[KernelRoot][r]
               /\ \A r \in Private : ~huge(n.table[u][r])
    BY <1>8, <1>9 DEF Good, SpacesOK
  <2>2. /\ \A r \in Region \ Private : n.table[f][r] = n.table[KernelRoot][r]
        /\ \A r \in Private : ~huge(n.table[f][r])
    BY <1>6, <1>7, <1>8, Constants
  <2> QED
    BY <2>1, <2>2 DEF SpacesOK
<1>11. \A u \in P, s \in Private : tab(n, u, s) = tab(m, u, s)
  BY <1>9 DEF tab
<1>12. \A s \in Private : tab(n, f, s) = NULL
  BY <1>6, <1>7 DEF tab, Absent
<1>13. ASSUME NEW x \in PrivatePage PROVE virt_to_phys(n, f, x) = NULL
  <2>1. region(x) \in Private /\ ~huge(n.table[f][region(x)])
    BY <1>10, PrivateIs DEF SpacesOK
  <2> QED
    BY <1>12, <2>1, LeafIs
<1>14. ASSUME NEW u \in P, NEW x \in PrivatePage
       PROVE  virt_to_phys(n, u, x) = virt_to_phys(m, u, x) /\ view(n, u, x) = view(m, u, x)
  <2> DEFINE y == tab(m, u, region(x))
  <2>1. /\ ~huge(n.table[u][region(x)]) /\ ~huge(m.table[u][region(x)])
        /\ tab(n, u, region(x)) = y /\ y \in m.used \cup {NULL}
    BY <1>9, <1>11, <1>a, PrivateIs
  <2>2. y # NULL => n.table[y] = m.table[y]
    BY <1>0, <1>5, <1>7, <2>1
  <2>3. virt_to_phys(n, u, x) = virt_to_phys(m, u, x)
    BY <2>1, <2>2, LeafIs
  <2>4. virt_to_phys(m, u, x) # NULL => leaf(n, u, x) = leaf(m, u, x)
    BY <2>1, <2>2, LeafIs DEF leaf, tab
  <2> QED
    BY <1>2, <1>3, <2>3, <2>4 DEF view
<1>15. Owned(n, P \cup {f}, {}, KF(m)) /\ f \notin P
  <2>1. Owned(m, P, {}, KF(m)) /\ n.used = m.used \cup {f}
    BY <1>2, <1>3 DEF Good
  <2> QED
    BY <1>5, <1>11, <1>12, <1>13, <1>14, <2>1, OwnedRoot
<1>16. IsRam(n)
  BY <1>0, <1>2, <1>3, <1>5, <1>7 DEF IsRam
<1> QED
  BY <1>4, <1>5, <1>8, <1>10, <1>13, <1>14, <1>15, <1>16, ViewIs DEF Good

LEMMA FreeIs ==
    ASSUME NEW m, HasFields(m), m.table \in [Frame -> [Slots -> Entry]],
           m.data \in [Frame -> Value], NEW F
    PROVE  LET n == free_frames(m, F)
           IN  /\ HasFields(n) /\ n.used = m.used \ F /\ n.oom = m.oom
               /\ n.table \in [Frame -> [Slots -> Entry]] /\ n.data \in [Frame -> Value]
               /\ \A f \in Frame \ F : n.table[f] = m.table[f] /\ n.data[f] = m.data[f]
<1> DEFINE T == [f \in Frame |-> IF f \in F THEN Zeroed ELSE m.table[f]]
           D == [f \in Frame |-> IF f \in F THEN Zero ELSE m.data[f]]
           n == free_frames(m, F)
<1>1. n = [m EXCEPT !.used = @ \ F, !.table = T, !.data = D]
  BY DEF free_frames
<1>2. /\ T \in [Frame -> [Slots -> Entry]] /\ D \in [Frame -> Value]
      /\ \A f \in Frame \ F : T[f] = m.table[f] /\ D[f] = m.data[f]
  BY Constants, AddressSpaceAssumption
<1> HIDE DEF T, D, n
<1>3. HasFields(n) /\ n.used = m.used \ F /\ n.oom = m.oom /\ n.table = T /\ n.data = D
  BY <1>1 DEF HasFields
<1> QED
  BY <1>2, <1>3 DEF n

LEMMA OwnedGone ==
    ASSUME NEW m, NEW n, NEW P, NEW X, NEW K, Owned(m, P, X, K), NEW q \in P,
           \A u \in P \ {q}, s \in Private : tab(n, u, s) = tab(m, u, s),
           \A u \in P \ {q}, x \in PrivatePage : virt_to_phys(n, u, x) = virt_to_phys(m, u, x),
           \A g \in Frame : g \in n.used <=>
              /\ g \in m.used /\ g # q
              /\ \A s \in Private : g # tab(m, q, s)
              /\ \A x \in PrivatePage : g # virt_to_phys(m, q, x)
    PROVE  Owned(n, P \ {q}, X, K)
<1> DEFINE Q == P \ {q}
<1>1. /\ \A u \in Q, s \in Private : tab(n, u, s) \in (Frame \ (Q \cup X \cup K)) \cup {NULL}
      /\ \A u \in Q, x \in PrivatePage :
            virt_to_phys(n, u, x) \in (Frame \ (Q \cup X \cup K)) \cup {NULL}
  BY DEF Owned
<1>2. \A v, u \in Q : \A x, s \in Private :
          tab(n, v, x) = tab(n, u, s) /\ tab(n, v, x) # NULL => v = u /\ x = s
  BY DEF Owned
<1>3. \A v, u \in Q : \A x, y \in PrivatePage :
          /\ virt_to_phys(n, v, x) = virt_to_phys(n, u, y)
          /\ virt_to_phys(n, v, x) # NULL
          => v = u /\ x = y
  BY DEF Owned
<1>4. \A v, u \in Q : \A s \in Private, x \in PrivatePage :
          tab(n, v, s) = virt_to_phys(n, u, x) => tab(n, v, s) = NULL
  BY DEF Owned
<1>5. ASSUME NEW g \in Frame
      PROVE  g \in n.used <=>
               \/ g \in Q \cup X \cup K
               \/ \E u \in Q, s \in Private : g = tab(n, u, s)
               \/ \E u \in Q, x \in PrivatePage : g = virt_to_phys(n, u, x)
  <2>1. g \in m.used <=>
               \/ g \in P \cup X \cup K
               \/ \E u \in P, s \in Private : g = tab(m, u, s)
               \/ \E u \in P, x \in PrivatePage : g = virt_to_phys(m, u, x)
    BY DEF Owned
  <2>2. g # NULL
    BY Constants
  <2>3. ASSUME g \in n.used
        PROVE  \/ g \in Q \cup X \cup K
               \/ \E u \in Q, s \in Private : g = tab(n, u, s)
               \/ \E u \in Q, x \in PrivatePage : g = virt_to_phys(n, u, x)
    BY <2>1, <2>3
  <2>4. ASSUME g \in Q \cup X \cup K PROVE g \in n.used
    BY <2>1, <2>2, <2>4 DEF Owned
  <2>5. ASSUME NEW u \in Q, NEW s \in Private, g = tab(n, u, s) PROVE g \in n.used
    BY <2>1, <2>2, <2>5 DEF Owned
  <2>6. ASSUME NEW u \in Q, NEW x \in PrivatePage, g = virt_to_phys(n, u, x) PROVE g \in n.used
    BY <2>1, <2>2, <2>6 DEF Owned
  <2> QED
    BY <2>3, <2>4, <2>5, <2>6
<1>6. Q \subseteq Frame /\ X \subseteq Frame /\ K \subseteq Frame
      /\ Q \cap X = {} /\ Q \cap K = {} /\ X \cap K = {}
  BY DEF Owned
<1> HIDE DEF Q
<1>7. Owned(n, Q, X, K)
  BY <1>1, <1>2, <1>3, <1>4, <1>5, <1>6 DEF Owned
<1> QED
  BY <1>7 DEF Q

\* A space goes with all its frames and nothing else.
LEMMA DestroyKeeps ==
    ASSUME NEW m, NEW P, NEW h, Good(m, P, {}, h), NEW q \in P
    PROVE  LET n == destroy_address_space(m, q)
           IN  /\ Good(n, P \ {q}, {}, h)
               /\ \A u \in P \ {q}, x \in PrivatePage : view(n, u, x) = view(m, u, x)
<1> DEFINE F == private_frames(m, q)
           n == destroy_address_space(m, q)
<1>0. /\ HasFields(m) /\ m.used \subseteq Frame /\ m.oom = FALSE
      /\ m.table \in [Frame -> [Slots -> Entry]] /\ m.data \in [Frame -> Value]
      /\ P \subseteq m.used /\ KF(m) \subseteq m.used /\ P \cap KF(m) = {}
      /\ KernelRoot \in KF(m) /\ tab(m, KernelRoot, HEAP) \in KF(m)
  BY GoodFacts
<1>a. /\ \A u \in P, s \in Private : ~huge(m.table[u][s])
  BY GoodFacts
<1>b. Owned(m, P, {}, KF(m))
  BY DEF Good
<1>1. /\ HasFields(n) /\ n.used = m.used \ F /\ n.oom = m.oom
      /\ n.table \in [Frame -> [Slots -> Entry]] /\ n.data \in [Frame -> Value]
      /\ \A f \in Frame \ F : n.table[f] = m.table[f] /\ n.data[f] = m.data[f]
  BY <1>0, FreeIs DEF destroy_address_space
<1>2. \A g \in Frame : g \in F <=> \/ g = q
                                   \/ \E s \in Private : g = tab(m, q, s)
                                   \/ \E x \in PrivatePage : g = virt_to_phys(m, q, x)
  BY Constants DEF private_frames, private_tables, Mapped, tab, present
<1> HIDE DEF F, n
<1>3. ASSUME NEW g \in Frame, g \in KF(m) \/ g \in P \ {q} PROVE g \notin F
  BY <1>2, <1>3, <1>b, Constants DEF Owned
<1>4. ASSUME NEW u \in P \ {q}, NEW s \in Private, tab(m, u, s) # NULL
      PROVE  tab(m, u, s) \in Frame \ F
  <2>1. tab(m, u, s) \in Frame
    BY <1>4, <1>b DEF Owned
  <2> QED
    BY <1>2, <1>4, <1>b, <2>1 DEF Owned
<1>5. ASSUME NEW u \in P \ {q}, NEW x \in PrivatePage, virt_to_phys(m, u, x) # NULL
      PROVE  virt_to_phys(m, u, x) \in Frame \ F
  <2>1. virt_to_phys(m, u, x) \in Frame
    BY <1>5, <1>b DEF Owned
  <2> QED
    BY <1>2, <1>5, <1>b, <2>1 DEF Owned
<1>6. KernelOK(n, h) /\ KF(n) = KF(m) /\ n.table[KernelRoot] = m.table[KernelRoot]
  <2>1. KernelRoot \in Frame \ F /\ tab(m, KernelRoot, HEAP) \in Frame \ F
    BY <1>0, <1>3
  <2> QED
    BY <1>1, <2>1, KernelSame DEF Good
<1>7. \A u \in P \ {q} : n.table[u] = m.table[u]
  BY <1>0, <1>1, <1>3
<1>8. SpacesOK(n, P \ {q})
  BY <1>6, <1>7 DEF Good, SpacesOK
<1>9. \A u \in P \ {q}, s \in Private : tab(n, u, s) = tab(m, u, s)
  BY <1>7 DEF tab
<1>10. ASSUME NEW u \in P \ {q}, NEW x \in PrivatePage
       PROVE  virt_to_phys(n, u, x) = virt_to_phys(m, u, x) /\ view(n, u, x) = view(m, u, x)
  <2> DEFINE y == tab(m, u, region(x))
  <2>1. /\ ~huge(n.table[u][region(x)]) /\ ~huge(m.table[u][region(x)])
        /\ tab(n, u, region(x)) = y /\ region(x) \in Private
    BY <1>7, <1>9, <1>a, PrivateIs
  <2>2. y # NULL => n.table[y] = m.table[y]
    BY <1>1, <1>4, <2>1
  <2>3. virt_to_phys(n, u, x) = virt_to_phys(m, u, x)
    BY <2>1, <2>2, LeafIs
  <2>4. virt_to_phys(m, u, x) # NULL => leaf(n, u, x) = leaf(m, u, x)
    BY <2>1, <2>2, LeafIs DEF leaf, tab
  <2>5. virt_to_phys(m, u, x) # NULL => n.data[virt_to_phys(m, u, x)] = m.data[virt_to_phys(m, u, x)]
    BY <1>1, <1>5
  <2> QED
    BY <2>3, <2>4, <2>5 DEF view
<1>11. Owned(n, P \ {q}, {}, KF(m))
  <2>1. \A g \in Frame : g \in n.used <=>
              /\ g \in m.used /\ g # q
              /\ \A s \in Private : g # tab(m, q, s)
              /\ \A x \in PrivatePage : g # virt_to_phys(m, q, x)
    BY <1>1, <1>2
  <2> QED
    BY <1>9, <1>10, <1>b, <2>1, OwnedGone
<1>12. IsRam(n) /\ ~n.oom
  BY <1>0, <1>1 DEF IsRam
<1> QED
  BY <1>6, <1>8, <1>10, <1>11, <1>12 DEF Good, n

\* New leaves for some mapped pages of q.  Nothing else is written to.
LEMMA SetLeavesIs ==
    ASSUME NEW m, NEW P, NEW h, Good(m, P, {}, h), NEW q \in P, NEW new,
           \A p \in DOMAIN new : /\ p \in PrivatePage /\ virt_to_phys(m, q, p) # NULL
                                 /\ new[p] \in Entry
    PROVE  LET n == set_leaves(m, q, new)
           IN  /\ HasFields(n) /\ n.used = m.used /\ n.data = m.data /\ n.oom = m.oom
               /\ n.table \in [Frame -> [Slots -> Entry]]
               /\ KernelOK(n, h) /\ KF(n) = KF(m) /\ SpacesOK(n, P)
               /\ \A u \in P, s \in Private : tab(n, u, s) = tab(m, u, s)
               /\ \A u \in P, x \in PrivatePage : u # q \/ x \notin DOMAIN new =>
                    /\ virt_to_phys(n, u, x) = virt_to_phys(m, u, x)
                    /\ virt_to_phys(m, u, x) # NULL => leaf(n, u, x) = leaf(m, u, x)
               /\ \A x \in DOMAIN new : leaf(n, q, x) = new[x] /\ virt_to_phys(n, q, x) = new[x].to
<1> DEFINE at(f, i) == {p \in DOMAIN new : f = tab(m, q, region(p)) /\ i = index(p)}
           T == [f \in Frame |-> [i \in Slots |->
                   IF at(f, i) = {} THEN m.table[f][i] ELSE new[CHOOSE p \in at(f, i) : TRUE]]]
           n == set_leaves(m, q, new)
<1>0. /\ HasFields(m) /\ m.used \subseteq Frame
      /\ m.table \in [Frame -> [Slots -> Entry]]
      /\ P \subseteq m.used /\ KF(m) \subseteq m.used
      /\ KernelRoot \in KF(m) /\ tab(m, KernelRoot, HEAP) \in KF(m)
  BY GoodFacts
<1>a. /\ \A u \in P, s \in Private : tab(m, u, s) \in (m.used \ (P \cup {} \cup KF(m))) \cup {NULL}
      /\ \A u \in P, s \in Private : ~huge(m.table[u][s])
  BY ONLY Good(m, P, {}, h), GoodFacts
<1>b. Owned(m, P, {}, KF(m))
  BY DEF Good
<1>c. \A p \in PrivatePage : region(p) \in Private /\ index(p) \in Slots
  BY PrivateIs, Constants
<1>1. n = [m EXCEPT !.table = T]
  BY Constants DEF set_leaves, tab
<1>2. ASSUME NEW f \in Frame, NEW i \in Slots
      PROVE  /\ T[f][i] \in Entry
             /\ (\A p \in DOMAIN new : f # tab(m, q, region(p)) \/ i # index(p))
                  => T[f][i] = m.table[f][i]
             /\ \A p \in DOMAIN new : f = tab(m, q, region(p)) /\ i = index(p) => T[f][i] = new[p]
  <2> DEFINE A == at(f, i)
  <2>1. T[f][i] = IF A = {} THEN m.table[f][i] ELSE new[CHOOSE p \in A : TRUE]
    OBVIOUS
  <2>2. A # {} => (CHOOSE p \in A : TRUE) \in A
    OBVIOUS
  <2>3. A \subseteq DOMAIN new /\ \A p \in A : new[p] \in Entry
    OBVIOUS
  <2>4. ASSUME NEW p \in A, NEW x \in A PROVE p = x
    <3>1. /\ p \in PrivatePage /\ x \in PrivatePage /\ index(p) = index(x)
          /\ tab(m, q, region(p)) = tab(m, q, region(x)) /\ tab(m, q, region(p)) # NULL
      BY Constants
    <3>2. region(p) = region(x)
      BY <1>b, <1>c, <3>1 DEF Owned
    <3> QED
      BY <3>1, <3>2, PrivateIs
  <2>5. m.table[f][i] \in Entry
    BY <1>0
  <2>6. /\ A = {} <=> (\A p \in DOMAIN new : f # tab(m, q, region(p)) \/ i # index(p))
        /\ \A p \in DOMAIN new : f = tab(m, q, region(p)) /\ i = index(p) => p \in A
    OBVIOUS
  <2> HIDE DEF A, T
  <2> QED
    BY <2>1, <2>2, <2>3, <2>4, <2>5, <2>6
<1>3. T \in [Frame -> [Slots -> Entry]]
  BY <1>2
<1> HIDE DEF T, n
<1>4. HasFields(n) /\ n.used = m.used /\ n.data = m.data /\ n.oom = m.oom /\ n.table = T
  BY <1>0, <1>1 DEF HasFields
<1>5. ASSUME NEW f \in Frame, \A s \in Private : f # tab(m, q, s)
      PROVE  n.table[f] = m.table[f]
  <2>1. \A i \in Slots : T[f][i] = m.table[f][i]
    BY <1>2, <1>5, <1>c
  <2>2. T[f] \in [Slots -> Entry] /\ m.table[f] \in [Slots -> Entry]
    BY <1>0, <1>3
  <2> QED
    BY <1>4, <2>1, <2>2
<1>6. KernelOK(n, h) /\ KF(n) = KF(m) /\ n.table[KernelRoot] = m.table[KernelRoot]
  <2>1. /\ KernelRoot \in Frame /\ tab(m, KernelRoot, HEAP) \in Frame
        /\ \A s \in Private : KernelRoot # tab(m, q, s) /\ tab(m, KernelRoot, HEAP) # tab(m, q, s)
    BY <1>0, <1>a, Constants
  <2> QED
    BY <1>5, <2>1, KernelSame DEF Good
<1>7. ASSUME NEW u \in P PROVE n.table[u] = m.table[u]
  <2>1. u \in Frame /\ \A s \in Private : u # tab(m, q, s)
    BY <1>0, <1>a, Constants
  <2> QED
    BY <1>5, <2>1
<1>8. SpacesOK(n, P)
  BY <1>6, <1>7 DEF Good, SpacesOK
<1>9. \A u \in P, s \in Private : tab(n, u, s) = tab(m, u, s)
  BY <1>7 DEF tab
<1>10. ASSUME NEW u \in P, NEW x \in PrivatePage
       PROVE  /\ virt_to_phys(n, u, x) = IF tab(m, u, region(x)) = NULL THEN NULL
                                         ELSE T[tab(m, u, region(x))][index(x)].to
              /\ virt_to_phys(m, u, x) = IF tab(m, u, region(x)) = NULL THEN NULL
                                         ELSE m.table[tab(m, u, region(x))][index(x)].to
              /\ leaf(n, u, x) = T[tab(m, u, region(x))][index(x)]
              /\ leaf(m, u, x) = m.table[tab(m, u, region(x))][index(x)]
              /\ tab(m, u, region(x)) \in Frame \cup {NULL}
  <2>1. /\ ~huge(n.table[u][region(x)]) /\ ~huge(m.table[u][region(x)])
        /\ tab(n, u, region(x)) = tab(m, u, region(x)) /\ region(x) \in Private
    BY <1>7, <1>9, <1>a, <1>c
  <2>2. tab(m, u, region(x)) \in Frame \cup {NULL}
    BY <1>0, <1>a, <2>1
  <2>3. /\ leaf(n, u, x) = T[tab(m, u, region(x))][index(x)]
        /\ leaf(m, u, x) = m.table[tab(m, u, region(x))][index(x)]
    BY <1>4, <2>1 DEF leaf, tab
  <2> QED
    BY <1>4, <2>1, <2>2, <2>3, LeafIs
<1>11. ASSUME NEW u \in P, NEW x \in PrivatePage, u # q \/ x \notin DOMAIN new
       PROVE  /\ virt_to_phys(n, u, x) = virt_to_phys(m, u, x)
              /\ virt_to_phys(m, u, x) # NULL => leaf(n, u, x) = leaf(m, u, x)
  <2> DEFINE y == tab(m, u, region(x))
  <2>1. CASE y = NULL
    BY <1>10, <2>1
  <2>2. CASE y # NULL
    <3>1. ASSUME NEW p \in DOMAIN new, y = tab(m, q, region(p)), index(x) = index(p)
          PROVE  FALSE
      <4>1. p \in PrivatePage /\ region(p) \in Private /\ region(x) \in Private
        BY <1>c
      <4>2. u = q /\ region(x) = region(p)
        BY <1>b, <2>2, <3>1, <4>1 DEF Owned
      <4>3. x = p
        BY <3>1, <4>1, <4>2, PrivateIs
      <4> QED
        BY <1>11, <4>2, <4>3
    <3>2. y \in Frame /\ index(x) \in Slots
      BY <1>10, <1>c, <2>2
    <3>3. T[y][index(x)] = m.table[y][index(x)]
      BY <1>2, <3>1, <3>2
    <3> QED
      BY <1>10, <3>3
  <2> QED
    BY <2>1, <2>2
<1>12. ASSUME NEW x \in DOMAIN new
       PROVE  leaf(n, q, x) = new[x] /\ virt_to_phys(n, q, x) = new[x].to
  <2> DEFINE y == tab(m, q, region(x))
  <2>1. y \in Frame /\ y # NULL /\ index(x) \in Slots
    BY <1>10, <1>c
  <2>2. T[y][index(x)] = new[x]
    BY <1>2, <2>1
  <2> QED
    BY <1>10, <2>1, <2>2
<1> QED
  BY <1>3, <1>4, <1>6, <1>8, <1>9, <1>11, <1>12 DEF n

\* The same frames under the same names.
LEMMA OwnedSame ==
    ASSUME NEW m, NEW n, NEW P, NEW X, NEW K, Owned(m, P, X, K), n.used = m.used,
           \A u \in P, s \in Private : tab(n, u, s) = tab(m, u, s),
           \A u \in P, x \in PrivatePage : virt_to_phys(n, u, x) = virt_to_phys(m, u, x)
    PROVE  Owned(n, P, X, K)
  BY DEF Owned

LEMMA OwnedDrop ==
    ASSUME NEW m, NEW n, NEW P, NEW X, NEW K, Owned(m, P, X, K), NEW q \in P,
           NEW S \in SUBSET PrivatePage,
           \A u \in P, s \in Private : tab(n, u, s) = tab(m, u, s),
           \A u \in P, x \in PrivatePage : virt_to_phys(n, u, x) =
              IF u = q /\ x \in S THEN NULL ELSE virt_to_phys(m, u, x),
           \A g \in Frame : g \in n.used <=>
              g \in m.used /\ \A x \in S : g # virt_to_phys(m, q, x)
    PROVE  Owned(n, P, X, K)
<1>1. /\ \A u \in P, s \in Private : tab(n, u, s) \in (Frame \ (P \cup X \cup K)) \cup {NULL}
      /\ \A u \in P, x \in PrivatePage :
            virt_to_phys(n, u, x) \in (Frame \ (P \cup X \cup K)) \cup {NULL}
  BY DEF Owned
<1>2. \A v, u \in P : \A x, s \in Private :
          tab(n, v, x) = tab(n, u, s) /\ tab(n, v, x) # NULL => v = u /\ x = s
  BY DEF Owned
<1>3. \A v, u \in P : \A x, y \in PrivatePage :
          /\ virt_to_phys(n, v, x) = virt_to_phys(n, u, y)
          /\ virt_to_phys(n, v, x) # NULL
          => v = u /\ x = y
  BY DEF Owned
<1>4. \A v, u \in P : \A s \in Private, x \in PrivatePage :
          tab(n, v, s) = virt_to_phys(n, u, x) => tab(n, v, s) = NULL
  BY DEF Owned
<1>5. ASSUME NEW g \in Frame
      PROVE  g \in n.used <=>
               \/ g \in P \cup X \cup K
               \/ \E u \in P, s \in Private : g = tab(n, u, s)
               \/ \E u \in P, x \in PrivatePage : g = virt_to_phys(n, u, x)
  <2>1. g \in m.used <=>
               \/ g \in P \cup X \cup K
               \/ \E u \in P, s \in Private : g = tab(m, u, s)
               \/ \E u \in P, x \in PrivatePage : g = virt_to_phys(m, u, x)
    BY DEF Owned
  <2>2. g # NULL
    BY Constants
  <2>3. ASSUME g \in n.used
        PROVE  \/ g \in P \cup X \cup K
               \/ \E u \in P, s \in Private : g = tab(n, u, s)
               \/ \E u \in P, x \in PrivatePage : g = virt_to_phys(n, u, x)
    BY <2>1, <2>3
  <2>4. ASSUME g \in P \cup X \cup K PROVE g \in n.used
    BY <2>1, <2>2, <2>4 DEF Owned
  <2>5. ASSUME NEW u \in P, NEW s \in Private, g = tab(n, u, s) PROVE g \in n.used
    BY <2>1, <2>2, <2>5 DEF Owned
  <2>6. ASSUME NEW u \in P, NEW x \in PrivatePage, g = virt_to_phys(n, u, x) PROVE g \in n.used
    BY <2>1, <2>2, <2>6 DEF Owned
  <2> QED
    BY <2>3, <2>4, <2>5, <2>6
<1> QED
  BY <1>1, <1>2, <1>3, <1>4, <1>5 DEF Owned

\* The pages of S go, with their frames.
LEMMA ReleaseKeeps ==
    ASSUME NEW m, NEW P, NEW h, Good(m, P, {}, h), NEW q \in P, NEW S
    PROVE  LET n == release(m, q, S)
           IN  /\ Good(n, P, {}, h)
               /\ \A x \in PrivatePage \cap S : view(n, q, x) = << >>
               /\ \A u \in P, x \in PrivatePage :
                    u # q \/ x \notin S => view(n, u, x) = view(m, u, x)
<1> DEFINE there == S \cap Mapped(m, q)
           new == [p \in there |-> Absent]
           w == set_leaves(m, q, new)
           F == {virt_to_phys(m, q, p) : p \in there}
           n == release(m, q, S)
<1>0. /\ HasFields(m) /\ m.used \subseteq Frame /\ m.oom = FALSE
      /\ m.data \in [Frame -> Value]
      /\ P \subseteq m.used /\ KF(m) \subseteq m.used
      /\ KernelRoot \in KF(m) /\ tab(m, KernelRoot, HEAP) \in KF(m)
  BY GoodFacts
<1>b. Owned(m, P, {}, KF(m))
  BY DEF Good
<1>1. /\ there \subseteq PrivatePage /\ \A p \in there : virt_to_phys(m, q, p) # NULL
      /\ \A x \in PrivatePage \cap S : x \notin there => virt_to_phys(m, q, x) = NULL
      /\ there \subseteq S
  BY DEF Mapped
<1> HIDE DEF there
<1>2. /\ DOMAIN new = there /\ \A p \in there : new[p] = Absent
      /\ \A p \in DOMAIN new : /\ p \in PrivatePage /\ virt_to_phys(m, q, p) # NULL
                               /\ new[p] \in Entry
  BY <1>1, Constants
<1> HIDE DEF new
<1>3. /\ HasFields(w) /\ w.used = m.used /\ w.data = m.data /\ w.oom = m.oom
      /\ w.table \in [Frame -> [Slots -> Entry]]
      /\ KernelOK(w, h) /\ KF(w) = KF(m) /\ SpacesOK(w, P)
      /\ \A u \in P, s \in Private : tab(w, u, s) = tab(m, u, s)
      /\ \A u \in P, x \in PrivatePage : u # q \/ x \notin DOMAIN new =>
           /\ virt_to_phys(w, u, x) = virt_to_phys(m, u, x)
           /\ virt_to_phys(m, u, x) # NULL => leaf(w, u, x) = leaf(m, u, x)
      /\ \A x \in DOMAIN new : leaf(w, q, x) = new[x] /\ virt_to_phys(w, q, x) = new[x].to
  BY <1>2, SetLeavesIs
<1>4. n = free_frames(w, F)
  BY DEF release, there, new
<1> HIDE DEF w, n
<1>5. \A u \in P, x \in PrivatePage : virt_to_phys(w, u, x) =
              IF u = q /\ x \in there THEN NULL ELSE virt_to_phys(m, u, x)
  BY <1>2, <1>3 DEF Absent
<1>6. /\ HasFields(n) /\ n.used = w.used \ F /\ n.oom = w.oom
      /\ n.table \in [Frame -> [Slots -> Entry]] /\ n.data \in [Frame -> Value]
      /\ \A f \in Frame \ F : n.table[f] = w.table[f] /\ n.data[f] = w.data[f]
  <2> HIDE DEF F
  <2>1. HasFields(w) /\ w.table \in [Frame -> [Slots -> Entry]] /\ w.data \in [Frame -> Value]
    BY <1>0, <1>3
  <2> QED
    BY ONLY <1>4, <2>1, FreeIs
<1>7. /\ \A f \in Frame : f \in F <=> \E x \in there : f = virt_to_phys(m, q, x)
      /\ \A f \in P \cup KF(m) : f \notin F
      /\ \A u \in P, s \in Private : tab(m, u, s) # NULL => tab(m, u, s) \in Frame \ F
      /\ \A u \in P, x \in PrivatePage :
            virt_to_phys(m, u, x) # NULL /\ (u # q \/ x \notin there) =>
               virt_to_phys(m, u, x) \in Frame \ F
  <2>1. \A f : f \in F <=> \E x \in there : f = virt_to_phys(m, q, x)
    OBVIOUS
  <2> HIDE DEF F
  <2>2. \A f \in P \cup KF(m) : f \notin F
    BY <1>1, <1>b, <2>1, Constants DEF Owned
  <2>3. \A u \in P, s \in Private : tab(m, u, s) # NULL => tab(m, u, s) \in Frame \ F
    BY <1>1, <1>b, <2>1 DEF Owned
  <2>4. \A u \in P, x \in PrivatePage :
            virt_to_phys(m, u, x) # NULL /\ (u # q \/ x \notin there) =>
               virt_to_phys(m, u, x) \in Frame \ F
    BY <1>1, <1>b, <2>1 DEF Owned
  <2> QED
    BY <2>1, <2>2, <2>3, <2>4
<1> HIDE DEF F
<1>8. KernelOK(n, h) /\ KF(n) = KF(m) /\ n.table[KernelRoot] = w.table[KernelRoot]
  <2>1. KernelRoot \in Frame \ F /\ tab(w, KernelRoot, HEAP) \in Frame \ F
    <3>1. tab(w, KernelRoot, HEAP) \in KF(w)
      BY DEF KF
    <3> QED
      BY <1>0, <1>3, <1>7, <3>1
  <2> QED
    BY <1>3, <1>6, <2>1, KernelSame
<1>9. \A u \in P : n.table[u] = w.table[u]
  BY <1>0, <1>6, <1>7
<1>10. SpacesOK(n, P)
  BY <1>3, <1>8, <1>9 DEF SpacesOK
<1>11. \A u \in P, s \in Private : tab(n, u, s) = tab(m, u, s) /\ tab(w, u, s) = tab(m, u, s)
  BY <1>3, <1>9 DEF tab
<1>12. ASSUME NEW u \in P, NEW x \in PrivatePage
       PROVE  /\ virt_to_phys(n, u, x) = virt_to_phys(w, u, x)
              /\ virt_to_phys(w, u, x) # NULL => leaf(n, u, x) = leaf(w, u, x)
  <2> DEFINE y == tab(m, u, region(x))
  <2>1. /\ ~huge(n.table[u][region(x)]) /\ ~huge(w.table[u][region(x)])
        /\ tab(n, u, region(x)) = y /\ tab(w, u, region(x)) = y /\ region(x) \in Private
    BY <1>3, <1>10, <1>11, PrivateIs DEF SpacesOK
  <2>2. y # NULL => n.table[y] = w.table[y]
    BY <1>6, <1>7, <2>1
  <2>3. virt_to_phys(n, u, x) = virt_to_phys(w, u, x)
    BY <2>1, <2>2, LeafIs
  <2>4. y # NULL => leaf(n, u, x) = leaf(w, u, x)
    BY <2>1, <2>2 DEF leaf, tab
  <2>5. y = NULL => virt_to_phys(w, u, x) = NULL
    BY <2>1, LeafIs
  <2> QED
    BY <2>3, <2>4, <2>5
<1>13. \A u \in P, x \in PrivatePage : virt_to_phys(n, u, x) =
              IF u = q /\ x \in there THEN NULL ELSE virt_to_phys(m, u, x)
  BY <1>5, <1>12
<1>14. Owned(n, P, {}, KF(m))
  <2>1. \A g \in Frame : g \in n.used <=>
              g \in m.used /\ \A x \in there : g # virt_to_phys(m, q, x)
    BY <1>3, <1>6, <1>7
  <2> QED
    BY <1>1, <1>11, <1>13, <1>b, <2>1, OwnedDrop
<1>15. Good(n, P, {}, h)
  <2>1. IsRam(n) /\ ~n.oom
    BY <1>0, <1>3, <1>6 DEF IsRam
  <2> QED
    BY <1>8, <1>10, <1>14, <2>1 DEF Good
<1>16. \A x \in PrivatePage \cap S : view(n, q, x) = << >>
  BY <1>1, <1>13, ViewIs
<1>17. ASSUME NEW u \in P, NEW x \in PrivatePage, u # q \/ x \notin S
       PROVE  view(n, u, x) = view(m, u, x)
  <2>1. virt_to_phys(n, u, x) = virt_to_phys(m, u, x)
    BY <1>1, <1>13, <1>17
  <2>2. CASE virt_to_phys(m, u, x) = NULL
    BY <2>1, <2>2 DEF view
  <2>3. CASE virt_to_phys(m, u, x) # NULL
    <3>1. leaf(n, u, x) = leaf(m, u, x)
      BY <1>1, <1>2, <1>3, <1>12, <1>17, <2>1, <2>3
    <3>2. n.data[virt_to_phys(m, u, x)] = m.data[virt_to_phys(m, u, x)]
      BY <1>1, <1>3, <1>6, <1>7, <1>17, <2>3
    <3> QED
      BY <2>1, <3>1, <3>2 DEF view
  <2> QED
    BY <2>2, <2>3
<1> QED
  BY <1>15, <1>16, <1>17 DEF n

\* The pages of S have other permissions.
LEMMA ProtectKeeps ==
    ASSUME NEW m, NEW P, NEW h, Good(m, P, {}, h), NEW q \in P, NEW S, NEW fl \in Flag
    PROVE  LET n == protect(m, q, S, fl)
           IN  /\ Good(n, P, {}, h)
               /\ \A x \in PrivatePage \cap S : view(n, q, x) =
                    IF view(m, q, x) = << >> THEN << >> ELSE <<view(m, q, x)[1], fl>>
               /\ \A u \in P, x \in PrivatePage :
                    u # q \/ x \notin S => view(n, u, x) = view(m, u, x)
<1> DEFINE there == S \cap Mapped(m, q)
           new == [p \in there |-> [leaf(m, q, p) EXCEPT !.fl = fl]]
           n == protect(m, q, S, fl)
<1>0. /\ HasFields(m) /\ m.used \subseteq Frame /\ m.oom = FALSE
      /\ m.data \in [Frame -> Value] /\ m.table \in [Frame -> [Slots -> Entry]]
  BY GoodFacts
<1>a. /\ \A u \in P, s \in Private : tab(m, u, s) \in (m.used \ (P \cup {} \cup KF(m))) \cup {NULL}
      /\ \A u \in P, s \in Private : ~huge(m.table[u][s])
  BY ONLY Good(m, P, {}, h), GoodFacts
<1>b. Owned(m, P, {}, KF(m))
  BY DEF Good
<1>1. /\ there \subseteq PrivatePage /\ \A p \in there : virt_to_phys(m, q, p) # NULL
      /\ \A x \in PrivatePage \cap S : x \notin there => virt_to_phys(m, q, x) = NULL
      /\ there \subseteq S
  BY DEF Mapped
<1> HIDE DEF there
<1>2. ASSUME NEW p \in there
      PROVE  /\ new[p] \in Entry /\ new[p].to = virt_to_phys(m, q, p) /\ new[p].fl = fl
  <2> DEFINE y == tab(m, q, region(p))
  <2>1. p \in PrivatePage /\ region(p) \in Private /\ index(p) \in Slots /\ q \in P
    BY <1>1, PrivateIs, Constants
  <2>2. ~huge(m.table[q][region(p)]) /\ y \in Frame \cup {NULL}
    BY <1>0, <1>a, <2>1
  <2>3. y # NULL /\ virt_to_phys(m, q, p) = m.table[y][index(p)].to
    BY <1>1, <2>1, <2>2, LeafIs
  <2>4. leaf(m, q, p) = m.table[y][index(p)]
    BY DEF leaf, tab
  <2> DEFINE e == leaf(m, q, p)
  <2>5. e \in Entry /\ e.to = virt_to_phys(m, q, p)
    BY <1>0, <2>1, <2>2, <2>3, <2>4
  <2>6. new[p] = [e EXCEPT !.fl = fl]
    OBVIOUS
  <2> HIDE DEF e, new
  <2> QED
    BY <2>5, <2>6 DEF Entry
<1>3. DOMAIN new = there
  OBVIOUS
<1>4. n = set_leaves(m, q, new)
  BY DEF protect, there
<1> HIDE DEF new, n
<1>5. /\ HasFields(n) /\ n.used = m.used /\ n.data = m.data /\ n.oom = m.oom
      /\ n.table \in [Frame -> [Slots -> Entry]]
      /\ KernelOK(n, h) /\ KF(n) = KF(m) /\ SpacesOK(n, P)
      /\ \A u \in P, s \in Private : tab(n, u, s) = tab(m, u, s)
      /\ \A u \in P, x \in PrivatePage : u # q \/ x \notin DOMAIN new =>
           /\ virt_to_phys(n, u, x) = virt_to_phys(m, u, x)
           /\ virt_to_phys(m, u, x) # NULL => leaf(n, u, x) = leaf(m, u, x)
      /\ \A x \in DOMAIN new : leaf(n, q, x) = new[x] /\ virt_to_phys(n, q, x) = new[x].to
  <2>1. \A p \in DOMAIN new : /\ p \in PrivatePage /\ virt_to_phys(m, q, p) # NULL
                              /\ new[p] \in Entry
    BY <1>1, <1>2, <1>3
  <2> QED
    BY <1>4, <2>1, SetLeavesIs
<1>6. \A u \in P, x \in PrivatePage : virt_to_phys(n, u, x) = virt_to_phys(m, u, x)
  BY <1>2, <1>3, <1>5
<1>7. Good(n, P, {}, h)
  <2>1. Owned(n, P, {}, KF(m))
    BY <1>5, <1>6, <1>b, OwnedSame
  <2>2. IsRam(n) /\ ~n.oom
    BY <1>0, <1>5 DEF IsRam
  <2> QED
    BY <1>5, <2>1, <2>2 DEF Good
<1>8. ASSUME NEW x \in PrivatePage \cap S
      PROVE  view(n, q, x) = IF view(m, q, x) = << >> THEN << >> ELSE <<view(m, q, x)[1], fl>>
  <2>1. CASE x \in there
    <3>1. view(m, q, x) # << >> /\ view(m, q, x)[1] = m.data[virt_to_phys(m, q, x)]
      BY <1>1, <2>1, ViewIs
    <3>2. leaf(n, q, x).fl = fl
      BY <1>2, <1>3, <1>5, <2>1
    <3>3. view(n, q, x) = <<m.data[virt_to_phys(m, q, x)], fl>>
      BY <1>1, <1>5, <1>6, <2>1, <3>2 DEF view
    <3> QED
      BY <3>1, <3>3
  <2>2. CASE x \notin there
    BY <1>1, <1>6, <2>2, ViewIs
  <2> QED
    BY <2>1, <2>2
<1>9. ASSUME NEW u \in P, NEW x \in PrivatePage, u # q \/ x \notin S
      PROVE  view(n, u, x) = view(m, u, x)
  <2>1. u # q \/ x \notin DOMAIN new
    BY <1>1, <1>3, <1>9
  <2> QED
    BY <1>5, <1>6, <2>1 DEF view
<1> QED
  BY <1>7, <1>8, <1>9 DEF n

\* The program stores to a page.
LEMMA StoreKeeps ==
    ASSUME NEW m, NEW P, NEW h, Good(m, P, {}, h), NEW q \in P, NEW p \in PrivatePage,
           virt_to_phys(m, q, p) # NULL, NEW v \in Value,
           NEW n, HasFields(n), ~n.oom, n.used = m.used, n.table = m.table,
           n.data = [m.data EXCEPT ![virt_to_phys(m, q, p)] = v]
    PROVE  /\ Good(n, P, {}, h) /\ view(n, q, p) = <<v, leaf(m, q, p).fl>>
           /\ \A u \in P, x \in PrivatePage :
                u # q \/ x # p => view(n, u, x) = view(m, u, x)
<1> DEFINE f == virt_to_phys(m, q, p)
<1>0. /\ HasFields(m) /\ m.used \subseteq Frame /\ m.data \in [Frame -> Value]
      /\ m.table \in [Frame -> [Slots -> Entry]]
  BY GoodFacts
<1>b. Owned(m, P, {}, KF(m))
  BY DEF Good
<1>1. f \in Frame
  BY <1>b DEF Owned
<1>2. /\ n.data \in [Frame -> Value] /\ n.data[f] = v
      /\ \A g \in Frame \ {f} : n.data[g] = m.data[g]
  BY <1>0, <1>1
<1> HIDE DEF f
<1>3. /\ \A u, s : tab(n, u, s) = tab(m, u, s)
      /\ \A u, x : virt_to_phys(n, u, x) = virt_to_phys(m, u, x)
      /\ \A u, x : leaf(n, u, x) = leaf(m, u, x)
  BY DEF tab, virt_to_phys, leaf
<1>4. KernelOK(n, h) /\ KF(n) = KF(m) /\ SpacesOK(n, P)
  BY <1>3 DEF KernelOK, KF, SpacesOK, Good
<1>5. Owned(n, P, {}, KF(m))
  BY <1>3, <1>b, OwnedSame
<1>6. Good(n, P, {}, h)
  BY <1>0, <1>2, <1>4, <1>5 DEF Good, IsRam
<1>7. view(n, q, p) = <<v, leaf(m, q, p).fl>>
  BY <1>2, <1>3 DEF view, f
<1>8. ASSUME NEW u \in P, NEW x \in PrivatePage, u # q \/ x # p
      PROVE  view(n, u, x) = view(m, u, x)
  <2>1. virt_to_phys(m, u, x) # NULL => virt_to_phys(m, u, x) \in Frame \ {f}
    BY <1>8, <1>b DEF Owned, f
  <2> QED
    BY <1>2, <1>3, <2>1 DEF view
<1> QED
  BY <1>6, <1>7, <1>8

LEMMA OwnedKernel ==
    ASSUME NEW m, NEW n, NEW P, NEW K, NEW f, Owned(m, P, {f}, K), n.used = m.used,
           \A u \in P, s \in Private : tab(n, u, s) = tab(m, u, s),
           \A u \in P, x \in PrivatePage : virt_to_phys(n, u, x) = virt_to_phys(m, u, x)
    PROVE  Owned(n, P, {}, K \cup {f})
<1>1. P \cup {f} \cup K = P \cup {} \cup (K \cup {f})
  OBVIOUS
<1> QED
  BY <1>1 DEF Owned

\* grow_heap(): the new page is in the table that all spaces share.
LEMMA HeapKeeps ==
    ASSUME NEW m, NEW P, NEW h, Good(m, P, {}, h), NEW q \in P, h \in PagesOf(HEAP)
    PROVE  LET n == map_new_page(m, q, h, "KERNEL", Zero)
           IN  /\ HasFields(n)
               /\ ~n.oom => /\ Good(n, P, {}, h + 1)
                            /\ \A u \in P, x \in PrivatePage : view(n, u, x) = view(m, u, x)
<1> DEFINE w == with_frame(m)
           f == alloc_frame(m)
           t == tab(m, KernelRoot, HEAP)
           i == index(h)
           e == [to |-> f, fl |-> "KERNEL"]
           g == map_into(w, q, h, f, "KERNEL")
           n == map_new_page(m, q, h, "KERNEL", Zero)
<1>0. HasFields(m)
  BY GoodFacts
<1>a. h \in Nat /\ region(h) = HEAP /\ i \in Index /\ HEAP \in Region \ Private /\ HEAP \in Nat
  BY PagesOfIs, Constants DEF HEAP
<1>1. HasFields(n) /\ (w.oom => n.oom)
  BY <1>0, MapNewPageMono
<1>2. SUFFICES ASSUME ~n.oom
               PROVE  /\ Good(n, P, {}, h + 1)
                      /\ \A u \in P, x \in PrivatePage : view(n, u, x) = view(m, u, x)
  BY <1>1
<1>3. /\ f \in Frame \ m.used /\ Good(w, P, {f}, h)
      /\ w.table = m.table /\ w.data = m.data
      /\ \A u, x : view(w, u, x) = view(m, u, x)
  <2>1. {} \cup {f} = {f}
    OBVIOUS
  <2> QED
    BY <1>1, <1>2, <2>1, AllocKeeps
<1> HIDE DEF w, f, n, i
<1>4. /\ HasFields(w) /\ w.used \subseteq Frame /\ w.data \in [Frame -> Value]
      /\ w.table \in [Frame -> [Slots -> Entry]] /\ P \subseteq w.used
      /\ KF(w) \subseteq w.used /\ P \cap KF(w) = {} /\ KernelRoot \in KF(w)
      /\ tab(w, KernelRoot, HEAP) \in KF(w) /\ f \in w.used
  BY <1>3, GoodFacts
<1>b. /\ \A u \in P, s \in Private :
           tab(w, u, s) \in (w.used \ (P \cup {f} \cup KF(w))) \cup {NULL}
      /\ \A u \in P, s \in Private : ~huge(w.table[u][s])
  BY ONLY <1>3, GoodFacts
<1>c. Owned(w, P, {f}, KF(w)) /\ KernelOK(w, h) /\ SpacesOK(w, P)
  BY <1>3 DEF Good
<1>5. /\ t = tab(w, KernelRoot, HEAP) /\ t \in Frame \ {KernelRoot} /\ t \in KF(w) /\ t \notin P
      /\ ~huge(w.table[q][HEAP]) /\ w.table[q][HEAP].to = t /\ t # NULL
      /\ ~huge(w.table[KernelRoot][HEAP]) /\ w.table[KernelRoot][HEAP].to = t
  BY <1>3, <1>4, <1>c, <1>a, Constants DEF KernelOK, SpacesOK, tab
<1> HIDE DEF t
<1>6. g = [w EXCEPT !.table[t][i] = e]
  <2>1. ensure_table(w, q, HEAP) = w
    BY <1>5 DEF ensure_table, present
  <2> QED
    BY <1>5, <1>a, <2>1 DEF map_into, i
<1>7. n = [g EXCEPT !.data[f] = Zero]
  BY DEF map_new_page, n, w, f
<1> HIDE DEF g, e
<1>8. /\ HasFields(g) /\ g.used = w.used /\ g.data = w.data /\ g.oom = w.oom
      /\ g.table = [w.table EXCEPT ![t][i] = e]
  BY <1>4, <1>6 DEF HasFields
<1>9. /\ n.used = w.used /\ n.oom = w.oom /\ n.data = [w.data EXCEPT ![f] = Zero]
      /\ n.table = [w.table EXCEPT ![t][i] = e]
  BY <1>7, <1>8 DEF HasFields
<1>10. e \in Entry /\ e.to = f /\ i \in Slots
  BY <1>3, <1>a, Constants DEF Entry, Flag, e
<1>11. /\ n.table \in [Frame -> [Slots -> Entry]]
       /\ \A x \in Frame \ {t} : n.table[x] = w.table[x]
       /\ \A s \in Slots \ {i} : n.table[t][s] = w.table[t][s]
       /\ n.table[t][i] = e
  BY ONLY <1>4, <1>5, <1>9, <1>10, TableWrite
<1>12. /\ n.data \in [Frame -> Value] /\ \A x \in Frame \ {f} : n.data[x] = w.data[x]
  BY <1>3, <1>4, <1>9, AddressSpaceAssumption
<1>13. /\ n.table[KernelRoot] = w.table[KernelRoot] /\ \A u \in P : n.table[u] = w.table[u]
  BY <1>4, <1>5, <1>11, Constants
<1>14. SpacesOK(n, P)
  BY <1>13, <1>c DEF SpacesOK
<1>15. \A u \in P, s \in Private : tab(n, u, s) = tab(w, u, s)
  BY <1>13 DEF tab
<1>16. ASSUME NEW u \in P, NEW x \in PrivatePage
       PROVE  virt_to_phys(n, u, x) = virt_to_phys(w, u, x) /\ view(n, u, x) = view(w, u, x)
  <2> DEFINE y == tab(w, u, region(x))
  <2>1. /\ ~huge(n.table[u][region(x)]) /\ ~huge(w.table[u][region(x)])
        /\ tab(n, u, region(x)) = y /\ region(x) \in Private
    BY <1>13, <1>15, <1>b, PrivateIs
  <2>2. y # NULL => y \in Frame \ {t}
    BY <1>4, <1>5, <1>b, <2>1
  <2>3. y # NULL => n.table[y] = w.table[y]
    BY <1>11, <2>2
  <2>4. virt_to_phys(n, u, x) = virt_to_phys(w, u, x)
    BY ONLY <2>1, <2>3, LeafIs
  <2>5. y # NULL => leaf(n, u, x) = leaf(w, u, x)
    BY <2>1, <2>3 DEF leaf, tab
  <2>6. y = NULL => virt_to_phys(w, u, x) = NULL
    BY ONLY <2>1, LeafIs
  <2>7. virt_to_phys(w, u, x) # NULL => virt_to_phys(w, u, x) \in Frame \ {f}
    BY <1>c DEF Owned
  <2> QED
    BY <1>12, <2>4, <2>5, <2>6, <2>7 DEF view
<1>17. ASSUME NEW p \in PagesOf(HEAP)
       PROVE  virt_to_phys(n, KernelRoot, p) = IF p = h THEN f ELSE virt_to_phys(w, KernelRoot, p)
  <2>1. region(p) = HEAP /\ index(p) \in Slots /\ (index(p) = i => p = h)
    BY <1>a, PagesOfIs, Constants DEF i
  <2>2. virt_to_phys(n, KernelRoot, p) = n.table[t][index(p)].to
    BY <1>5, <1>13, <2>1 DEF virt_to_phys, present
  <2>3. virt_to_phys(w, KernelRoot, p) = w.table[t][index(p)].to
    BY <1>5, <2>1 DEF virt_to_phys, present
  <2>4. CASE p = h
    BY <1>10, <1>11, <2>2, <2>4 DEF i
  <2>5. CASE p # h
    BY <1>11, <2>1, <2>2, <2>3, <2>5
  <2> QED
    BY <2>4, <2>5
<1>18. \A s : tab(n, KernelRoot, s) = tab(w, KernelRoot, s)
  BY <1>13 DEF tab
<1>19. KernelOK(n, h + 1)
  <2>1. \A p \in PagesOf(HEAP) : p \in Nat
    BY <1>a, PagesOfIs
  <2>2. \A p \in PagesOf(HEAP) : virt_to_phys(n, KernelRoot, p) \in Frame \cup {NULL}
    BY <1>3, <1>17, <1>c DEF KernelOK
  <2>3. \A p \in PagesOf(HEAP) : p >= h + 1 => virt_to_phys(n, KernelRoot, p) = NULL
    BY <1>17, <1>a, <1>c, <2>1 DEF KernelOK
  <2> QED
    BY <1>13, <1>18, <1>c, <2>2, <2>3 DEF KernelOK
<1>20. KF(n) = KF(w) \cup {f}
  <2>1. virt_to_phys(w, KernelRoot, h) = NULL
    BY <1>a, <1>c DEF KernelOK
  <2>2. ASSUME NEW a PROVE a \in KF(n) <=> a \in KF(w) \cup {f}
    BY <1>3, <1>17, <1>18, <2>1, Constants DEF KF
  <2> QED
    BY <2>2
<1>21. Owned(n, P, {}, KF(w) \cup {f})
  BY <1>9, <1>15, <1>16, <1>c, OwnedKernel
<1>22. IsRam(n)
  BY <1>1, <1>4, <1>9, <1>11, <1>12 DEF IsRam
<1>23. Good(n, P, {}, h + 1)
  BY <1>2, <1>14, <1>19, <1>20, <1>21, <1>22 DEF Good
<1> QED
  BY <1>3, <1>16, <1>23

----------------------------------------------------------------------------
(* Addresses *)

LEMMA PageUpIs ==
    ASSUME NEW a \in Nat
    PROVE  /\ page_up(a) \in Nat
           /\ \A k \in Nat : page_up(PAGE_SIZE * k + a) = k + page_up(a)
           /\ \A k \in Nat : a <= PAGE_SIZE * k <=> page_up(a) <= k
<1> DEFINE d == PAGE_SIZE
           c == a + d - 1
           u == c \div d
           r == c % d
<1>1. d \in Nat \ {0} /\ c \in Nat
  BY AddressSpaceAssumption
<1> HIDE DEF d
<1>2. u \in Nat /\ r \in 0..(d - 1) /\ c = d * u + r
  <2> HIDE DEF c
  <2> QED
    BY <1>1, DivMod
<1>3. page_up(a) = u
  BY DEF page_up, d
<1> HIDE DEF u, r
<1>4. ASSUME NEW k \in Nat PROVE page_up(d * k + a) = k + u
  <2>1. d * k + a + d - 1 = d * (k + u) + r
    <3>1. d * (k + u) = d * k + d * u /\ d * k \in Nat /\ d * u \in Nat
      BY <1>1, <1>2
    <3> QED
      BY <1>1, <1>2, <3>1
  <2>2. (d * (k + u) + r) \div d = k + u
    <3>1. k + u \in Nat
      BY <1>2
    <3> QED
      BY <1>1, <1>2, <3>1, DivIs
  <2> QED
    BY <2>1, <2>2 DEF page_up, d
<1>5. ASSUME NEW k \in Nat PROVE a <= d * k <=> u <= k
  <2>1. d * u \in Nat /\ d * k \in Nat /\ d * (u - 1) = d * u - d
    BY <1>1, <1>2
  <2>2. d * u <= d * k <=> u <= k
    BY <1>1, <1>2, MultOrder
  <2>3. d * (u - 1) < d * k => u <= k
    <3>1. d * k <= d * (u - 1) <=> k <= u - 1
      BY <1>1, <1>2, MultOrder
    <3> QED
      BY <1>1, <1>2, <2>1, <3>1
  <2>4. a <= d * u /\ d * u - d < a
    BY <1>1, <1>2, <2>1
  <2> QED
    BY <1>1, <2>1, <2>2, <2>3, <2>4
<1> QED
  BY <1>2, <1>3, <1>4, <1>5 DEF d

LEMMA PageUpOrder ==
    ASSUME NEW a \in Nat, NEW b \in Nat, a <= b
    PROVE  page_up(a) <= page_up(b)
<1>1. page_up(b) \in Nat /\ b <= PAGE_SIZE * page_up(b)
  BY PageUpIs
<1>2. PAGE_SIZE * page_up(b) \in Nat
  BY <1>1, AddressSpaceAssumption
<1>3. a <= PAGE_SIZE * page_up(b)
  BY <1>1, <1>2
<1> QED
  BY <1>1, <1>3, PageUpIs

LEMMA WholePage ==
    ASSUME NEW k \in Nat
    PROVE  /\ PAGE_SIZE * k \in Nat /\ page_up(PAGE_SIZE * k) = k
           /\ page_down(PAGE_SIZE * k) = k
<1>1. PAGE_SIZE \in Nat \ {0}
  BY AddressSpaceAssumption
<1>2. PAGE_SIZE * k \in Nat /\ (PAGE_SIZE * k) \div PAGE_SIZE = k
  BY <1>1, MultIs
<1>3. page_up(0) = 0
  <2>1. page_up(0) \in Nat /\ (0 <= PAGE_SIZE * 0 <=> page_up(0) <= 0)
    BY PageUpIs
  <2> QED
    BY <1>1, <2>1
<1>4. page_up(PAGE_SIZE * k + 0) = k + page_up(0)
  BY PageUpIs
<1>5. PAGE_SIZE * k + 0 = PAGE_SIZE * k
  BY <1>2
<1> QED
  BY <1>2, <1>3, <1>4, <1>5 DEF page_down

LEMMA Bounds ==
    /\ RESERVED_LOW = PAGE_SIZE * PagesPerTable
    /\ BRK_CEILING = PAGE_SIZE * (2 * PagesPerTable)
    /\ LINUX_MMAP_BASE = PAGE_SIZE * (3 * PagesPerTable)
    /\ LINUX_STACK_BASE = PAGE_SIZE * (4 * PagesPerTable - 1)
    /\ STACK_PAGE = 4 * PagesPerTable - 1 /\ STACK_PAGE \in PagesOf(HIGH)
    /\ STACK_PAGE \in Nat
    /\ \A p : p \in PagesOf(WINDOW) <=> p \in PagesPerTable..(2 * PagesPerTable - 1)
    /\ \A p : p \in PagesOf(HIGH) <=> p \in (3 * PagesPerTable)..(4 * PagesPerTable - 1)
<1>1. PagesPerTable \in Nat \ {0, 1} /\ PAGE_SIZE \in Nat \ {0}
  BY AddressSpaceAssumption
<1>2. /\ RESERVED_LOW = PAGE_SIZE * PagesPerTable
      /\ BRK_CEILING = PAGE_SIZE * (2 * PagesPerTable)
      /\ LINUX_MMAP_BASE = PAGE_SIZE * (3 * PagesPerTable)
      /\ LINUX_STACK_BASE = PAGE_SIZE * (4 * PagesPerTable - 1)
  BY <1>1 DEF RESERVED_LOW, BRK_CEILING, LINUX_MMAP_BASE, LINUX_STACK_BASE, StartOf,
              WINDOW, MMIO, HIGH, HEAP
<1>3. 4 * PagesPerTable - 1 \in Nat
  BY <1>1
<1>4. STACK_PAGE = 4 * PagesPerTable - 1
  BY <1>2, <1>3, WholePage DEF STACK_PAGE, page_down
<1>5. ASSUME NEW r \in {1, 3}, NEW p
      PROVE  p \in PagesOf(r) <=> p \in (r * PagesPerTable)..((r + 1) * PagesPerTable - 1)
  BY <1>1, <1>5, PagesOfIs, InPagesOf
<1>6. \A p : p \in PagesOf(WINDOW) <=> p \in PagesPerTable..(2 * PagesPerTable - 1)
  <2>1. 1 * PagesPerTable = PagesPerTable /\ (1 + 1) * PagesPerTable = 2 * PagesPerTable
    BY <1>1
  <2> QED
    BY <1>5, <2>1 DEF WINDOW
<1>7. \A p : p \in PagesOf(HIGH) <=> p \in (3 * PagesPerTable)..(4 * PagesPerTable - 1)
  <2>1. (3 + 1) * PagesPerTable = 4 * PagesPerTable
    BY <1>1
  <2> QED
    BY <1>5, <2>1 DEF HIGH
<1>8. STACK_PAGE \in PagesOf(HIGH)
  BY <1>1, <1>3, <1>4, <1>7
<1> QED
  BY <1>2, <1>3, <1>4, <1>6, <1>7, <1>8

----------------------------------------------------------------------------
(* Boot *)

LEMMA BootIs == Good(booted, {}, {}, HEAP * PagesPerTable + 1) /\ HasFields(booted)
<1> DEFINE N == HEAP * PagesPerTable
           a == alloc_frame(boot)
           v == with_frame(boot)
           one == remap_kernel(boot)
           b == alloc_frame(one)
           w == with_frame(one)
           c == alloc_frame(w)
           x == with_frame(w)
           cut == [i \in Slots |-> IF i \in Index
                     THEN [to |-> boot.table[KernelRoot][KERNEL].to + i, fl |-> "KERNEL"]
                     ELSE Absent]
<1>0. /\ {0, 1, 2, 3, 4} \subseteq Frame /\ KernelRoot = 1 /\ KERNEL = 0 /\ HEAP = 4
      /\ 0 \in Index /\ 1 \in Slots /\ 0 \in Slots /\ 4 \in Slots /\ Zero \in Value
      /\ NULL \notin Nat /\ Frame \subseteq Nat /\ PagesPerTable \in Nat \ {0}
  BY AddressSpaceAssumption, Constants DEF Frame, KernelRoot, KERNEL, HEAP, Index, Slots, Region
<1>1. /\ HasFields(boot) /\ ~boot.oom /\ boot.used = {0, 1}
      /\ boot.table \in [Frame -> [Slots -> Entry]] /\ boot.data \in [Frame -> Value]
      /\ boot.table[1][0] = [to |-> 0, fl |-> "HUGE"] /\ boot.table[1][4] = Absent
  <2> DEFINE R == [r \in Slots |-> IF r \in KERNEL..MMIO
                              THEN [to |-> r * PagesPerTable, fl |-> "HUGE"] ELSE Absent]
  <2>1. /\ R \in [Slots -> Entry] /\ R[0] = [to |-> 0, fl |-> "HUGE"] /\ R[4] = Absent
    <3>1. ASSUME NEW r \in KERNEL..MMIO
          PROVE  [to |-> r * PagesPerTable, fl |-> "HUGE"] \in Entry
      <4>1. r \in {0, 1, 2}
        BY DEF KERNEL, MMIO
      <4>2. r * PagesPerTable \in Nat
        BY <1>0, <4>1
      <4> QED
        BY <4>2 DEF Entry, Flag
    <3>2. 0 * PagesPerTable = 0
      BY <1>0
    <3> QED
      BY <1>0, <3>1, <3>2, Constants DEF KERNEL, MMIO
  <2> HIDE DEF R
  <2>2. boot = [used |-> {0, 1}, table |-> [f \in Frame |-> IF f = 1 THEN R ELSE Zeroed],
                data |-> [f \in Frame |-> Zero], oom |-> FALSE]
    BY <1>0, Constants DEF boot, R
  <2>3. /\ boot.used = {0, 1} /\ boot.table = [f \in Frame |-> IF f = 1 THEN R ELSE Zeroed]
        /\ boot.data = [f \in Frame |-> Zero] /\ ~boot.oom
    BY <2>2
  <2>4. HasFields(boot)
    BY <2>2, <2>3 DEF HasFields
  <2> QED
    BY <1>0, <2>1, <2>3, <2>4, Constants
<1>2. a \in Frame \ {0, 1}
  <2>1. boot.used # Frame /\ boot.used \subseteq Frame
    BY <1>0, <1>1
  <2> QED
    BY <1>1, <2>1, AllocIs
<1>3. HasFields(v) /\ v.used = {0, 1, a} /\ v.table = boot.table /\ v.data = boot.data /\ ~v.oom
  <2>1. /\ HasFields(v) /\ v.used = boot.used \cup {a} /\ v.table = boot.table
        /\ v.data = boot.data
        /\ v.oom <=> (boot.oom \/ boot.used = Frame)
    BY <1>1, WithFrameIs
  <2>2. boot.used # Frame /\ {0, 1} \cup {a} = {0, 1, a}
    BY <1>0, <1>1
  <2> QED
    BY <1>1, <2>1, <2>2
<1>4. region(0) = 0 /\ index(0) = 0 /\ region(N) = 4 /\ index(N) = 0 /\ N \in Nat
  <2>1. 0 * PagesPerTable + 0 = 0 /\ 4 * PagesPerTable + 0 = N
    BY <1>0
  <2> QED
    BY <1>0, <2>1, PageIs
<1>5. cut \in [Slots -> Entry]
  <2>1. boot.table[KernelRoot][KERNEL].to = 0
    BY <1>0, <1>1
  <2> QED
    BY <2>1, Constants, <1>0 DEF Entry, Flag, Index
<1> DEFINE s == split_huge_page(boot, 1, 0)
<1>6. s = [v EXCEPT !.table[a] = cut, !.table[1][0] = [to |-> a, fl |-> "TABLE"]]
  BY <1>0, Constants DEF split_huge_page
<1> HIDE DEF v, a, cut, s
<1>7. /\ HasFields(s) /\ s.used = {0, 1, a} /\ ~s.oom /\ s.data = boot.data
      /\ s.table = [[boot.table EXCEPT ![a] = cut] EXCEPT ![1][0] = [to |-> a, fl |-> "TABLE"]]
  BY <1>3, <1>6 DEF HasFields
<1>8. /\ s.table \in [Frame -> [Slots -> Entry]] /\ s.table[1][0] = [to |-> a, fl |-> "TABLE"]
      /\ s.table[1][4] = Absent
  <2> DEFINE T == [boot.table EXCEPT ![a] = cut]
  <2>1. T \in [Frame -> [Slots -> Entry]] /\ T[1][4] = Absent
    BY <1>0, <1>1, <1>2, <1>5
  <2>2. [to |-> a, fl |-> "TABLE"] \in Entry
    BY <1>0, <1>2 DEF Entry, Flag
  <2> HIDE DEF T
  <2>3. s.table = [T EXCEPT ![1][0] = [to |-> a, fl |-> "TABLE"]]
    BY <1>7 DEF T
  <2> QED
    BY <1>0, <2>1, <2>2, <2>3, TableWrite
<1>9. one = [s EXCEPT !.table[a][0] = [to |-> 0, fl |-> "KERNEL"]]
  <2>1. huge(boot.table[1][0])
    BY <1>1 DEF huge
  <2>2. ensure_table(s, 1, 0) = s /\ s.table[1][0].to = a
    <3>1. present(s.table[1][0]) /\ s.table[1][0].to = a
      BY <1>0, <1>2, <1>8 DEF present
    <3> QED
      BY <3>1 DEF ensure_table
  <2> QED
    BY <1>0, <1>4, <2>1, <2>2 DEF remap_kernel, map_into, s
<1> HIDE DEF one
<1>10. /\ HasFields(one) /\ one.used = {0, 1, a} /\ ~one.oom /\ one.data = boot.data
       /\ one.table = [s.table EXCEPT ![a][0] = [to |-> 0, fl |-> "KERNEL"]]
  BY <1>7, <1>9 DEF HasFields
<1>11. /\ one.table \in [Frame -> [Slots -> Entry]]
       /\ one.table[1][0] = [to |-> a, fl |-> "TABLE"] /\ one.table[1][4] = Absent
  <2>1. [to |-> 0, fl |-> "KERNEL"] \in Entry
    BY DEF Entry, Flag
  <2> QED
    BY <1>0, <1>2, <1>8, <1>10, <2>1, TableWrite
<1>12. b \in Frame \ {0, 1, a}
  <2>1. one.used # Frame /\ one.used \subseteq Frame
    BY <1>0, <1>2, <1>10
  <2> QED
    BY <1>10, <2>1, AllocIs
<1>13. HasFields(w) /\ w.used = {0, 1, a, b} /\ w.table = one.table /\ w.data = boot.data /\ ~w.oom
  <2>1. /\ HasFields(w) /\ w.used = one.used \cup {b} /\ w.table = one.table
        /\ w.data = one.data
        /\ w.oom <=> (one.oom \/ one.used = Frame)
    BY <1>10, WithFrameIs
  <2>2. one.used # Frame /\ {0, 1, a} \cup {b} = {0, 1, a, b}
    BY <1>0, <1>10
  <2> QED
    BY <1>10, <2>1, <2>2
<1>14. c \in Frame \ {0, 1, a, b}
  <2>1. w.used # Frame /\ w.used \subseteq Frame
    BY <1>0, <1>2, <1>12, <1>13
  <2> QED
    BY <1>13, <2>1, AllocIs
<1>15. HasFields(x) /\ x.used = {0, 1, a, b, c} /\ x.table = one.table /\ x.data = boot.data /\ ~x.oom
  <2>1. /\ HasFields(x) /\ x.used = w.used \cup {c} /\ x.table = w.table
        /\ x.data = w.data
        /\ x.oom <=> (w.oom \/ w.used = Frame)
    BY <1>13, WithFrameIs
  <2>2. w.used # Frame /\ {0, 1, a, b} \cup {c} = {0, 1, a, b, c}
    BY <1>0, <1>13
  <2> QED
    BY <1>13, <2>1, <2>2
<1> DEFINE full == ensure_table(w, 1, 4)
           g == map_into(w, 1, N, b, "KERNEL")
<1>16. full = [x EXCEPT !.table[c] = Zeroed, !.table[1][4] = [to |-> c, fl |-> "TABLE"]]
  BY <1>11, <1>13, Constants DEF ensure_table
<1> HIDE DEF x, w, b, c, full
<1>17. /\ HasFields(full) /\ full.used = {0, 1, a, b, c} /\ ~full.oom /\ full.data = boot.data
       /\ full.table = [[one.table EXCEPT ![c] = Zeroed] EXCEPT ![1][4] = [to |-> c, fl |-> "TABLE"]]
  BY <1>15, <1>16 DEF HasFields
<1>18. /\ full.table \in [Frame -> [Slots -> Entry]]
       /\ full.table[1][0] = [to |-> a, fl |-> "TABLE"]
       /\ full.table[1][4] = [to |-> c, fl |-> "TABLE"] /\ full.table[c] = Zeroed
  <2> DEFINE T == [one.table EXCEPT ![c] = Zeroed]
  <2>1. /\ T \in [Frame -> [Slots -> Entry]] /\ T[1][0] = [to |-> a, fl |-> "TABLE"]
        /\ T[c] = Zeroed
    BY <1>0, <1>11, <1>14, Constants
  <2>2. [to |-> c, fl |-> "TABLE"] \in Entry
    BY <1>0, <1>14 DEF Entry, Flag
  <2> HIDE DEF T
  <2>3. full.table = [T EXCEPT ![1][4] = [to |-> c, fl |-> "TABLE"]]
    BY <1>17 DEF T
  <2> QED
    BY <1>0, <1>14, <2>1, <2>2, <2>3, TableWrite
<1>19. g = [full EXCEPT !.table[c][0] = [to |-> b, fl |-> "KERNEL"]]
  <2>1. ~huge(w.table[1][4])
    BY <1>11, <1>13, Constants
  <2>2. full.table[1][4].to = c
    BY <1>18
  <2> HIDE DEF N
  <2>3. g = [full EXCEPT !.table[full.table[1][4].to][0] = [to |-> b, fl |-> "KERNEL"]]
    BY <1>4, <2>1 DEF map_into, full
  <2> QED
    BY <2>2, <2>3
<1>20. booted = [g EXCEPT !.data[b] = Zero]
  BY <1>0 DEF booted, map_new_page, one, w, b
<1> HIDE DEF g
<1>21. /\ HasFields(g) /\ g.used = full.used /\ g.oom = full.oom /\ g.data = boot.data
       /\ g.table = [full.table EXCEPT ![c][0] = [to |-> b, fl |-> "KERNEL"]]
  BY <1>17, <1>19 DEF HasFields
<1> DEFINE z == booted
<1> HIDE DEF z
<1>22. /\ HasFields(z) /\ z.used = {0, 1, a, b, c} /\ ~z.oom
       /\ z.data = [boot.data EXCEPT ![b] = Zero]
       /\ z.table = [full.table EXCEPT ![c][0] = [to |-> b, fl |-> "KERNEL"]]
  BY <1>17, <1>20, <1>21 DEF HasFields, z
<1>23. /\ z.table \in [Frame -> [Slots -> Entry]]
       /\ z.table[1] = full.table[1]
       /\ z.table[c][0] = [to |-> b, fl |-> "KERNEL"]
       /\ \A i \in Slots \ {0} : z.table[c][i] = Absent
  <2>1. [to |-> b, fl |-> "KERNEL"] \in Entry /\ c \in Frame \ {1}
    BY <1>0, <1>12, <1>14 DEF Entry, Flag
  <2>2. \A i \in Slots : full.table[c][i] = Absent
    BY <1>18, Constants DEF Zeroed
  <2>3. /\ z.table \in [Frame -> [Slots -> Entry]]
        /\ \A y \in Frame \ {c} : z.table[y] = full.table[y]
        /\ \A i \in Slots \ {0} : z.table[c][i] = full.table[c][i]
        /\ z.table[c][0] = [to |-> b, fl |-> "KERNEL"]
    BY ONLY <1>0, <1>18, <1>22, <2>1, TableWrite
  <2> QED
    BY <1>0, <2>1, <2>2, <2>3
<1>24. IsRam(z)
  BY <1>0, <1>1, <1>2, <1>12, <1>14, <1>22, <1>23 DEF IsRam
<1>25. tab(z, 1, 0) = a /\ tab(z, 1, 4) = c /\ ~huge(z.table[1][4])
  BY <1>18, <1>23 DEF tab, huge
<1>26. ASSUME NEW p \in PagesOf(4)
       PROVE  /\ p \in Nat /\ p >= N /\ N \in PagesOf(4)
              /\ virt_to_phys(z, 1, p) = IF p = N THEN b ELSE NULL
  <2>1. p \in Nat /\ region(p) = 4 /\ index(p) \in Index /\ p = N + index(p) /\ p >= N
    BY <1>0, PagesOfIs
  <2>2. virt_to_phys(z, 1, p) = z.table[c][index(p)].to
    BY <1>0, <1>14, <1>18, <1>23, <1>25, <2>1 DEF virt_to_phys, present
  <2>3. N \in PagesOf(4)
    <3>1. N = 4 * PagesPerTable + 0
      BY <1>0
    <3> QED
      BY <1>0, <3>1 DEF PagesOf
  <2>4. (p = N) <=> (index(p) = 0)
    BY <1>4, <2>1, <1>0 DEF Index
  <2> QED
    BY <1>23, <2>1, <2>2, <2>3, <2>4, Constants DEF Absent
<1>27. KernelOK(z, N + 1)
  BY <1>0, <1>2, <1>4, <1>12, <1>14, <1>25, <1>26 DEF KernelOK
<1>28. KF(z) = {0, 1, a, b, c}
  <2>1. N \in PagesOf(4)
    <3>1. N = 4 * PagesPerTable + 0
      BY <1>0
    <3> QED
      BY <1>0, <3>1 DEF PagesOf
  <2>2. {virt_to_phys(z, 1, p) : p \in PagesOf(4)} \ {NULL} = {b}
    BY <1>0, <1>12, <1>26, <2>1
  <2> QED
    BY <1>0, <1>25, <2>2 DEF KF
<1>29. Owned(z, {}, {}, KF(z))
  BY <1>0, <1>2, <1>12, <1>14, <1>22, <1>28 DEF Owned
<1>30. SpacesOK(z, {})
  BY DEF SpacesOK
<1> QED
  BY <1>0, <1>22, <1>24, <1>27, <1>29, <1>30 DEF Good, z

----------------------------------------------------------------------------
(* The parts of the operations *)

LEMMA FreeMono ==
    ASSUME NEW m, HasFields(m), NEW F
    PROVE  HasFields(free_frames(m, F)) /\ free_frames(m, F).oom = m.oom
  BY DEF HasFields, free_frames

LEMMA MapPagesMono ==
    ASSUME NEW m, HasFields(m), NEW q, NEW s, Len(s) \in Nat
    PROVE  HasFields(map_pages(m, q, s)) /\ (m.oom => map_pages(m, q, s).oom)
<1>1. PICK g : Chain(g, m, q, s, Len(s)) /\ map_pages(m, q, s) = g[Len(s)]
  BY ChainIs
<1> DEFINE Ok(i) == HasFields(g[i]) /\ (m.oom => g[i].oom)
           Bad == {i \in 0..Len(s) : ~Ok(i)}
<1>2. Ok(0)
  <2>1. g[0] = m
    BY <1>1 DEF Chain
  <2> QED
    BY <2>1
<1>3. ASSUME NEW i \in 1..Len(s), Ok(i - 1) PROVE Ok(i)
  <2>1. g[i] = map_page(g[i - 1], q, s[i])
    BY <1>1 DEF Chain
  <2>2. g[i] = g[i - 1] \/ g[i] = map_new_page(g[i - 1], q, s[i].page, s[i].fl, s[i].val)
    BY <2>1 DEF map_page
  <2>3. LET n == map_new_page(g[i - 1], q, s[i].page, s[i].fl, s[i].val)
        IN  HasFields(n) /\ (g[i - 1].oom => n.oom)
    BY <1>3, MapNewPageMono
  <2> QED
    BY <1>3, <2>2, <2>3
<1> HIDE DEF Ok
<1>4. Bad = {}
  <2>1. SUFFICES ASSUME Bad # {} PROVE FALSE
    OBVIOUS
  <2>2. PICK k \in Bad : \A j \in Bad : k <= j
    <3>1. Bad \subseteq Nat
      OBVIOUS
    <3> HIDE DEF Bad
    <3> QED
      BY <2>1, <3>1, LeastNatural
  <2>3. k \in 1..Len(s) /\ k - 1 \in 0..Len(s) /\ k - 1 \notin Bad
    BY <1>2, <2>2
  <2> QED
    BY <1>3, <2>2, <2>3
<1> QED
  BY <1>1, <1>4 DEF Ok

\* brk() and mmap(): the pages from a to b are there, zeroed.
LEMMA GrowKeeps ==
    ASSUME NEW m, NEW P, NEW h, Good(m, P, {}, h), NEW q \in P,
           NEW a \in Nat, NEW b \in Nat, a <= b, NEW fl \in Flag,
           \A p \in a..(b - 1) : p \in PrivatePage /\ view(m, q, p) = << >>
    PROVE  LET n == grow(m, q, a, b, fl)
           IN  /\ HasFields(n)
               /\ ~n.oom => /\ Good(n, P, {}, h)
                            /\ \A p \in a..(b - 1) : view(n, q, p) = <<Zero, fl>>
                            /\ \A u \in P, x \in PrivatePage :
                                 u # q \/ x \notin a..(b - 1) => view(n, u, x) = view(m, u, x)
<1> DEFINE s == [i \in 1..(b - a) |-> [page |-> a + i - 1, fl |-> fl, val |-> Zero]]
           n == grow(m, q, a, b, fl)
<1>1. Len(s) = b - a /\ b - a \in Nat
  OBVIOUS
<1>2. \A i \in 1..(b - a) : /\ s[i].page = a + i - 1 /\ s[i].fl = fl /\ s[i].val = Zero
                            /\ s[i].page \in a..(b - 1)
  OBVIOUS
<1>3. n = map_pages(m, q, s)
  BY DEF grow
<1> HIDE DEF s, n
<1>4. NULL \notin Nat /\ Zero \in Value
  BY AddressSpaceAssumption
<1>5. Fits(m, q, s)
  BY <1>1, <1>2, <1>4 DEF Fits
<1>6. Added(m, n, P, h, q, s, b - a)
  BY <1>1, <1>3, <1>5, MapPagesAdds
<1>7. \A p \in a..(b - 1) : p - a + 1 \in 1..(b - a) /\ s[p - a + 1].page = p
  BY <1>2
<1>8. ASSUME ~n.oom
      PROVE  /\ Good(n, P, {}, h)
             /\ \A p \in a..(b - 1) : view(n, q, p) = <<Zero, fl>>
             /\ \A u \in P, x \in PrivatePage :
                  u # q \/ x \notin a..(b - 1) => view(n, u, x) = view(m, u, x)
  <2>1. /\ Good(n, P, {}, h)
        /\ \A u \in P \ {q}, x \in PrivatePage : view(n, u, x) = view(m, u, x)
        /\ \A x \in PrivatePage :
              (\A j \in 1..(b - a) : s[j].page # x) => view(n, q, x) = view(m, q, x)
        /\ \A j \in 1..(b - a) : s[j].page # NULL =>
              view(n, q, s[j].page) = <<s[j].val, s[j].fl>>
    BY <1>6, <1>8 DEF Added
  <2>2. \A p \in a..(b - 1) : view(n, q, p) = <<Zero, fl>>
    <3>1. \A j \in 1..(b - a) : s[j].page # NULL
      BY <1>2, <1>4
    <3> QED
      BY <1>2, <1>7, <2>1, <3>1
  <2>3. \A x \in PrivatePage : x \notin a..(b - 1) => view(n, q, x) = view(m, q, x)
    BY <1>2, <2>1
  <2> QED
    BY <2>1, <2>2, <2>3
<1> QED
  BY <1>6, <1>8 DEF Added, n

\* fork(): the copy looks like the original, which does not change.
LEMMA CloneKeeps ==
    ASSUME NEW m, NEW P, NEW h, Good(m, P, {}, h), NEW q \in P, NEW d \in P, d # q,
           \A x \in PrivatePage : view(m, d, x) = << >>
    PROVE  LET n == clone_address_space(m, d, q)
           IN  /\ HasFields(n)
               /\ ~n.oom => /\ Good(n, P, {}, h)
                            /\ \A x \in PrivatePage : view(n, d, x) = view(m, q, x)
                            /\ \A u \in P \ {d}, x \in PrivatePage : view(n, u, x) = view(m, u, x)
<1> DEFINE N == 2 * PagesPerTable
           s == [i \in 1..N |-> copy_of(m, q, private_page(i))]
           n == clone_address_space(m, d, q)
<1>0. /\ m.used \subseteq Frame /\ m.data \in [Frame -> Value]
      /\ m.table \in [Frame -> [Slots -> Entry]]
  BY GoodFacts
<1>a. /\ \A u \in P, r \in Private : tab(m, u, r) \in (m.used \ (P \cup {} \cup KF(m))) \cup {NULL}
      /\ \A u \in P, r \in Private : ~huge(m.table[u][r])
  BY ONLY Good(m, P, {}, h), GoodFacts
<1>b. Owned(m, P, {}, KF(m))
  BY DEF Good
<1>1. PagesPerTable \in Nat \ {0} /\ N \in Nat /\ NULL \notin PrivatePage
  BY AddressSpaceAssumption, PrivateIs
<1>2. Len(s) = N /\ n = map_pages(m, d, s) /\ \A i \in 1..N : s[i] = copy_of(m, q, private_page(i))
  BY <1>1 DEF clone_address_space
<1> HIDE DEF s, n
<1>3. /\ \A i \in 1..N : private_page(i) \in PrivatePage
      /\ \A i, j \in 1..N : private_page(i) = private_page(j) => i = j
      /\ \A x \in PrivatePage : \E i \in 1..N : private_page(i) = x
  <2>1. /\ \A i \in 1..N : private_page(i) = IF i <= PagesPerTable THEN PagesPerTable + i - 1
                                             ELSE 3 * PagesPerTable + (i - PagesPerTable) - 1
    BY <1>1 DEF private_page, WINDOW, HIGH
  <2>2. \A x : x \in PrivatePage <=> \/ x \in PagesPerTable..(2 * PagesPerTable - 1)
                                     \/ x \in (3 * PagesPerTable)..(4 * PagesPerTable - 1)
    BY Bounds, PrivateIs
  <2>3. \A i \in 1..N : private_page(i) \in PrivatePage
    BY <1>1, <2>1, <2>2
  <2>4. \A i, j \in 1..N : private_page(i) = private_page(j) => i = j
    BY <1>1, <2>1
  <2>5. ASSUME NEW x \in PrivatePage PROVE \E i \in 1..N : private_page(i) = x
    <3>1. CASE x \in PagesPerTable..(2 * PagesPerTable - 1)
      <4>1. x - PagesPerTable + 1 \in 1..N /\ private_page(x - PagesPerTable + 1) = x
        BY <1>1, <2>1, <3>1
      <4> QED
        BY <4>1
    <3>2. CASE x \in (3 * PagesPerTable)..(4 * PagesPerTable - 1)
      <4>1. x - 2 * PagesPerTable + 1 \in 1..N /\ private_page(x - 2 * PagesPerTable + 1) = x
        BY <1>1, <2>1, <3>2
      <4> QED
        BY <4>1
    <3> QED
      BY <2>2, <3>1, <3>2
  <2> QED
    BY <2>3, <2>4, <2>5
<1>4. ASSUME NEW i \in 1..N
      PROVE  LET p == private_page(i)
             IN  /\ view(m, q, p) = << >> => s[i].page = NULL
                 /\ view(m, q, p) # << >> =>
                      /\ s[i].page = p /\ s[i].fl \in Flag /\ s[i].val \in Value
                      /\ <<s[i].val, s[i].fl>> = view(m, q, p)
  <2> DEFINE p == private_page(i)
             f == virt_to_phys(m, q, p)
  <2>1. p \in PrivatePage /\ s[i] = copy_of(m, q, p)
    BY <1>2, <1>3
  <2> HIDE DEF p
  <2>2. CASE f = NULL
    BY <2>1, <2>2, ViewIs DEF copy_of, Mapped, p
  <2>3. CASE f # NULL
    <3>1. s[i] = [page |-> p, fl |-> leaf(m, q, p).fl, val |-> m.data[f]]
      BY <2>1, <2>3 DEF copy_of, Mapped
    <3>2. view(m, q, p) = <<m.data[f], leaf(m, q, p).fl>>
      BY <2>3 DEF view
    <3>3. m.data[f] \in Value
      <4>1. f \in Frame
        BY <1>b, <2>1, <2>3 DEF Owned
      <4> QED
        BY <1>0, <4>1
    <3>4. leaf(m, q, p).fl \in Flag
      <4> DEFINE y == tab(m, q, region(p))
      <4>1. region(p) \in Private /\ index(p) \in Slots
        BY <2>1, PrivateIs, Constants
      <4>2. ~huge(m.table[q][region(p)]) /\ y \in Frame \cup {NULL}
        BY <1>0, <1>a, <4>1
      <4>3. y # NULL
        BY <2>3, <4>2, LeafIs
      <4>4. leaf(m, q, p) = m.table[y][index(p)] /\ m.table[y][index(p)] \in Entry
        BY <1>0, <4>1, <4>2, <4>3 DEF leaf, tab
      <4> QED
        BY <4>4 DEF Entry
    <3>5. view(m, q, p) # << >>
      BY <2>3, ViewIs
    <3> QED
      BY <3>1, <3>2, <3>3, <3>4, <3>5 DEF p
  <2> QED
    BY <2>2, <2>3
<1>5. Fits(m, d, s)
  <2>1. ASSUME NEW i \in 1..N, s[i].page # NULL
        PROVE  /\ s[i].page = private_page(i) /\ s[i].page \in PrivatePage
               /\ view(m, d, s[i].page) = << >> /\ s[i].fl \in Flag /\ s[i].val \in Value
    BY <1>3, <1>4, <2>1
  <2>2. ASSUME NEW i \in 1..N, NEW j \in 1..N, s[i].page = s[j].page, s[i].page # NULL
        PROVE  i = j
    BY <1>3, <2>1, <2>2
  <2> QED
    BY <1>1, <1>2, <2>1, <2>2 DEF Fits
<1>6. Added(m, n, P, h, d, s, N)
  BY <1>2, <1>5, MapPagesAdds
<1>7. ASSUME ~n.oom
      PROVE  /\ Good(n, P, {}, h)
             /\ \A x \in PrivatePage : view(n, d, x) = view(m, q, x)
             /\ \A u \in P \ {d}, x \in PrivatePage : view(n, u, x) = view(m, u, x)
  <2>1. /\ Good(n, P, {}, h)
        /\ \A u \in P \ {d}, x \in PrivatePage : view(n, u, x) = view(m, u, x)
        /\ \A x \in PrivatePage :
              (\A j \in 1..N : s[j].page # x) => view(n, d, x) = view(m, d, x)
        /\ \A j \in 1..N : s[j].page # NULL =>
              view(n, d, s[j].page) = <<s[j].val, s[j].fl>>
    BY <1>6, <1>7 DEF Added
  <2>2. ASSUME NEW x \in PrivatePage PROVE view(n, d, x) = view(m, q, x)
    <3>1. PICK i \in 1..N : private_page(i) = x
      BY <1>3
    <3>2. CASE view(m, q, x) = << >>
      <4>1. ASSUME NEW j \in 1..N PROVE s[j].page # x
        BY <1>1, <1>3, <1>4, <3>1, <3>2
      <4> QED
        BY <2>1, <3>2, <4>1
    <3>3. CASE view(m, q, x) # << >>
      <4>1. s[i].page = x /\ <<s[i].val, s[i].fl>> = view(m, q, x) /\ x # NULL
        BY <1>1, <1>4, <3>1, <3>3
      <4> QED
        BY <2>1, <4>1
    <3> QED
      BY <3>2, <3>3
  <2> QED
    BY <2>1, <2>2
<1> QED
  BY <1>6, <1>7 DEF Added, n

\* The pages of an image, and nothing else.
HasImage(m, q, img) ==
    /\ \A i \in 1..Len(img.pages) :
         view(m, q, img.pages[i].page) = <<img.pages[i].val, img.pages[i].fl>>
    /\ \A x \in PrivatePage : (\A i \in 1..Len(img.pages) : img.pages[i].page # x) =>
         view(m, q, x) = << >>

LEMMA LoadKeeps ==
    ASSUME NEW m, NEW P, NEW h, Good(m, P, {}, h), NEW q \in P, NEW img \in Image,
           \A x \in PrivatePage : view(m, q, x) = << >>
    PROVE  LET n == load_segments(m, q, img)
           IN  /\ HasFields(n)
               /\ ~n.oom => /\ Good(n, P, {}, h) /\ HasImage(n, q, img)
                            /\ \A u \in P \ {q}, x \in PrivatePage : view(n, u, x) = view(m, u, x)
<1> DEFINE s == img.pages
           n == load_segments(m, q, img)
<1>1. /\ Len(s) \in Nat /\ DOMAIN s = 1..Len(s)
      /\ \A i \in 1..Len(s) : s[i].page \in PagesOf(WINDOW) /\ s[i].fl \in {"RW", "RO"}
                              /\ s[i].val \in Value
      /\ \A i, j \in 1..Len(s) : i < j => s[i].page < s[j].page
  BY AddressSpaceAssumption DEF ImageOK
<1>2. n = map_pages(m, q, s)
  BY DEF load_segments
<1> HIDE DEF s, n
<1>3. \A i \in 1..Len(s) : s[i].page \in PrivatePage /\ s[i].page \in Nat
  BY <1>1, PrivateIs
<1>4. \A i, j \in 1..Len(s) : s[i].page = s[j].page => i = j
  BY <1>1, <1>3
<1>5. Fits(m, q, s)
  BY <1>1, <1>3, <1>4 DEF Fits, Flag
<1>6. Added(m, n, P, h, q, s, Len(s))
  BY <1>2, <1>5, MapPagesAdds
<1>7. \A i \in 1..Len(s) : s[i].page # NULL
  BY <1>3, Constants
<1>8. ~n.oom => /\ Good(n, P, {}, h) /\ HasImage(n, q, img)
                /\ \A u \in P \ {q}, x \in PrivatePage : view(n, u, x) = view(m, u, x)
  BY <1>6, <1>7 DEF Added, HasImage, s
<1> QED
  BY <1>6, <1>8 DEF Added, n

\* The image and its stack, whose page may hold anything.
HasProgram(m, q, img) ==
    /\ \A i \in 1..Len(img.pages) :
         view(m, q, img.pages[i].page) = <<img.pages[i].val, img.pages[i].fl>>
    /\ view(m, q, STACK_PAGE) # << >>
    /\ \A x \in PrivatePage \ {STACK_PAGE} :
         (\A i \in 1..Len(img.pages) : img.pages[i].page # x) => view(m, q, x) = << >>

LEMMA StackKeeps ==
    ASSUME NEW m, NEW P, NEW h, Good(m, P, {}, h), NEW q \in P, NEW img \in Image,
           HasImage(m, q, img), NEW v \in Value
    PROVE  LET n == map_stack(m, q, v)
           IN  /\ HasFields(n)
               /\ ~n.oom => /\ Good(n, P, {}, h) /\ HasProgram(n, q, img)
                            /\ \A u \in P \ {q}, x \in PrivatePage : view(n, u, x) = view(m, u, x)
<1> DEFINE s == img.pages
           n == map_stack(m, q, v)
<1>1. /\ Len(s) \in Nat /\ \A i \in 1..Len(s) : s[i].page \in PagesOf(WINDOW)
  BY AddressSpaceAssumption DEF ImageOK
<1>2. /\ \A i \in 1..Len(s) : s[i].page \in PrivatePage /\ s[i].page # STACK_PAGE
      /\ STACK_PAGE \in PrivatePage
  <2>1. PagesPerTable \in Nat \ {0}
    BY AddressSpaceAssumption
  <2> QED
    BY <1>1, <2>1, PrivateIs, Bounds
<1>3. view(m, q, STACK_PAGE) = << >>
  BY <1>2 DEF HasImage
<1> DEFINE RW == "RW"
<1>4. n = map_new_page(m, q, STACK_PAGE, RW, v) /\ RW \in Flag
  BY DEF map_stack, Flag
<1> HIDE DEF RW, n
<1>5. /\ HasFields(n)
      /\ ~n.oom => /\ Good(n, P, {}, h) /\ view(n, q, STACK_PAGE) = <<v, RW>>
                   /\ \A u \in P, x \in PrivatePage :
                        u # q \/ x # STACK_PAGE => view(n, u, x) = view(m, u, x)
  BY <1>2, <1>3, <1>4, MapNewPageKeeps
<1>6. \A a, b : <<a, b>> # << >>
  OBVIOUS
<1> QED
  BY <1>2, <1>5, <1>6 DEF HasImage, HasProgram, n

----------------------------------------------------------------------------
(* The inductive invariant *)

ProcRecord ==
    [cr3 : Frame \cup {NULL}, brk_start : Nat, brk_cur : Nat, mmap_next : Nat,
     pc : {"none", "new", "user", "failed"}]

Roots(pr) == {pr[t].cr3 : t \in {u \in Task : pr[u].cr3 # NULL}}

\* Every task has a root of its own.
ProcOK(pr) ==
    /\ pr \in [Task -> ProcRecord]
    /\ \A t \in Task : pr[t].cr3 = NULL <=> pr[t].pc = "none"
    /\ \A t, u \in Task : pr[t].cr3 = pr[u].cr3 /\ pr[t].cr3 # NULL => t = u

\* The break is in the window, the mmap area grows in whole pages up to the stack.
FieldsOK(x) ==
    /\ RESERVED_LOW <= x.brk_start /\ x.brk_start <= x.brk_cur /\ x.brk_cur <= BRK_CEILING
    /\ \E k \in (3 * PagesPerTable)..(4 * PagesPerTable - 1) : x.mmap_next = PAGE_SIZE * k

\* No page is mapped where brk() or mmap() would map the next one.
Inside(x, p) ==
    /\ p \in PagesOf(WINDOW) => p < page_up(x.brk_cur)
    /\ p \in PagesOf(HIGH) => p < page_down(x.mmap_next) \/ p = STACK_PAGE

PagesOK(m, x) == \A p \in PrivatePage : view(m, x.cr3, p) # << >> => Inside(x, p)

TaskOK(m, x) ==
    /\ x.pc = "new" => \A p \in PrivatePage : view(m, x.cr3, p) = << >>
    /\ x.pc = "user" => FieldsOK(x) /\ PagesOK(m, x)

StateOK(m, pr, h) ==
    /\ ProcOK(pr) /\ Good(m, Roots(pr), {}, h)
    /\ \A t \in Task : TaskOK(m, pr[t])

IndInv == StateOK(ram, proc, heap_end)

\* A space as a program sees it, and the memory of a task.
space(m, q) ==
    [p \in Mapped(m, q) |-> [val |-> m.data[virt_to_phys(m, q, p)], fl |-> leaf(m, q, p).fl]]

mem(m, x) ==
    IF x.cr3 = NULL THEN NULL ELSE IF x.pc # "user" THEN << >> ELSE space(m, x.cr3)

LEMMA SpaceIs ==
    ASSUME NEW m, NEW q
    PROVE  /\ DOMAIN space(m, q) = {p \in PrivatePage : view(m, q, p) # << >>}
           /\ \A p \in DOMAIN space(m, q) :
                space(m, q)[p] = [val |-> view(m, q, p)[1], fl |-> view(m, q, p)[2]]
<1>1. DOMAIN space(m, q) = Mapped(m, q)
  BY DEF space
<1>2. Mapped(m, q) = {p \in PrivatePage : view(m, q, p) # << >>}
  BY ViewIs DEF Mapped
<1>3. ASSUME NEW p \in Mapped(m, q)
      PROVE  space(m, q)[p] = [val |-> view(m, q, p)[1], fl |-> view(m, q, p)[2]]
  <2>1. view(m, q, p) = <<m.data[virt_to_phys(m, q, p)], leaf(m, q, p).fl>>
    BY <1>2, ViewIs
  <2>2. /\ view(m, q, p)[1] = m.data[virt_to_phys(m, q, p)]
        /\ view(m, q, p)[2] = leaf(m, q, p).fl
    BY <2>1
  <2>3. space(m, q)[p] = [val |-> m.data[virt_to_phys(m, q, p)], fl |-> leaf(m, q, p).fl]
    BY DEF space
  <2> QED
    BY <2>2, <2>3
<1> QED
  BY <1>1, <1>2, <1>3

LEMMA SpaceAt ==
    ASSUME NEW m, NEW q, NEW p \in PrivatePage, view(m, q, p) # << >>
    PROVE  space(m, q)[p] = [val |-> view(m, q, p)[1], fl |-> view(m, q, p)[2]]
<1>1. p \in DOMAIN space(m, q)
  BY SpaceIs
<1> QED
  BY <1>1, SpaceIs

LEMMA SpaceSame ==
    ASSUME NEW m, NEW n, NEW q, NEW u, \A x \in PrivatePage : view(n, u, x) = view(m, q, x)
    PROVE  space(n, u) = space(m, q)
<1>0. /\ DOMAIN space(n, u) = {p \in PrivatePage : view(n, u, p) # << >>}
      /\ DOMAIN space(m, q) = {p \in PrivatePage : view(m, q, p) # << >>}
  BY SpaceIs
<1>1. DOMAIN space(n, u) = DOMAIN space(m, q)
  BY <1>0
<1>2. ASSUME NEW p \in DOMAIN space(m, q) PROVE space(n, u)[p] = space(m, q)[p]
  <2>1. p \in PrivatePage /\ p \in DOMAIN space(n, u)
    BY <1>0, <1>1
  <2>2. /\ space(n, u)[p] = [val |-> view(n, u, p)[1], fl |-> view(n, u, p)[2]]
        /\ space(m, q)[p] = [val |-> view(m, q, p)[1], fl |-> view(m, q, p)[2]]
    BY <2>1, SpaceIs
  <2> QED
    BY <2>1, <2>2
<1>3. /\ space(n, u) = [p \in DOMAIN space(n, u) |-> space(n, u)[p]]
      /\ space(m, q) = [p \in DOMAIN space(m, q) |-> space(m, q)[p]]
  BY DEF space
<1> QED
  BY <1>1, <1>2, <1>3

LEMMA InRoots ==
    ASSUME NEW pr, NEW a
    PROVE  a \in Roots(pr) <=> \E u \in Task : pr[u].cr3 # NULL /\ a = pr[u].cr3
  BY DEF Roots

LEMMA RootsIs ==
    ASSUME NEW pr, ProcOK(pr), NEW t \in Task, NEW x
    PROVE  \A f : f \in Roots([pr EXCEPT ![t] = x]) <=>
             \/ f \in Roots(pr) /\ f # pr[t].cr3
             \/ f = x.cr3 /\ f # NULL
<1> DEFINE z == [pr EXCEPT ![t] = x]
<1>1. z[t] = x /\ \A u \in Task \ {t} : z[u] = pr[u]
  BY DEF ProcOK
<1> HIDE DEF z
<1>3. ASSUME NEW f, f \in Roots(z)
      PROVE  \/ f \in Roots(pr) /\ f # pr[t].cr3
             \/ f = x.cr3 /\ f # NULL
  <2>1. PICK u \in Task : z[u].cr3 # NULL /\ f = z[u].cr3
    BY InRoots, <1>3
  <2> QED
    BY <1>1, InRoots, <2>1 DEF ProcOK
<1>4. ASSUME NEW f, f \in Roots(pr), f # pr[t].cr3 PROVE f \in Roots(z)
  <2>1. PICK u \in Task : pr[u].cr3 # NULL /\ f = pr[u].cr3
    BY InRoots, <1>4
  <2>2. z[u] = pr[u]
    BY <1>1, <1>4, <2>1
  <2> QED
    BY <2>1, <2>2, InRoots
<1>5. ASSUME x.cr3 # NULL PROVE x.cr3 \in Roots(z)
  BY <1>1, <1>5, InRoots
<1> QED
  BY <1>3, <1>4, <1>5 DEF z

\* A step of t that leaves the pages of the others alone.
LEMMA OneTask ==
    ASSUME NEW m, NEW pr, NEW h, StateOK(m, pr, h), NEW t \in Task,
           NEW x \in ProcRecord, x.cr3 = NULL <=> x.pc = "none",
           x.cr3 = pr[t].cr3 \/ x.cr3 \notin Roots(pr),
           NEW n, NEW g, Good(n, Roots([pr EXCEPT ![t] = x]), {}, g), TaskOK(n, x),
           \A u \in Roots(pr) \ {pr[t].cr3}, y \in PrivatePage : view(n, u, y) = view(m, u, y)
    PROVE  LET z == [pr EXCEPT ![t] = x]
           IN  /\ StateOK(n, z, g) /\ z[t] = x
               /\ \A u \in Task \ {t} : mem(n, z[u]) = mem(m, pr[u])
<1> DEFINE z == [pr EXCEPT ![t] = x]
<1>0. ProcOK(pr) /\ \A u \in Task : TaskOK(m, pr[u])
  BY DEF StateOK
<1>1. z[t] = x /\ z \in [Task -> ProcRecord] /\ \A u \in Task \ {t} : z[u] = pr[u]
  BY <1>0 DEF ProcOK
<1> HIDE DEF z
<1>2. \A a : a \in Roots(pr) <=> \E u \in Task : pr[u].cr3 # NULL /\ a = pr[u].cr3
  BY InRoots
<1>3. ProcOK(z)
  <2>1. \A u \in Task : z[u].cr3 = NULL <=> z[u].pc = "none"
    BY <1>0, <1>1 DEF ProcOK
  <2>2. ASSUME NEW u \in Task \ {t}, pr[u].cr3 = x.cr3, x.cr3 # NULL PROVE FALSE
    BY <1>0, <1>2, <2>2 DEF ProcOK
  <2>3. \A v, u \in Task : z[v].cr3 = z[u].cr3 /\ z[v].cr3 # NULL => v = u
    BY <1>0, <1>1, <2>2 DEF ProcOK
  <2> QED
    BY <1>1, <2>1, <2>3 DEF ProcOK
<1>4. ASSUME NEW u \in Task \ {t}
      PROVE  TaskOK(n, z[u]) /\ mem(n, z[u]) = mem(m, pr[u])
  <2>1. z[u] = pr[u]
    BY <1>1
  <2>2. CASE pr[u].cr3 = NULL
    <3>1. pr[u].pc = "none"
      BY <1>0, <2>2 DEF ProcOK
    <3> QED
      BY <2>1, <2>2, <3>1 DEF TaskOK, mem
  <2>3. CASE pr[u].cr3 # NULL
    <3>1. pr[u].cr3 \in Roots(pr) \ {pr[t].cr3}
      BY <1>0, <1>2, <2>3 DEF ProcOK
    <3>2. \A y \in PrivatePage : view(n, pr[u].cr3, y) = view(m, pr[u].cr3, y)
      BY <3>1
    <3>3. space(n, pr[u].cr3) = space(m, pr[u].cr3)
      BY <3>2, SpaceSame
    <3>4. TaskOK(m, pr[u])
      BY <1>0
    <3>5. TaskOK(n, pr[u])
      BY <3>2, <3>4, PrivateIs DEF TaskOK, PagesOK
    <3> QED
      BY <2>1, <3>3, <3>5 DEF mem
  <2> QED
    BY <2>2, <2>3
<1>5. \A u \in Task : TaskOK(n, z[u])
  BY <1>1, <1>4
<1> QED
  BY <1>1, <1>3, <1>4, <1>5 DEF StateOK, z

\* The same with a root that stays.
LEMMA OwnPages ==
    ASSUME NEW m, NEW pr, NEW h, StateOK(m, pr, h), NEW t \in Task, pr[t].cr3 # NULL,
           NEW x \in ProcRecord, x.cr3 = pr[t].cr3, x.pc # "none",
           NEW n, NEW g, Good(n, Roots(pr), {}, g), TaskOK(n, x),
           \A u \in Roots(pr) \ {pr[t].cr3}, y \in PrivatePage : view(n, u, y) = view(m, u, y)
    PROVE  LET z == [pr EXCEPT ![t] = x]
           IN  /\ StateOK(n, z, g) /\ z[t] = x
               /\ \A u \in Task \ {t} : mem(n, z[u]) = mem(m, pr[u])
<1>1. pr[t].cr3 \in Roots(pr)
  BY DEF Roots
<1>2. ProcOK(pr)
  BY DEF StateOK
<1>3. Roots([pr EXCEPT ![t] = x]) = Roots(pr)
  BY <1>1, <1>2, RootsIs
<1>4. x.cr3 = NULL <=> x.pc = "none"
  OBVIOUS
<1>5. Good(n, Roots([pr EXCEPT ![t] = x]), {}, g)
  BY <1>3
<1> QED
  BY <1>4, <1>5, OneTask

----------------------------------------------------------------------------
(* What a program sees of an operation *)

Grows(a, b) ==
    /\ DOMAIN a \subseteq DOMAIN b /\ [x \in DOMAIN a |-> b[x]] = a
    /\ \E fl \in {"RW", "RO"} : \A p \in DOMAIN b \ DOMAIN a : b[p] = [val |-> Zero, fl |-> fl]

Shrinks(a, b) == DOMAIN b \subseteq DOMAIN a /\ [x \in DOMAIN b |-> a[x]] = b

Protects(a, b) == DOMAIN b = DOMAIN a /\ \A p \in DOMAIN a : b[p].val = a[p].val

Stores(a, b) ==
    /\ DOMAIN b = DOMAIN a
    /\ \E p \in DOMAIN a : /\ a[p].fl = "RW" /\ b[p].fl = "RW"
                           /\ \A x \in DOMAIN a \ {p} : b[x] = a[x]

\* A page that looks the same, in a smaller domain.
LEMMA SpaceKept ==
    ASSUME NEW m, NEW n, NEW q, NEW u, DOMAIN space(m, q) \subseteq DOMAIN space(n, u),
           \A x \in DOMAIN space(m, q) : view(n, u, x) = view(m, q, x)
    PROVE  [x \in DOMAIN space(m, q) |-> space(n, u)[x]] = space(m, q)
<1>1. ASSUME NEW x \in DOMAIN space(m, q) PROVE space(n, u)[x] = space(m, q)[x]
  <2>1. /\ space(n, u)[x] = [val |-> view(n, u, x)[1], fl |-> view(n, u, x)[2]]
        /\ space(m, q)[x] = [val |-> view(m, q, x)[1], fl |-> view(m, q, x)[2]]
    BY SpaceIs
  <2> QED
    BY <2>1
<1>2. space(m, q) = [x \in DOMAIN space(m, q) |-> space(m, q)[x]]
  BY DEF space
<1> QED
  BY <1>1, <1>2

LEMMA SpaceGrown ==
    ASSUME NEW m, NEW n, NEW q, NEW S \in SUBSET PrivatePage, NEW fl \in {"RW", "RO"},
           \A p \in S : view(m, q, p) = << >> /\ view(n, q, p) = <<Zero, fl>>,
           \A x \in PrivatePage : x \notin S => view(n, q, x) = view(m, q, x)
    PROVE  Grows(space(m, q), space(n, q))
<1>0. /\ DOMAIN space(n, q) = {p \in PrivatePage : view(n, q, p) # << >>}
      /\ DOMAIN space(m, q) = {p \in PrivatePage : view(m, q, p) # << >>}
  BY SpaceIs
<1>1. DOMAIN space(m, q) \subseteq DOMAIN space(n, q)
  BY <1>0
<1>2. \A x \in DOMAIN space(m, q) : view(n, q, x) = view(m, q, x)
  BY <1>0
<1>3. [x \in DOMAIN space(m, q) |-> space(n, q)[x]] = space(m, q)
  BY <1>1, <1>2, SpaceKept
<1>4. ASSUME NEW p \in DOMAIN space(n, q) \ DOMAIN space(m, q)
      PROVE  space(n, q)[p] = [val |-> Zero, fl |-> fl]
  <2>1. p \in S
    BY <1>0
  <2>2. view(n, q, p)[1] = Zero /\ view(n, q, p)[2] = fl
    BY <2>1
  <2>3. space(n, q)[p] = [val |-> view(n, q, p)[1], fl |-> view(n, q, p)[2]]
    BY SpaceIs
  <2> QED
    BY <2>2, <2>3
<1> QED
  BY <1>1, <1>3, <1>4 DEF Grows

LEMMA SpaceShrunk ==
    ASSUME NEW m, NEW n, NEW q, NEW S,
           \A x \in PrivatePage \cap S : view(n, q, x) = << >>,
           \A x \in PrivatePage : x \notin S => view(n, q, x) = view(m, q, x)
    PROVE  Shrinks(space(m, q), space(n, q))
<1>0. /\ DOMAIN space(n, q) = {p \in PrivatePage : view(n, q, p) # << >>}
      /\ DOMAIN space(m, q) = {p \in PrivatePage : view(m, q, p) # << >>}
  BY SpaceIs
<1>1. DOMAIN space(n, q) \subseteq DOMAIN space(m, q)
  BY <1>0
<1>2. \A x \in DOMAIN space(n, q) : view(m, q, x) = view(n, q, x)
  BY <1>0
<1> QED
  BY <1>1, <1>2, SpaceKept DEF Shrinks

LEMMA SpaceProtected ==
    ASSUME NEW m, NEW n, NEW q, NEW S, NEW fl,
           \A x \in PrivatePage \cap S : view(n, q, x) =
              IF view(m, q, x) = << >> THEN << >> ELSE <<view(m, q, x)[1], fl>>,
           \A x \in PrivatePage : x \notin S => view(n, q, x) = view(m, q, x)
    PROVE  Protects(space(m, q), space(n, q))
<1>0. /\ DOMAIN space(n, q) = {p \in PrivatePage : view(n, q, p) # << >>}
      /\ DOMAIN space(m, q) = {p \in PrivatePage : view(m, q, p) # << >>}
  BY SpaceIs
<1>a. \A a, b : <<a, b>> # << >> /\ <<a, b>>[1] = a
  OBVIOUS
<1>1. \A x \in PrivatePage : /\ view(n, q, x) = << >> <=> view(m, q, x) = << >>
                             /\ view(m, q, x) # << >> => view(n, q, x)[1] = view(m, q, x)[1]
  BY <1>a
<1>2. DOMAIN space(n, q) = DOMAIN space(m, q)
  BY <1>0, <1>1
<1>3. ASSUME NEW p \in DOMAIN space(m, q) PROVE space(n, q)[p].val = space(m, q)[p].val
  <2>1. /\ space(n, q)[p] = [val |-> view(n, q, p)[1], fl |-> view(n, q, p)[2]]
        /\ space(m, q)[p] = [val |-> view(m, q, p)[1], fl |-> view(m, q, p)[2]]
    BY <1>0, <1>1, SpaceAt
  <2>2. view(n, q, p)[1] = view(m, q, p)[1]
    BY <1>0, <1>1
  <2> QED
    BY <2>1, <2>2
<1> QED
  BY <1>2, <1>3 DEF Protects

LEMMA SpaceStored ==
    ASSUME NEW m, NEW n, NEW q, NEW p \in PrivatePage, virt_to_phys(m, q, p) # NULL,
           leaf(m, q, p).fl = "RW", NEW v, view(n, q, p) = <<v, leaf(m, q, p).fl>>,
           \A x \in PrivatePage : x # p => view(n, q, x) = view(m, q, x)
    PROVE  Stores(space(m, q), space(n, q))
<1>0. /\ DOMAIN space(n, q) = {x \in PrivatePage : view(n, q, x) # << >>}
      /\ DOMAIN space(m, q) = {x \in PrivatePage : view(m, q, x) # << >>}
  BY SpaceIs
<1>a. \A a, b : <<a, b>> # << >> /\ <<a, b>>[2] = b
  OBVIOUS
<1>1. /\ view(m, q, p) # << >> /\ view(n, q, p) # << >>
      /\ view(m, q, p)[2] = leaf(m, q, p).fl /\ view(n, q, p)[2] = leaf(m, q, p).fl
  BY <1>a, ViewIs
<1>2. DOMAIN space(n, q) = DOMAIN space(m, q) /\ p \in DOMAIN space(m, q)
  BY <1>0, <1>1
<1>3. ASSUME NEW x \in DOMAIN space(m, q)
      PROVE  /\ space(n, q)[x] = [val |-> view(n, q, x)[1], fl |-> view(n, q, x)[2]]
             /\ space(m, q)[x] = [val |-> view(m, q, x)[1], fl |-> view(m, q, x)[2]]
  <2>1. x \in PrivatePage /\ view(m, q, x) # << >> /\ view(n, q, x) # << >>
    BY <1>0, <1>2
  <2> QED
    BY <2>1, SpaceAt
<1>4. \A x \in DOMAIN space(m, q) \ {p} : space(n, q)[x] = space(m, q)[x]
  BY <1>0, <1>3
<1>5. space(m, q)[p].fl = leaf(m, q, p).fl /\ space(n, q)[p].fl = leaf(m, q, p).fl
  BY <1>1, <1>2, <1>3
<1> QED
  BY <1>2, <1>4, <1>5 DEF Stores

LEMMA SpaceFresh ==
    ASSUME NEW n, NEW q, NEW img \in Image, img.ok, HasProgram(n, q, img)
    PROVE  FreshImage(space(n, q))
<1> DEFINE s == img.pages
<1>1. /\ Len(s) \in Nat /\ DOMAIN s = 1..Len(s)
      /\ \A i \in 1..Len(s) : s[i].page \in PagesOf(WINDOW)
  BY AddressSpaceAssumption DEF ImageOK
<1>2. STACK_PAGE \in PrivatePage /\ \A i \in 1..Len(s) : s[i].page \in PrivatePage
  BY <1>1, Bounds, PrivateIs
<1>3. DOMAIN space(n, q) = {x \in PrivatePage : view(n, q, x) # << >>}
  BY SpaceIs
<1>a. \A a, b : <<a, b>> # << >> /\ <<a, b>>[1] = a /\ <<a, b>>[2] = b
  OBVIOUS
<1>4. DOMAIN space(n, q) = {STACK_PAGE} \cup {s[i].page : i \in DOMAIN s}
  <2>1. ASSUME NEW x \in PrivatePage
        PROVE  view(n, q, x) # << >> <=> (x = STACK_PAGE \/ \E i \in 1..Len(s) : s[i].page = x)
    <3>1. CASE x = STACK_PAGE
      BY <3>1 DEF HasProgram
    <3>2. CASE \E i \in 1..Len(s) : s[i].page = x
      <4>1. PICK i \in 1..Len(s) : s[i].page = x
        BY <3>2
      <4>2. view(n, q, x) = <<s[i].val, s[i].fl>>
        BY <4>1 DEF HasProgram
      <4> QED
        BY <4>2, <1>a, <3>2
    <3>3. CASE x # STACK_PAGE /\ \A i \in 1..Len(s) : s[i].page # x
      BY <3>3 DEF HasProgram
    <3> QED
      BY <3>1, <3>2, <3>3
  <2>2. ASSUME NEW x
        PROVE  x \in DOMAIN space(n, q) <=> x \in {STACK_PAGE} \cup {s[i].page : i \in DOMAIN s}
    BY <1>1, <1>2, <1>3, <2>1
  <2> QED
    BY <2>2
<1>5. ASSUME NEW i \in DOMAIN s
      PROVE  space(n, q)[s[i].page] = [val |-> s[i].val, fl |-> s[i].fl]
  <2>1. view(n, q, s[i].page) = <<s[i].val, s[i].fl>> /\ s[i].page \in PrivatePage
    BY <1>1, <1>2 DEF HasProgram
  <2>2. view(n, q, s[i].page)[1] = s[i].val /\ view(n, q, s[i].page)[2] = s[i].fl
    BY <2>1
  <2>3. space(n, q)[s[i].page] =
          [val |-> view(n, q, s[i].page)[1], fl |-> view(n, q, s[i].page)[2]]
    BY <2>1, <1>a, SpaceAt
  <2> QED
    BY <2>2, <2>3
<1> QED
  BY <1>4, <1>5 DEF FreshImage

\* A space is memory, not the mark of a task that has none.
LEMMA SpaceIsNotNull ==
    ASSUME NEW m, NEW P, NEW h, Good(m, P, {}, h), NEW q \in P
    PROVE  space(m, q) # NULL
<1> DEFINE S == Mapped(m, q)
<1>0. /\ m.used \subseteq Frame /\ m.data \in [Frame -> Value]
      /\ m.table \in [Frame -> [Slots -> Entry]]
  BY GoodFacts
<1>a. /\ \A u \in P, r \in Private : tab(m, u, r) \in (m.used \ (P \cup {} \cup KF(m))) \cup {NULL}
      /\ \A u \in P, r \in Private : ~huge(m.table[u][r])
  BY ONLY Good(m, P, {}, h), GoodFacts
<1>b. Owned(m, P, {}, KF(m))
  BY DEF Good
<1>1. ASSUME NEW p \in S
      PROVE  /\ m.data[virt_to_phys(m, q, p)] \in Value /\ leaf(m, q, p).fl \in Flag
  <2> DEFINE y == tab(m, q, region(p))
             f == virt_to_phys(m, q, p)
  <2>1. p \in PrivatePage /\ f # NULL
    BY DEF Mapped
  <2>2. f \in Frame
    BY <1>b, <2>1 DEF Owned
  <2>3. region(p) \in Private /\ index(p) \in Slots
    BY <2>1, PrivateIs, Constants
  <2>4. ~huge(m.table[q][region(p)]) /\ y \in Frame \cup {NULL}
    BY <1>0, <1>a, <2>3
  <2>5. y # NULL
    BY <2>1, <2>4, LeafIs
  <2>6. leaf(m, q, p) = m.table[y][index(p)] /\ m.table[y][index(p)] \in Entry
    BY <1>0, <2>3, <2>4, <2>5 DEF leaf, tab
  <2> QED
    BY <1>0, <2>2, <2>6 DEF Entry
<1>2. S \in SUBSET PrivatePage
  BY DEF Mapped
<1>3. space(m, q) \in [S -> [val : Value, fl : Flag]]
  BY <1>1 DEF space
<1> HIDE DEF S
<1> QED
  BY <1>2, <1>3, AddressSpaceAssumption

----------------------------------------------------------------------------
(* What an operation does to the state, and to the memory of a task *)

\* What may become of the memory of a task.
Becomes(a, b) ==
    \/ b = a
    \/ a = NULL /\ b = << >>
    \/ a # NULL /\ b = NULL
    \/ /\ a # NULL /\ b # NULL
       /\ FreshImage(b) \/ Grows(a, b) \/ Shrinks(a, b) \/ Protects(a, b) \/ Stores(a, b)

\* One task's memory changes, or one task is a copy of another.
Moves(m, pr, n, z) ==
    \E t \in Task :
       /\ \A u \in Task \ {t} : mem(n, z[u]) = mem(m, pr[u])
       /\ \/ Becomes(mem(m, pr[t]), mem(n, z[t]))
          \/ \E s \in Task : /\ mem(m, pr[t]) = NULL /\ mem(m, pr[s]) # NULL
                             /\ mem(n, z[t]) = mem(m, pr[s])

\* An operation that finds its frames keeps the invariant.
Does(m, pr, n, z, g) ==
    HasFields(n) /\ (~n.oom => StateOK(n, z, g) /\ Moves(m, pr, n, z))

LEMMA TaskIs ==
    ASSUME NEW m, NEW pr, NEW h, StateOK(m, pr, h), NEW t \in Task
    PROVE  /\ ProcOK(pr) /\ Good(m, Roots(pr), {}, h) /\ TaskOK(m, pr[t])
           /\ pr[t] \in ProcRecord /\ (pr[t].cr3 = NULL <=> pr[t].pc = "none")
           /\ pr[t].cr3 # NULL => pr[t].cr3 \in Roots(pr)
           /\ pr[t].pc = "user" => /\ FieldsOK(pr[t]) /\ PagesOK(m, pr[t])
                                   /\ mem(m, pr[t]) = space(m, pr[t].cr3)
           /\ pr[t].cr3 = NULL <=> mem(m, pr[t]) = NULL
<1>1. ProcOK(pr) /\ Good(m, Roots(pr), {}, h) /\ TaskOK(m, pr[t])
  BY DEF StateOK
<1>2. pr[t] \in ProcRecord /\ (pr[t].cr3 = NULL <=> pr[t].pc = "none")
  BY <1>1 DEF ProcOK
<1>3. pr[t].cr3 # NULL => pr[t].cr3 \in Roots(pr)
  BY DEF Roots
<1>4. pr[t].pc = "user" => /\ FieldsOK(pr[t]) /\ PagesOK(m, pr[t])
                           /\ mem(m, pr[t]) = space(m, pr[t].cr3)
  BY <1>1, <1>2 DEF TaskOK, mem
<1>5. pr[t].cr3 = NULL <=> mem(m, pr[t]) = NULL
  <2>1. pr[t].cr3 # NULL => space(m, pr[t].cr3) # NULL
    BY <1>1, <1>3, SpaceIsNotNull
  <2>2. NULL # << >>
    BY AddressSpaceAssumption
  <2> QED
    BY <2>1, <2>2 DEF mem
<1> QED
  BY <1>1, <1>2, <1>3, <1>4, <1>5

LEMMA NoTaskIs ==
    /\ NoTask \in ProcRecord /\ NoTask.cr3 = NULL /\ NoTask.pc = "none"
    /\ \A m : TaskOK(m, NoTask)
  BY Constants DEF NoTask, ProcRecord, TaskOK

LEMMA SpawnDoes ==
    ASSUME NEW m, NEW pr, NEW h, StateOK(m, pr, h), NEW t \in Task, pr[t] = NoTask
    PROVE  Does(m, pr, create_address_space(m),
                [pr EXCEPT ![t].cr3 = alloc_frame(m), ![t].pc = "new"], h)
<1> DEFINE n == create_address_space(m)
           f == alloc_frame(m)
           x == [NoTask EXCEPT !.cr3 = f, !.pc = "new"]
           z == [pr EXCEPT ![t] = x]
<1>0. ProcOK(pr) /\ Good(m, Roots(pr), {}, h) /\ mem(m, pr[t]) = NULL
  BY TaskIs, NoTaskIs
<1>1. [pr EXCEPT ![t].cr3 = f, ![t].pc = "new"] = z
  BY <1>0 DEF ProcOK
<1>2. HasFields(n)
  BY <1>0, CreateKeeps
<1>3. ASSUME ~n.oom PROVE StateOK(n, z, h) /\ Moves(m, pr, n, z)
  <2>1. /\ f \in Frame \ Roots(pr) /\ Good(n, Roots(pr) \cup {f}, {}, h)
        /\ \A p \in PrivatePage : view(n, f, p) = << >>
        /\ \A u \in Roots(pr), p \in PrivatePage : view(n, u, p) = view(m, u, p)
    BY <1>0, <1>3, CreateKeeps
  <2>2. f # NULL /\ x \in ProcRecord /\ x.cr3 = f /\ x.pc = "new"
    BY <2>1, Constants DEF ProcRecord, NoTask
  <2>3. TaskOK(n, x) /\ mem(n, x) = << >>
    BY <2>1, <2>2 DEF TaskOK, mem
  <2> HIDE DEF n, f, x
  <2>4. pr[t].cr3 = NULL /\ NULL \notin Roots(pr)
    BY NoTaskIs DEF Roots
  <2>5. Roots([pr EXCEPT ![t] = x]) = Roots(pr) \cup {f}
    BY <1>0, <2>2, <2>4, RootsIs
  <2>6. Good(n, Roots([pr EXCEPT ![t] = x]), {}, h)
    BY <2>1, <2>5
  <2>7. x.cr3 = NULL <=> x.pc = "none"
    BY <2>2
  <2>8. x.cr3 \notin Roots(pr)
    BY <2>1, <2>2
  <2>9. \A u \in Roots(pr) \ {pr[t].cr3}, p \in PrivatePage : view(n, u, p) = view(m, u, p)
    BY <2>1
  <2>10. /\ StateOK(n, z, h) /\ z[t] = x
         /\ \A u \in Task \ {t} : mem(n, z[u]) = mem(m, pr[u])
    BY <2>2, <2>3, <2>6, <2>7, <2>8, <2>9, OneTask
  <2> HIDE DEF z
  <2> QED
    BY <1>0, <2>3, <2>10 DEF Moves, Becomes
<1> QED
  BY <1>1, <1>2, <1>3 DEF Does

\* A running program's call that changes its own pages and fields only.
LEMMA OwnDoes ==
    ASSUME NEW m, NEW pr, NEW h, StateOK(m, pr, h), NEW t \in Task, pr[t].pc = "user",
           NEW x \in ProcRecord, x.cr3 = pr[t].cr3, x.pc = "user",
           NEW n, NEW g, HasFields(n),
           ~n.oom =>
              /\ Good(n, Roots(pr), {}, g) /\ FieldsOK(x) /\ PagesOK(n, x)
              /\ \A u \in Roots(pr) \ {pr[t].cr3}, y \in PrivatePage :
                    view(n, u, y) = view(m, u, y)
              /\ \/ Grows(space(m, x.cr3), space(n, x.cr3))
                 \/ Shrinks(space(m, x.cr3), space(n, x.cr3))
                 \/ Protects(space(m, x.cr3), space(n, x.cr3))
                 \/ Stores(space(m, x.cr3), space(n, x.cr3))
    PROVE  Does(m, pr, n, [pr EXCEPT ![t] = x], g)
<1> DEFINE z == [pr EXCEPT ![t] = x]
<1>1. SUFFICES ASSUME ~n.oom PROVE StateOK(n, z, g) /\ Moves(m, pr, n, z)
  BY DEF Does
<1>2. /\ pr[t].cr3 # NULL /\ pr[t].cr3 \in Roots(pr)
      /\ mem(m, pr[t]) = space(m, x.cr3) /\ mem(m, pr[t]) # NULL
  BY TaskIs
<1>3. TaskOK(n, x)
  BY <1>1 DEF TaskOK
<1>4. x.pc # "none"
  OBVIOUS
<1>5. Good(n, Roots(pr), {}, g)
  BY <1>1
<1>6. \A u \in Roots(pr) \ {pr[t].cr3}, y \in PrivatePage : view(n, u, y) = view(m, u, y)
  BY <1>1
<1>7. /\ StateOK(n, z, g) /\ z[t] = x
      /\ \A u \in Task \ {t} : mem(n, z[u]) = mem(m, pr[u])
  BY <1>2, <1>3, <1>4, <1>5, <1>6, OwnPages
<1> HIDE DEF z
<1>8. mem(n, z[t]) = space(n, x.cr3) /\ mem(n, z[t]) # NULL
  BY <1>2, <1>7, TaskIs
<1>9. Becomes(mem(m, pr[t]), mem(n, z[t]))
  BY <1>1, <1>2, <1>8 DEF Becomes
<1> QED
  BY <1>7, <1>9 DEF Moves

\* The fields of a task whose image has been loaded.
LEMMA LoadedIs ==
    ASSUME NEW x \in ProcRecord, NEW img \in Image, img.ok
    PROVE  LET y == loaded_fields(x, img)
           IN  /\ y \in ProcRecord /\ y.cr3 = x.cr3 /\ y.pc = "user" /\ FieldsOK(y)
               /\ \A m : HasProgram(m, x.cr3, img) => PagesOK(m, y)
               /\ \A f \in Frame : /\ [y EXCEPT !.cr3 = f] \in ProcRecord
                                   /\ [y EXCEPT !.cr3 = f].cr3 = f
                                   /\ [y EXCEPT !.cr3 = f].pc = "user"
                                   /\ FieldsOK([y EXCEPT !.cr3 = f])
                                   /\ \A m : HasProgram(m, f, img) =>
                                        PagesOK(m, [y EXCEPT !.cr3 = f])
<1> DEFINE y == loaded_fields(x, img)
           s == img.pages
           k == s[Len(s)].page + 1
<1>1. /\ Len(s) \in Nat /\ Len(s) > 0
      /\ \A i \in 1..Len(s) : s[i].page \in PagesOf(WINDOW)
      /\ \A i, j \in 1..Len(s) : i < j => s[i].page < s[j].page
  BY AddressSpaceAssumption DEF ImageOK
<1>2. /\ \A i \in 1..Len(s) : s[i].page \in PagesPerTable..(2 * PagesPerTable - 1)
      /\ PagesPerTable \in Nat \ {0} /\ PAGE_SIZE \in Nat \ {0}
  BY <1>1, Bounds, AddressSpaceAssumption
<1>3. k \in Nat /\ k > PagesPerTable /\ k <= 2 * PagesPerTable
  BY <1>1, <1>2
<1>4. ASSUME NEW i \in 1..Len(s) PROVE s[i].page < k
  <2>1. s[i].page \in Nat /\ s[Len(s)].page \in Nat
    BY <1>1, <1>2
  <2>2. i = Len(s) \/ s[i].page < s[Len(s)].page
    BY <1>1
  <2> QED
    BY <2>1, <2>2
<1>5. highest_addr(img) = PAGE_SIZE * k /\ PAGE_SIZE * k \in Nat
  BY <1>1, <1>2, <1>3 DEF highest_addr
<1> DEFINE b == highest_addr(img)
<1>6. page_up(b) = k
  BY <1>3, <1>5, WholePage
<1>7. RESERVED_LOW <= b /\ b <= BRK_CEILING
  <2> HIDE DEF k
  <2>0. k \in Int /\ PagesPerTable \in Int /\ 2 * PagesPerTable \in Int /\ PagesPerTable <= k
    BY <1>2, <1>3
  <2>1. PAGE_SIZE * PagesPerTable <= PAGE_SIZE * k
    BY <1>2, <2>0, MultOrder
  <2>2. PAGE_SIZE * k <= PAGE_SIZE * (2 * PagesPerTable)
    BY <1>2, <1>3, <2>0, MultOrder
  <2> QED
    BY <1>5, <2>1, <2>2, Bounds
<1>8. LINUX_MMAP_BASE \in Nat /\ page_down(LINUX_MMAP_BASE) = 3 * PagesPerTable
  BY <1>2, WholePage, Bounds
<1>9. b \in Nat
  BY <1>5
<1> HIDE DEF b, k
<1>10. /\ y \in ProcRecord /\ y.cr3 = x.cr3 /\ y.pc = "user"
       /\ y.brk_start = b /\ y.brk_cur = b /\ y.mmap_next = LINUX_MMAP_BASE
  BY <1>8, <1>9 DEF loaded_fields, ProcRecord, b
<1>11. \A e : e.brk_start = b /\ e.brk_cur = b /\ e.mmap_next = LINUX_MMAP_BASE => FieldsOK(e)
  <2>1. 3 * PagesPerTable \in (3 * PagesPerTable)..(4 * PagesPerTable - 1)
    BY <1>2
  <2>2. LINUX_MMAP_BASE = PAGE_SIZE * (3 * PagesPerTable)
    BY Bounds
  <2> QED
    BY <1>7, <1>9, <2>1, <2>2 DEF FieldsOK
<1>12. ASSUME NEW m, NEW e, e.brk_cur = b, e.mmap_next = LINUX_MMAP_BASE,
              HasProgram(m, e.cr3, img)
       PROVE  PagesOK(m, e)
  <2>1. ASSUME NEW p \in PagesOf(WINDOW), view(m, e.cr3, p) # << >> PROVE p < k
    <3>1. p \in PrivatePage /\ p # STACK_PAGE
      BY PrivateIs, Bounds, <1>2
    <3>2. \E i \in 1..Len(s) : s[i].page = p
      BY <1>12, <2>1, <3>1 DEF HasProgram
    <3> QED
      BY <1>4, <3>2
  <2>2. ASSUME NEW p \in PagesOf(HIGH), view(m, e.cr3, p) # << >> PROVE p = STACK_PAGE
    <3>1. p \in PrivatePage
      BY PrivateIs
    <3>2. \A i \in 1..Len(s) : s[i].page # p
      BY <1>2, Bounds
    <3> QED
      BY <1>12, <2>2, <3>1, <3>2 DEF HasProgram
  <2> QED
    BY <1>6, <1>12, <2>1, <2>2 DEF PagesOK, Inside
<1>13. ASSUME NEW f \in Frame
       PROVE  LET e == [y EXCEPT !.cr3 = f]
              IN  /\ e \in ProcRecord /\ e.cr3 = f /\ e.pc = "user"
                  /\ e.brk_start = b /\ e.brk_cur = b /\ e.mmap_next = LINUX_MMAP_BASE
  <2> HIDE DEF y
  <2> QED
    BY <1>10 DEF ProcRecord
<1> HIDE DEF y
<1>14. FieldsOK(y) /\ \A m : HasProgram(m, x.cr3, img) => PagesOK(m, y)
  BY <1>10, <1>11, <1>12
<1>15. ASSUME NEW f \in Frame
       PROVE  /\ FieldsOK([y EXCEPT !.cr3 = f])
              /\ \A m : HasProgram(m, f, img) => PagesOK(m, [y EXCEPT !.cr3 = f])
  BY <1>11, <1>12, <1>13
<1> QED
  BY <1>10, <1>13, <1>14, <1>15 DEF y

\* The segments of an image and the stack above them, in a space that was empty.
LEMMA ProgramIs ==
    ASSUME NEW m, NEW P, NEW h, Good(m, P, {}, h), NEW q \in P, NEW img \in Image,
           \A p \in PrivatePage : view(m, q, p) = << >>, NEW v \in Value
    PROVE  LET n == map_stack(load_segments(m, q, img), q, v)
           IN  /\ HasFields(n)
               /\ ~n.oom => /\ Good(n, P, {}, h) /\ HasProgram(n, q, img)
                            /\ \A u \in P \ {q}, x \in PrivatePage : view(n, u, x) = view(m, u, x)
<1> DEFINE i == load_segments(m, q, img)
           n == map_stack(i, q, v)
<1>1. HasFields(i)
  BY LoadKeeps
<1>2. ~i.oom => /\ Good(i, P, {}, h) /\ HasImage(i, q, img)
                /\ \A u \in P \ {q}, x \in PrivatePage : view(i, u, x) = view(m, u, x)
  BY LoadKeeps
<1> HIDE DEF i
<1>3. HasFields(n) /\ (i.oom => n.oom)
  BY <1>1, MapNewPageMono DEF map_stack
<1>4. ASSUME ~n.oom
      PROVE  /\ Good(n, P, {}, h) /\ HasProgram(n, q, img)
             /\ \A u \in P \ {q}, x \in PrivatePage : view(n, u, x) = view(m, u, x)
  <2>1. Good(i, P, {}, h) /\ HasImage(i, q, img)
    BY <1>2, <1>3, <1>4
  <2>2. /\ Good(n, P, {}, h) /\ HasProgram(n, q, img)
        /\ \A u \in P \ {q}, x \in PrivatePage : view(n, u, x) = view(i, u, x)
    BY <1>4, <2>1, StackKeeps
  <2> QED
    BY <1>2, <1>3, <1>4, <2>2
<1> QED
  BY <1>3, <1>4 DEF i

LEMMA EntryDoes ==
    ASSUME NEW m, NEW pr, NEW h, StateOK(m, pr, h), NEW t \in Task, pr[t].pc = "new",
           NEW img \in Image, NEW v \in Value
    PROVE  LET i == load_segments(m, pr[t].cr3, img)
           IN  IF img.ok
               THEN Does(m, pr, map_stack(i, pr[t].cr3, v),
                         [pr EXCEPT ![t] = loaded_fields(@, img)], h)
               ELSE Does(m, pr, i, [pr EXCEPT ![t].pc = "failed"], h)
<1> DEFINE q == pr[t].cr3
           i == load_segments(m, q, img)
           n == map_stack(i, q, v)
           x == loaded_fields(pr[t], img)
           z == [pr EXCEPT ![t] = x]
           y == [pr[t] EXCEPT !.pc = "failed"]
           w == [pr EXCEPT ![t] = y]
<1>0. /\ ProcOK(pr) /\ Good(m, Roots(pr), {}, h) /\ TaskOK(m, pr[t]) /\ pr[t] \in ProcRecord
      /\ q # NULL /\ q \in Roots(pr) /\ mem(m, pr[t]) # NULL
  BY TaskIs
<1>1. \A p \in PrivatePage : view(m, q, p) = << >>
  BY <1>0 DEF TaskOK
<1>2. ASSUME img.ok PROVE Does(m, pr, n, z, h)
  <2>1. /\ HasFields(n)
        /\ ~n.oom => /\ Good(n, Roots(pr), {}, h) /\ HasProgram(n, q, img)
                     /\ \A u \in Roots(pr) \ {q}, p \in PrivatePage : view(n, u, p) = view(m, u, p)
    BY <1>0, <1>1, ProgramIs
  <2> HIDE DEF n
  <2>2. SUFFICES ASSUME ~n.oom PROVE StateOK(n, z, h) /\ Moves(m, pr, n, z)
    BY <2>1 DEF Does
  <2>3. x \in ProcRecord /\ x.cr3 = q /\ x.pc = "user" /\ FieldsOK(x) /\ PagesOK(n, x)
    BY <1>0, <1>2, <2>1, <2>2, LoadedIs
  <2> HIDE DEF x
  <2>4. TaskOK(n, x) /\ x.pc # "none"
    BY <2>3 DEF TaskOK
  <2>5. /\ StateOK(n, z, h) /\ z[t] = x
        /\ \A u \in Task \ {t} : mem(n, z[u]) = mem(m, pr[u])
    BY <1>0, <2>1, <2>2, <2>3, <2>4, OwnPages
  <2>6. FreshImage(space(n, q))
    BY <1>2, <2>1, <2>2, SpaceFresh
  <2> HIDE DEF z
  <2>7. mem(n, z[t]) = space(n, q) /\ mem(n, z[t]) # NULL
    BY <1>0, <2>3, <2>5, TaskIs
  <2>8. Becomes(mem(m, pr[t]), mem(n, z[t]))
    BY <1>0, <2>6, <2>7 DEF Becomes
  <2> QED
    BY <2>5, <2>8 DEF Moves
<1>3. Does(m, pr, i, w, h)
  <2>1. /\ HasFields(i)
        /\ ~i.oom => /\ Good(i, Roots(pr), {}, h)
                     /\ \A u \in Roots(pr) \ {q}, p \in PrivatePage : view(i, u, p) = view(m, u, p)
    BY <1>0, <1>1, LoadKeeps
  <2> HIDE DEF i
  <2>2. SUFFICES ASSUME ~i.oom PROVE StateOK(i, w, h) /\ Moves(m, pr, i, w)
    BY <2>1 DEF Does
  <2>3. y \in ProcRecord /\ y.cr3 = q /\ y.pc = "failed"
    BY <1>0 DEF ProcRecord
  <2> HIDE DEF y
  <2>4. TaskOK(i, y) /\ y.pc # "none"
    BY <2>3 DEF TaskOK
  <2>5. /\ StateOK(i, w, h) /\ w[t] = y
        /\ \A u \in Task \ {t} : mem(i, w[u]) = mem(m, pr[u])
    BY <1>0, <2>1, <2>2, <2>3, <2>4, OwnPages
  <2>6. mem(i, y) = << >> /\ mem(m, pr[t]) = << >>
    BY <1>0, <2>3 DEF mem
  <2> HIDE DEF w
  <2> QED
    BY <2>5, <2>6 DEF Moves, Becomes
<1>4. [pr EXCEPT ![t] = loaded_fields(@, img)] = z /\ [pr EXCEPT ![t].pc = "failed"] = w
  BY <1>0 DEF ProcOK
<1> HIDE DEF n, i, z, w
<1> QED
  BY <1>2, <1>3, <1>4 DEF n, i

LEMMA FreeDoes ==
    ASSUME NEW m, NEW pr, NEW h, StateOK(m, pr, h), NEW t \in Task,
           pr[t].pc \in {"user", "failed"}
    PROVE  Does(m, pr, destroy_address_space(m, pr[t].cr3), [pr EXCEPT ![t] = NoTask], h)
<1> DEFINE q == pr[t].cr3
           n == destroy_address_space(m, q)
           z == [pr EXCEPT ![t] = NoTask]
<1>0. /\ ProcOK(pr) /\ Good(m, Roots(pr), {}, h)
      /\ q # NULL /\ q \in Roots(pr) /\ mem(m, pr[t]) # NULL
  BY TaskIs
<1>1. /\ Good(n, Roots(pr) \ {q}, {}, h)
      /\ \A u \in Roots(pr) \ {q}, x \in PrivatePage : view(n, u, x) = view(m, u, x)
  BY <1>0, DestroyKeeps
<1>2. HasFields(n)
  BY <1>1, GoodFacts
<1> HIDE DEF n
<1>3. /\ NoTask \in ProcRecord /\ NoTask.cr3 = NULL /\ NoTask.pc = "none"
      /\ TaskOK(n, NoTask)
  BY NoTaskIs
<1>4. Roots([pr EXCEPT ![t] = NoTask]) = Roots(pr) \ {q}
  BY <1>0, <1>3, RootsIs
<1>5. Good(n, Roots([pr EXCEPT ![t] = NoTask]), {}, h)
  BY <1>1, <1>4
<1>6. NoTask.cr3 \notin Roots(pr) /\ (NoTask.cr3 = NULL <=> NoTask.pc = "none")
  BY <1>3 DEF Roots
<1>7. /\ StateOK(n, z, h) /\ z[t] = NoTask
      /\ \A u \in Task \ {t} : mem(n, z[u]) = mem(m, pr[u])
  BY <1>1, <1>3, <1>5, <1>6, OneTask
<1>8. mem(n, NoTask) = NULL
  BY <1>3 DEF mem
<1> HIDE DEF z
<1>9. Moves(m, pr, n, z)
  BY <1>0, <1>7, <1>8 DEF Moves, Becomes
<1> QED
  BY <1>2, <1>7, <1>9 DEF Does, n, z

\* A program's fields, in pages.
LEMMA FieldsAre ==
    ASSUME NEW x \in ProcRecord, FieldsOK(x)
    PROVE  /\ page_up(x.brk_cur) \in PagesPerTable..(2 * PagesPerTable)
           /\ page_up(x.brk_cur) \in Nat
           /\ page_down(x.mmap_next) \in (3 * PagesPerTable)..(4 * PagesPerTable - 1)
           /\ x.mmap_next = PAGE_SIZE * page_down(x.mmap_next)
           /\ page_down(x.mmap_next) \in Nat
<1>0. PagesPerTable \in Nat \ {0} /\ PAGE_SIZE \in Nat \ {0} /\ 2 * PagesPerTable \in Nat
  BY AddressSpaceAssumption
<1>1. /\ RESERVED_LOW = PAGE_SIZE * PagesPerTable /\ BRK_CEILING = PAGE_SIZE * (2 * PagesPerTable)
      /\ RESERVED_LOW \in Nat /\ BRK_CEILING \in Nat
      /\ page_up(RESERVED_LOW) = PagesPerTable /\ page_up(BRK_CEILING) = 2 * PagesPerTable
  BY <1>0, Bounds, WholePage
<1>2. x.brk_cur \in Nat /\ x.brk_start \in Nat
  BY DEF ProcRecord
<1>3. RESERVED_LOW <= x.brk_cur /\ x.brk_cur <= BRK_CEILING
  BY <1>1, <1>2 DEF FieldsOK
<1>4. page_up(x.brk_cur) \in Nat
  BY <1>2, PageUpIs
<1>5. PagesPerTable <= page_up(x.brk_cur) /\ page_up(x.brk_cur) <= 2 * PagesPerTable
  BY <1>1, <1>2, <1>3, PageUpOrder
<1>6. PICK k \in (3 * PagesPerTable)..(4 * PagesPerTable - 1) : x.mmap_next = PAGE_SIZE * k
  BY DEF FieldsOK
<1>7. k \in Nat
  BY <1>0, <1>6
<1>8. page_down(x.mmap_next) = k
  BY <1>6, <1>7, WholePage
<1> QED
  BY <1>0, <1>4, <1>5, <1>6, <1>7, <1>8

\* New pages where nothing was.
LEMMA GrowDoes ==
    ASSUME NEW m, NEW pr, NEW h, StateOK(m, pr, h), NEW t \in Task, pr[t].pc = "user",
           NEW x \in ProcRecord, x.cr3 = pr[t].cr3, x.pc = "user", FieldsOK(x),
           NEW a \in Nat, NEW b \in Nat, a <= b, NEW fl \in {"RW", "RO"},
           \A p \in a..(b - 1) : p \in PrivatePage /\ ~Inside(pr[t], p),
           \A p \in PrivatePage : Inside(pr[t], p) \/ p \in a..(b - 1) => Inside(x, p)
    PROVE  Does(m, pr, grow(m, pr[t].cr3, a, b, fl), [pr EXCEPT ![t] = x], h)
<1> DEFINE q == pr[t].cr3
           n == grow(m, q, a, b, fl)
           S == a..(b - 1)
<1>0. Good(m, Roots(pr), {}, h) /\ q \in Roots(pr) /\ PagesOK(m, pr[t])
  BY TaskIs
<1>1. \A p \in a..(b - 1) : p \in PrivatePage /\ view(m, q, p) = << >>
  BY <1>0 DEF PagesOK
<1>2. fl \in Flag
  BY DEF Flag
<1>3. HasFields(n)
  BY <1>0, <1>1, <1>2, GrowKeeps
<1>4. ~n.oom => /\ Good(n, Roots(pr), {}, h)
                /\ \A p \in a..(b - 1) : view(n, q, p) = <<Zero, fl>>
                /\ \A u \in Roots(pr), y \in PrivatePage :
                     u # q \/ y \notin a..(b - 1) => view(n, u, y) = view(m, u, y)
  BY <1>0, <1>1, <1>2, GrowKeeps
<1> HIDE DEF n
<1>5. ASSUME ~n.oom
      PROVE  /\ \A p \in S : view(m, q, p) = << >> /\ view(n, q, p) = <<Zero, fl>>
             /\ \A y \in PrivatePage : y \notin S => view(n, q, y) = view(m, q, y)
  BY <1>0, <1>1, <1>4, <1>5
<1>6. S \in SUBSET PrivatePage /\ \A p \in PrivatePage : Inside(pr[t], p) \/ p \in S => Inside(x, p)
  BY <1>1
<1> HIDE DEF S
<1>7. ASSUME ~n.oom PROVE PagesOK(n, x)
  BY <1>0, <1>5, <1>6, <1>7 DEF PagesOK
<1>8. ASSUME ~n.oom PROVE Grows(space(m, q), space(n, q))
  <2>1. \A p \in S : view(m, q, p) = << >> /\ view(n, q, p) = <<Zero, fl>>
    BY <1>5, <1>8
  <2>2. \A y \in PrivatePage : y \notin S => view(n, q, y) = view(m, q, y)
    BY <1>5, <1>8
  <2> QED
    BY <1>6, <2>1, <2>2, SpaceGrown
<1>9. ~n.oom =>
         /\ Good(n, Roots(pr), {}, h) /\ FieldsOK(x) /\ PagesOK(n, x)
         /\ \A u \in Roots(pr) \ {pr[t].cr3}, y \in PrivatePage : view(n, u, y) = view(m, u, y)
         /\ \/ Grows(space(m, x.cr3), space(n, x.cr3))
            \/ Shrinks(space(m, x.cr3), space(n, x.cr3))
            \/ Protects(space(m, x.cr3), space(n, x.cr3))
            \/ Stores(space(m, x.cr3), space(n, x.cr3))
  BY <1>4, <1>7, <1>8
<1>10. Does(m, pr, n, [pr EXCEPT ![t] = x], h)
  BY <1>3, <1>9, OwnDoes
<1> QED
  BY <1>10 DEF n

LEMMA ReleaseDoes ==
    ASSUME NEW m, NEW pr, NEW h, StateOK(m, pr, h), NEW t \in Task, pr[t].pc = "user",
           NEW x \in ProcRecord, x.cr3 = pr[t].cr3, x.pc = "user", FieldsOK(x), NEW S,
           \A p \in PrivatePage : Inside(pr[t], p) /\ p \notin S => Inside(x, p)
    PROVE  Does(m, pr, release(m, pr[t].cr3, S), [pr EXCEPT ![t] = x], h)
<1> DEFINE q == pr[t].cr3
           n == release(m, q, S)
<1>0. Good(m, Roots(pr), {}, h) /\ q \in Roots(pr) /\ PagesOK(m, pr[t])
  BY TaskIs
<1>1. /\ Good(n, Roots(pr), {}, h)
      /\ \A y \in PrivatePage \cap S : view(n, q, y) = << >>
      /\ \A u \in Roots(pr), y \in PrivatePage :
           u # q \/ y \notin S => view(n, u, y) = view(m, u, y)
  BY <1>0, ReleaseKeeps
<1>2. HasFields(n)
  BY <1>1, GoodFacts
<1> HIDE DEF n
<1>3. \A y \in PrivatePage : y \notin S => view(n, q, y) = view(m, q, y)
  BY <1>0, <1>1
<1>4. PagesOK(n, x)
  BY <1>0, <1>1, <1>3 DEF PagesOK
<1>5. Shrinks(space(m, q), space(n, q))
  <2>1. \A y \in PrivatePage \cap S : view(n, q, y) = << >>
    BY <1>1
  <2> QED
    BY <1>3, <2>1, SpaceShrunk
<1>6. ~n.oom =>
         /\ Good(n, Roots(pr), {}, h) /\ FieldsOK(x) /\ PagesOK(n, x)
         /\ \A u \in Roots(pr) \ {pr[t].cr3}, y \in PrivatePage : view(n, u, y) = view(m, u, y)
         /\ \/ Grows(space(m, x.cr3), space(n, x.cr3))
            \/ Shrinks(space(m, x.cr3), space(n, x.cr3))
            \/ Protects(space(m, x.cr3), space(n, x.cr3))
            \/ Stores(space(m, x.cr3), space(n, x.cr3))
  BY <1>1, <1>4, <1>5
<1>7. Does(m, pr, n, [pr EXCEPT ![t] = x], h)
  BY <1>2, <1>6, OwnDoes
<1> QED
  BY <1>7 DEF n

LEMMA ProtectDoes ==
    ASSUME NEW m, NEW pr, NEW h, StateOK(m, pr, h), NEW t \in Task, pr[t].pc = "user",
           NEW S, NEW fl \in {"RW", "RO"}
    PROVE  Does(m, pr, protect(m, pr[t].cr3, S, fl), pr, h)
<1> DEFINE q == pr[t].cr3
           x == pr[t]
           n == protect(m, q, S, fl)
<1>0. /\ ProcOK(pr) /\ Good(m, Roots(pr), {}, h) /\ q \in Roots(pr) /\ FieldsOK(pr[t])
      /\ PagesOK(m, pr[t]) /\ pr[t] \in ProcRecord
  BY TaskIs
<1>a. fl \in Flag /\ [pr EXCEPT ![t] = x] = pr
  BY <1>0 DEF Flag, ProcOK
<1>1. /\ Good(n, Roots(pr), {}, h)
      /\ \A y \in PrivatePage \cap S : view(n, q, y) =
           IF view(m, q, y) = << >> THEN << >> ELSE <<view(m, q, y)[1], fl>>
      /\ \A u \in Roots(pr), y \in PrivatePage :
           u # q \/ y \notin S => view(n, u, y) = view(m, u, y)
  BY <1>0, <1>a, ProtectKeeps
<1>2. HasFields(n)
  BY <1>1, GoodFacts
<1> HIDE DEF n
<1>3. \A y \in PrivatePage : y \notin S => view(n, q, y) = view(m, q, y)
  BY <1>0, <1>1
<1>4. PagesOK(n, x)
  BY <1>0, <1>1, <1>3 DEF PagesOK
<1>5. Protects(space(m, q), space(n, q))
  <2>1. \A y \in PrivatePage \cap S : view(n, q, y) =
           IF view(m, q, y) = << >> THEN << >> ELSE <<view(m, q, y)[1], fl>>
    BY <1>1
  <2> QED
    BY <1>3, <2>1, SpaceProtected
<1>6. ~n.oom =>
         /\ Good(n, Roots(pr), {}, h) /\ FieldsOK(x) /\ PagesOK(n, x)
         /\ \A u \in Roots(pr) \ {pr[t].cr3}, y \in PrivatePage : view(n, u, y) = view(m, u, y)
         /\ \/ Grows(space(m, x.cr3), space(n, x.cr3))
            \/ Shrinks(space(m, x.cr3), space(n, x.cr3))
            \/ Protects(space(m, x.cr3), space(n, x.cr3))
            \/ Stores(space(m, x.cr3), space(n, x.cr3))
  BY <1>0, <1>1, <1>4, <1>5
<1>7. Does(m, pr, n, [pr EXCEPT ![t] = x], h)
  BY <1>0, <1>2, <1>6, OwnDoes
<1> QED
  BY <1>7, <1>a DEF n

LEMMA BrkDoes ==
    ASSUME NEW m, NEW pr, NEW h, StateOK(m, pr, h), NEW t \in Task, pr[t].pc = "user",
           NEW addr \in Nat, brk_accepts(pr[t], addr)
    PROVE  LET old_top == page_up(pr[t].brk_cur)
               new_top == page_up(addr)
           IN  Does(m, pr, IF new_top > old_top
                           THEN grow(m, pr[t].cr3, old_top, new_top, "RW")
                           ELSE release(m, pr[t].cr3, brk_dropped(new_top, old_top)),
                    [pr EXCEPT ![t].brk_cur = addr], h)
<1> DEFINE q == pr[t].cr3
           a == page_up(pr[t].brk_cur)
           b == page_up(addr)
           x == [pr[t] EXCEPT !.brk_cur = addr]
           S == brk_dropped(b, a)
<1>0. ProcOK(pr) /\ pr[t] \in ProcRecord /\ FieldsOK(pr[t])
  BY TaskIs
<1>1. /\ x \in ProcRecord /\ x.cr3 = q /\ x.pc = "user" /\ x.brk_cur = addr
      /\ x.mmap_next = pr[t].mmap_next /\ x.brk_start = pr[t].brk_start
  BY <1>0 DEF ProcRecord
<1>2. [pr EXCEPT ![t].brk_cur = addr] = [pr EXCEPT ![t] = x]
  BY <1>0 DEF ProcOK
<1> HIDE DEF x
<1>3. FieldsOK(x)
  BY <1>0, <1>1 DEF FieldsOK, brk_accepts
<1>4. /\ a \in PagesPerTable..(2 * PagesPerTable) /\ a \in Nat
      /\ b \in PagesPerTable..(2 * PagesPerTable) /\ b \in Nat
      /\ PagesPerTable \in Nat
  BY <1>0, <1>1, <1>3, FieldsAre, AddressSpaceAssumption
<1>5. /\ \A p : p \in PagesOf(WINDOW) <=> p \in PagesPerTable..(2 * PagesPerTable - 1)
      /\ \A p : p \in PagesOf(HIGH) <=> p \in (3 * PagesPerTable)..(4 * PagesPerTable - 1)
      /\ PrivatePage = PagesOf(WINDOW) \cup PagesOf(HIGH)
  BY Bounds, PrivateIs
<1>6. /\ \A p : Inside(pr[t], p) <=>
               /\ p \in PagesOf(WINDOW) => p < a
               /\ p \in PagesOf(HIGH) => p < page_down(x.mmap_next) \/ p = STACK_PAGE
      /\ \A p : Inside(x, p) <=>
               /\ p \in PagesOf(WINDOW) => p < b
               /\ p \in PagesOf(HIGH) => p < page_down(x.mmap_next) \/ p = STACK_PAGE
  BY <1>1 DEF Inside
<1> HIDE DEF a, b
<1>7. ASSUME b > a PROVE Does(m, pr, grow(m, q, a, b, "RW"), [pr EXCEPT ![t] = x], h)
  <2>1. a <= b /\ "RW" \in {"RW", "RO"}
    BY <1>4, <1>7
  <2>2. ASSUME NEW p \in a..(b - 1) PROVE p \in PrivatePage /\ ~Inside(pr[t], p)
    <3>1. p \in PagesOf(WINDOW) /\ ~(p < a)
      BY <1>4, <1>5
    <3> QED
      BY <1>5, <1>6, <3>1
  <2>3. ASSUME NEW p \in PrivatePage, Inside(pr[t], p) \/ p \in a..(b - 1)
        PROVE  Inside(x, p)
    <3>1. p \in Nat
      BY <1>4, <1>5
    <3>2. p \in PagesOf(WINDOW) => p < b
      BY <1>4, <1>6, <1>7, <2>3, <3>1
    <3>3. p \in PagesOf(HIGH) => p \notin a..(b - 1)
      BY <1>4, <1>5
    <3> QED
      BY <1>6, <2>3, <3>2, <3>3
  <2> QED
    BY <1>1, <1>3, <1>4, <2>1, <2>2, <2>3, GrowDoes
<1>8. ASSUME ~(b > a) PROVE Does(m, pr, release(m, q, S), [pr EXCEPT ![t] = x], h)
  <2>1. S = b..(a - 1)
    BY DEF brk_dropped
  <2>2. ASSUME NEW p \in PrivatePage, Inside(pr[t], p), p \notin S
        PROVE  Inside(x, p)
    <3>1. p \in Nat
      BY <1>4, <1>5
    <3> QED
      BY <1>4, <1>6, <2>1, <2>2, <3>1
  <2> HIDE DEF S
  <2> QED
    BY <1>1, <1>3, <2>2, ReleaseDoes
<1> HIDE DEF S
<1> QED
  BY <1>2, <1>7, <1>8 DEF a, b, S

LEMMA MmapDoes ==
    ASSUME NEW m, NEW pr, NEW h, StateOK(m, pr, h), NEW t \in Task, pr[t].pc = "user",
           NEW len \in Nat, MmapFits(pr[t], len), NEW prot \in {"RW", "RO"}
    PROVE  LET base == pr[t].mmap_next
           IN  Does(m, pr, grow(m, pr[t].cr3, page_down(base), page_up(base + len), prot),
                    [pr EXCEPT ![t].mmap_next = mmap_end(pr[t], len)], h)
<1> DEFINE q == pr[t].cr3
           base == pr[t].mmap_next
           a == page_down(base)
           b == page_up(base + len)
           x == [pr[t] EXCEPT !.mmap_next = mmap_end(pr[t], len)]
           top == 4 * PagesPerTable - 1
<1>0. ProcOK(pr) /\ pr[t] \in ProcRecord /\ FieldsOK(pr[t])
  BY TaskIs
<1>1. /\ a \in (3 * PagesPerTable)..top /\ a \in Nat /\ base = PAGE_SIZE * a
      /\ PagesPerTable \in Nat \ {0} /\ PAGE_SIZE \in Nat \ {0} /\ top \in Nat
  BY <1>0, FieldsAre, AddressSpaceAssumption
<1>2. b = a + page_up(len) /\ page_up(len) \in Nat
  BY <1>1, PageUpIs
<1>3. mmap_end(pr[t], len) = PAGE_SIZE * b /\ b \in Nat /\ a <= b
  <2>1. PAGE_SIZE * (a + page_up(len)) = PAGE_SIZE * a + page_up(len) * PAGE_SIZE
    BY <1>1, <1>2
  <2> QED
    BY <1>1, <1>2, <2>1 DEF mmap_end
<1>4. b <= top
  <2>1. PAGE_SIZE * b <= PAGE_SIZE * top
    BY <1>3, Bounds DEF MmapFits, mmap_end
  <2> HIDE DEF top, b
  <2> QED
    BY <1>1, <1>3, <2>1, MultOrder
<1> HIDE DEF a, b
<1>5. PAGE_SIZE * b \in Nat /\ page_down(PAGE_SIZE * b) = b
  BY <1>3, WholePage
<1>6. /\ x \in ProcRecord /\ x.cr3 = q /\ x.pc = "user" /\ x.brk_cur = pr[t].brk_cur
      /\ x.mmap_next = PAGE_SIZE * b /\ x.brk_start = pr[t].brk_start
  BY <1>0, <1>3, <1>5 DEF ProcRecord
<1>7. [pr EXCEPT ![t].mmap_next = mmap_end(pr[t], len)] = [pr EXCEPT ![t] = x]
  BY <1>0 DEF ProcOK
<1> HIDE DEF x
<1>8. b \in (3 * PagesPerTable)..(4 * PagesPerTable - 1)
  BY <1>1, <1>3, <1>4
<1>9. FieldsOK(x)
  BY <1>0, <1>6, <1>8 DEF FieldsOK
<1>10. /\ \A p : p \in PagesOf(WINDOW) <=> p \in PagesPerTable..(2 * PagesPerTable - 1)
       /\ \A p : p \in PagesOf(HIGH) <=> p \in (3 * PagesPerTable)..(4 * PagesPerTable - 1)
       /\ PrivatePage = PagesOf(WINDOW) \cup PagesOf(HIGH) /\ STACK_PAGE = top
  BY Bounds, PrivateIs
<1>11. /\ \A p : Inside(pr[t], p) <=>
               /\ p \in PagesOf(WINDOW) => p < page_up(x.brk_cur)
               /\ p \in PagesOf(HIGH) => p < a \/ p = STACK_PAGE
       /\ \A p : Inside(x, p) <=>
               /\ p \in PagesOf(WINDOW) => p < page_up(x.brk_cur)
               /\ p \in PagesOf(HIGH) => p < b \/ p = STACK_PAGE
  BY <1>5, <1>6 DEF Inside, a
<1>12. ASSUME NEW p \in a..(b - 1) PROVE p \in PrivatePage /\ ~Inside(pr[t], p)
  <2>1. p \in PagesOf(HIGH) /\ ~(p < a) /\ p # STACK_PAGE
    BY <1>1, <1>3, <1>4, <1>10
  <2> QED
    BY <1>10, <1>11, <2>1
<1>13. ASSUME NEW p \in PrivatePage, Inside(pr[t], p) \/ p \in a..(b - 1)
       PROVE  Inside(x, p)
  <2>1. p \in Nat
    BY <1>1, <1>10
  <2>2. p \in PagesOf(HIGH) => p < b \/ p = STACK_PAGE
    BY <1>1, <1>3, <1>11, <1>13, <2>1
  <2>3. p \in PagesOf(WINDOW) => p \notin a..(b - 1)
    BY <1>1, <1>10
  <2> QED
    BY <1>11, <1>13, <2>2, <2>3
<1>14. Does(m, pr, grow(m, q, a, b, prot), [pr EXCEPT ![t] = x], h)
  BY <1>1, <1>3, <1>6, <1>9, <1>12, <1>13, GrowDoes
<1> QED
  BY <1>7, <1>14 DEF a, b

LEMMA MunmapDoes ==
    ASSUME NEW m, NEW pr, NEW h, StateOK(m, pr, h), NEW t \in Task, pr[t].pc = "user", NEW S
    PROVE  Does(m, pr, release(m, pr[t].cr3, S), pr, h)
<1>0. ProcOK(pr) /\ pr[t] \in ProcRecord /\ FieldsOK(pr[t])
  BY TaskIs
<1>1. [pr EXCEPT ![t] = pr[t]] = pr
  BY <1>0 DEF ProcOK
<1>2. Does(m, pr, release(m, pr[t].cr3, S), [pr EXCEPT ![t] = pr[t]], h)
  BY <1>0, ReleaseDoes
<1> QED
  BY <1>1, <1>2

LEMMA WriteDoes ==
    ASSUME NEW m, NEW pr, NEW h, StateOK(m, pr, h), NEW t \in Task, pr[t].pc = "user",
           NEW p \in PrivatePage, virt_to_phys(m, pr[t].cr3, p) # NULL,
           leaf(m, pr[t].cr3, p).fl = "RW", NEW v \in Value,
           NEW n, HasFields(n), ~n.oom, n.used = m.used, n.table = m.table,
           n.data = [m.data EXCEPT ![virt_to_phys(m, pr[t].cr3, p)] = v]
    PROVE  Does(m, pr, n, pr, h)
<1> DEFINE q == pr[t].cr3
           x == pr[t]
<1>0. /\ ProcOK(pr) /\ Good(m, Roots(pr), {}, h) /\ q \in Roots(pr) /\ FieldsOK(pr[t])
      /\ PagesOK(m, pr[t]) /\ pr[t] \in ProcRecord
  BY TaskIs
<1>a. [pr EXCEPT ![t] = x] = pr
  BY <1>0 DEF ProcOK
<1>1. /\ Good(n, Roots(pr), {}, h) /\ view(n, q, p) = <<v, leaf(m, q, p).fl>>
      /\ \A u \in Roots(pr), y \in PrivatePage :
           u # q \/ y # p => view(n, u, y) = view(m, u, y)
  BY <1>0, StoreKeeps
<1>2. \A y \in PrivatePage : y # p => view(n, q, y) = view(m, q, y)
  BY <1>0, <1>1
<1>3. view(m, q, p) # << >>
  BY ViewIs
<1>4. PagesOK(n, x)
  BY <1>0, <1>2, <1>3 DEF PagesOK
<1>5. Stores(space(m, q), space(n, q))
  BY <1>1, <1>2, SpaceStored
<1>6. ~n.oom =>
         /\ Good(n, Roots(pr), {}, h) /\ FieldsOK(x) /\ PagesOK(n, x)
         /\ \A u \in Roots(pr) \ {pr[t].cr3}, y \in PrivatePage : view(n, u, y) = view(m, u, y)
         /\ \/ Grows(space(m, x.cr3), space(n, x.cr3))
            \/ Shrinks(space(m, x.cr3), space(n, x.cr3))
            \/ Protects(space(m, x.cr3), space(n, x.cr3))
            \/ Stores(space(m, x.cr3), space(n, x.cr3))
  BY <1>0, <1>1, <1>4, <1>5
<1>7. Does(m, pr, n, [pr EXCEPT ![t] = x], h)
  BY <1>0, <1>6, OwnDoes
<1> QED
  BY <1>7, <1>a

\* An operation that no program sees.
LEMMA UnseenDoes ==
    ASSUME NEW m, NEW pr, NEW h, StateOK(m, pr, h), NEW t \in Task, NEW n, NEW g, HasFields(n),
           ~n.oom => /\ Good(n, Roots(pr), {}, g)
                     /\ \A u \in Roots(pr), x \in PrivatePage : view(n, u, x) = view(m, u, x)
    PROVE  Does(m, pr, n, pr, g)
<1>0. ProcOK(pr)
  BY TaskIs
<1>1. ASSUME ~n.oom, NEW u \in Task PROVE TaskOK(n, pr[u]) /\ mem(n, pr[u]) = mem(m, pr[u])
  <2>0. /\ TaskOK(m, pr[u]) /\ (pr[u].cr3 # NULL => pr[u].cr3 \in Roots(pr))
        /\ (pr[u].cr3 = NULL <=> pr[u].pc = "none")
    BY TaskIs
  <2>1. CASE pr[u].cr3 = NULL
    BY <2>0, <2>1 DEF TaskOK, mem
  <2>2. CASE pr[u].cr3 # NULL
    <3>1. \A x \in PrivatePage : view(n, pr[u].cr3, x) = view(m, pr[u].cr3, x)
      BY <1>1, <2>0, <2>2
    <3>2. space(n, pr[u].cr3) = space(m, pr[u].cr3)
      BY <3>1, SpaceSame
    <3> QED
      BY <2>0, <3>1, <3>2 DEF TaskOK, PagesOK, mem
  <2> QED
    BY <2>1, <2>2
<1>2. ~n.oom => StateOK(n, pr, g)
  BY <1>0, <1>1 DEF StateOK
<1>3. ~n.oom => Moves(m, pr, n, pr)
  BY <1>1 DEF Moves, Becomes
<1> QED
  BY <1>2, <1>3 DEF Does

\* The kernel's heap grows.
LEMMA HeapDoes ==
    ASSUME NEW m, NEW pr, NEW h, StateOK(m, pr, h), NEW t \in Task, pr[t].pc = "user",
           h \in PagesOf(HEAP)
    PROVE  Does(m, pr, map_new_page(m, pr[t].cr3, h, "KERNEL", Zero), pr, h + 1)
<1> DEFINE q == pr[t].cr3
           n == map_new_page(m, q, h, "KERNEL", Zero)
<1>0. Good(m, Roots(pr), {}, h) /\ q \in Roots(pr)
  BY TaskIs
<1>1. HasFields(n)
  BY <1>0, HeapKeeps
<1>2. ~n.oom => /\ Good(n, Roots(pr), {}, h + 1)
                /\ \A u \in Roots(pr), x \in PrivatePage : view(n, u, x) = view(m, u, x)
  BY <1>0, HeapKeeps
<1> HIDE DEF n
<1>3. Does(m, pr, n, pr, h + 1)
  BY <1>1, <1>2, UnseenDoes
<1> QED
  BY <1>3 DEF n

LEMMA ForkDoes ==
    ASSUME NEW m, NEW pr, NEW h, StateOK(m, pr, h), NEW t \in Task, pr[t].pc = "user",
           NEW c \in Task, pr[c] = NoTask
    PROVE  LET f == alloc_frame(m)
           IN  Does(m, pr, clone_address_space(create_address_space(m), f, pr[t].cr3),
                    [pr EXCEPT ![c] = [pr[t] EXCEPT !.cr3 = f]], h)
<1> DEFINE q == pr[t].cr3
           f == alloc_frame(m)
           e == create_address_space(m)
           n == clone_address_space(e, f, q)
           x == [pr[t] EXCEPT !.cr3 = f]
           z == [pr EXCEPT ![c] = x]
<1>0. /\ ProcOK(pr) /\ Good(m, Roots(pr), {}, h) /\ q \in Roots(pr) /\ FieldsOK(pr[t])
      /\ PagesOK(m, pr[t]) /\ pr[t] \in ProcRecord /\ mem(m, pr[t]) # NULL
      /\ mem(m, pr[t]) = space(m, q)
  BY TaskIs
<1>c. mem(m, pr[c]) = NULL /\ pr[c].cr3 = NULL /\ NULL \notin Roots(pr)
  <2>1. pr[c].cr3 = NULL
    BY NoTaskIs
  <2> QED
    BY <2>1 DEF mem, Roots
<1>1. HasFields(e)
  BY <1>0, CreateKeeps
<1>2. ~e.oom => /\ f \in Frame \ Roots(pr) /\ Good(e, Roots(pr) \cup {f}, {}, h)
                /\ \A p \in PrivatePage : view(e, f, p) = << >>
                /\ \A u \in Roots(pr), p \in PrivatePage : view(e, u, p) = view(m, u, p)
  BY <1>0, CreateKeeps
<1> HIDE DEF e, f
<1>3. HasFields(n) /\ (e.oom => n.oom)
  <2> DEFINE s == [i \in 1..(2 * PagesPerTable) |-> copy_of(e, q, private_page(i))]
  <2>1. Len(s) = 2 * PagesPerTable /\ 2 * PagesPerTable \in Nat
    BY AddressSpaceAssumption
  <2>2. n = map_pages(e, f, s)
    BY DEF clone_address_space
  <2> HIDE DEF n, s
  <2> QED
    BY <1>1, <2>1, <2>2, MapPagesMono
<1>4. SUFFICES ASSUME ~n.oom PROVE StateOK(n, z, h) /\ Moves(m, pr, n, z)
  BY <1>3 DEF Does, e, f
<1>5. /\ ~e.oom /\ f \in Frame \ Roots(pr) /\ Good(e, Roots(pr) \cup {f}, {}, h)
      /\ \A p \in PrivatePage : view(e, f, p) = << >>
      /\ \A u \in Roots(pr), p \in PrivatePage : view(e, u, p) = view(m, u, p)
  BY <1>2, <1>3, <1>4
<1>6. q \in Roots(pr) \cup {f} /\ f \in Roots(pr) \cup {f} /\ f # q
  BY <1>0, <1>5
<1>7. /\ Good(n, Roots(pr) \cup {f}, {}, h)
      /\ \A p \in PrivatePage : view(n, f, p) = view(e, q, p)
      /\ \A u \in (Roots(pr) \cup {f}) \ {f}, p \in PrivatePage : view(n, u, p) = view(e, u, p)
  <2> DEFINE P == Roots(pr) \cup {f}
  <2>1. Good(e, P, {}, h) /\ q \in P /\ f \in P
    BY <1>5, <1>6
  <2> HIDE DEF P, q
  <2>2. ~n.oom => /\ Good(n, P, {}, h)
                  /\ \A p \in PrivatePage : view(n, f, p) = view(e, q, p)
                  /\ \A u \in P \ {f}, p \in PrivatePage : view(n, u, p) = view(e, u, p)
    BY ONLY <1>5, <1>6, <2>1, CloneKeeps
  <2> QED
    BY <1>4, <2>2 DEF P
<1> HIDE DEF n
<1>8. /\ \A p \in PrivatePage : view(n, f, p) = view(m, q, p)
      /\ \A u \in Roots(pr), p \in PrivatePage : view(n, u, p) = view(m, u, p)
  BY <1>0, <1>5, <1>7
<1>9. /\ x \in ProcRecord /\ x.cr3 = f /\ x.pc = "user" /\ x.brk_start = pr[t].brk_start
      /\ x.brk_cur = pr[t].brk_cur /\ x.mmap_next = pr[t].mmap_next /\ f # NULL
  BY <1>0, <1>5, Constants DEF ProcRecord
<1> HIDE DEF x
<1>10. FieldsOK(x) /\ \A p : Inside(x, p) <=> Inside(pr[t], p)
  BY <1>0, <1>9 DEF FieldsOK, Inside
<1>11. TaskOK(n, x)
  BY <1>0, <1>8, <1>9, <1>10 DEF TaskOK, PagesOK
<1>12. Roots([pr EXCEPT ![c] = x]) = Roots(pr) \cup {f}
  BY <1>0, <1>c, <1>9, RootsIs
<1>13. Good(n, Roots([pr EXCEPT ![c] = x]), {}, h)
  BY <1>7, <1>12
<1>14. x.cr3 \notin Roots(pr) /\ (x.cr3 = NULL <=> x.pc = "none")
  BY <1>5, <1>9
<1>15. \A u \in Roots(pr) \ {pr[c].cr3}, p \in PrivatePage : view(n, u, p) = view(m, u, p)
  BY <1>8
<1>16. /\ StateOK(n, z, h) /\ z[c] = x
       /\ \A u \in Task \ {c} : mem(n, z[u]) = mem(m, pr[u])
  BY <1>9, <1>11, <1>13, <1>14, <1>15, OneTask
<1>17. space(n, f) = space(m, q)
  BY <1>8, SpaceSame
<1> HIDE DEF z
<1>18. mem(n, z[c]) = mem(m, pr[t])
  BY <1>0, <1>9, <1>16, <1>17 DEF mem
<1> QED
  BY <1>0, <1>c, <1>16, <1>18 DEF Moves

LEMMA ExecveDoes ==
    ASSUME NEW m, NEW pr, NEW h, StateOK(m, pr, h), NEW t \in Task, pr[t].pc = "user",
           NEW img \in Image, NEW v \in Value
    PROVE  LET root == alloc_frame(m)
               image == load_segments(create_address_space(m), root, img)
               staged == map_stack(image, root, v)
           IN  IF img.ok
               THEN Does(m, pr, destroy_address_space(staged, pr[t].cr3),
                         [pr EXCEPT ![t] = [loaded_fields(pr[t], img) EXCEPT !.cr3 = root]], h)
               ELSE Does(m, pr, destroy_address_space(image, root), pr, h)
<1> DEFINE q == pr[t].cr3
           f == alloc_frame(m)
           e == create_address_space(m)
           i == load_segments(e, f, img)
           s == map_stack(i, f, v)
           P == Roots(pr) \cup {f}
<1>0. /\ ProcOK(pr) /\ Good(m, Roots(pr), {}, h) /\ q \in Roots(pr) /\ pr[t] \in ProcRecord
      /\ mem(m, pr[t]) # NULL
  BY TaskIs
<1>1. HasFields(e)
  BY <1>0, CreateKeeps
<1>2. ~e.oom => /\ f \in Frame \ Roots(pr) /\ Good(e, P, {}, h)
                /\ \A p \in PrivatePage : view(e, f, p) = << >>
                /\ \A u \in Roots(pr), p \in PrivatePage : view(e, u, p) = view(m, u, p)
  BY <1>0, CreateKeeps
<1> HIDE DEF e, f
<1>3. HasFields(i) /\ (e.oom => i.oom)
  <2>1. Len(img.pages) \in Nat
    BY AddressSpaceAssumption DEF ImageOK
  <2> QED
    BY <1>1, <2>1, MapPagesMono DEF load_segments
<1>4. HasFields(s) /\ (i.oom => s.oom)
  <2> HIDE DEF i
  <2> QED
    BY <1>3, MapNewPageMono DEF map_stack
<1>5. f \in P /\ P = Roots(pr) \cup {f}
  OBVIOUS
<1> HIDE DEF P
<1>6. ~i.oom => /\ f \in Frame \ Roots(pr) /\ Good(i, P, {}, h)
                /\ \A u \in P \ {f}, p \in PrivatePage : view(i, u, p) = view(e, u, p)
                /\ \A u \in Roots(pr), p \in PrivatePage : view(e, u, p) = view(m, u, p)
  <2>1. SUFFICES ASSUME ~i.oom
                 PROVE  /\ Good(i, P, {}, h)
                        /\ \A u \in P \ {f}, p \in PrivatePage : view(i, u, p) = view(e, u, p)
    BY <1>2, <1>3
  <2>2. Good(e, P, {}, h)
    BY <1>2, <1>3, <2>1
  <2>3. \A p \in PrivatePage : view(e, f, p) = << >>
    BY <1>2, <1>3, <2>1
  <2>4. img \in Image /\ f \in P
    BY <1>5
  <2> QED
    BY ONLY <2>1, <2>2, <2>3, <2>4, LoadKeeps
<1>7. ~s.oom => /\ f \in Frame \ Roots(pr) /\ Good(s, P, {}, h) /\ HasProgram(s, f, img)
                /\ \A u \in P \ {f}, p \in PrivatePage : view(s, u, p) = view(e, u, p)
                /\ \A u \in Roots(pr), p \in PrivatePage : view(e, u, p) = view(m, u, p)
  <2>1. SUFFICES ASSUME ~s.oom
                 PROVE  /\ Good(s, P, {}, h) /\ HasProgram(s, f, img)
                        /\ \A u \in P \ {f}, p \in PrivatePage : view(s, u, p) = view(e, u, p)
    BY <1>2, <1>3, <1>4
  <2>2. Good(e, P, {}, h)
    BY <1>2, <1>3, <1>4, <2>1
  <2>3. \A p \in PrivatePage : view(e, f, p) = << >>
    BY <1>2, <1>3, <1>4, <2>1
  <2>4. img \in Image /\ v \in Value /\ f \in P
    BY <1>5
  <2> QED
    BY ONLY <2>1, <2>2, <2>3, <2>4, ProgramIs
<1> HIDE DEF i, s
<1>8. ASSUME ~img.ok PROVE Does(m, pr, destroy_address_space(i, f), pr, h)
  <2> DEFINE n == destroy_address_space(i, f)
  <2>1. HasFields(n) /\ n.oom = i.oom
    BY <1>3, FreeMono DEF destroy_address_space
  <2>2. ASSUME ~n.oom
        PROVE  /\ Good(n, Roots(pr), {}, h)
               /\ \A u \in Roots(pr), p \in PrivatePage : view(n, u, p) = view(m, u, p)
    <3>1. f \in Frame \ Roots(pr) /\ Good(i, P, {}, h)
      BY <1>6, <2>1, <2>2
    <3>2. /\ Good(n, P \ {f}, {}, h)
          /\ \A u \in P \ {f}, p \in PrivatePage : view(n, u, p) = view(i, u, p)
      BY <1>5, <3>1, DestroyKeeps
    <3>3. P \ {f} = Roots(pr)
      BY <1>5, <3>1
    <3> HIDE DEF n
    <3> QED
      BY <1>6, <2>1, <2>2, <3>2, <3>3
  <2> HIDE DEF n
  <2>3. Does(m, pr, n, pr, h)
    BY <2>1, <2>2, UnseenDoes
  <2> QED
    BY <2>3 DEF n
<1>9. ASSUME img.ok
      PROVE  Does(m, pr, destroy_address_space(s, q),
                  [pr EXCEPT ![t] = [loaded_fields(pr[t], img) EXCEPT !.cr3 = f]], h)
  <2> DEFINE n == destroy_address_space(s, q)
             x == [loaded_fields(pr[t], img) EXCEPT !.cr3 = f]
             z == [pr EXCEPT ![t] = x]
  <2>1. HasFields(n) /\ n.oom = s.oom
    BY <1>4, FreeMono DEF destroy_address_space
  <2>2. SUFFICES ASSUME ~n.oom PROVE StateOK(n, z, h) /\ Moves(m, pr, n, z)
    BY <2>1 DEF Does
  <2>3. /\ f \in Frame \ Roots(pr) /\ Good(s, P, {}, h) /\ HasProgram(s, f, img) /\ q \in P
        /\ f # q
    BY <1>0, <1>5, <1>7, <2>1, <2>2
  <2>4. /\ Good(n, P \ {q}, {}, h)
        /\ \A u \in P \ {q}, p \in PrivatePage : view(n, u, p) = view(s, u, p)
    BY <2>3, DestroyKeeps
  <2> HIDE DEF n
  <2>5. HasProgram(n, f, img)
    <3>1. \A p \in PrivatePage : view(n, f, p) = view(s, f, p)
      BY <1>5, <2>3, <2>4
    <3>2. \A j \in 1..Len(img.pages) : img.pages[j].page \in PrivatePage
      BY AddressSpaceAssumption, PrivateIs DEF ImageOK
    <3>3. STACK_PAGE \in PrivatePage
      BY Bounds, PrivateIs
    <3> QED
      BY <2>3, <3>1, <3>2, <3>3 DEF HasProgram
  <2>6. x \in ProcRecord /\ x.cr3 = f /\ x.pc = "user" /\ FieldsOK(x) /\ PagesOK(n, x)
    BY <1>0, <1>9, <2>3, <2>5, LoadedIs
  <2> HIDE DEF x
  <2>7. TaskOK(n, x) /\ f # NULL
    BY <2>3, <2>6, Constants DEF TaskOK
  <2>8. Roots([pr EXCEPT ![t] = x]) = P \ {q}
    BY <1>0, <1>5, <2>3, <2>6, <2>7, RootsIs
  <2>9. Good(n, Roots([pr EXCEPT ![t] = x]), {}, h)
    BY <2>4, <2>8
  <2>10. x.cr3 \notin Roots(pr) /\ (x.cr3 = NULL <=> x.pc = "none")
    BY <2>3, <2>6, <2>7
  <2>11. \A u \in Roots(pr) \ {pr[t].cr3}, p \in PrivatePage : view(n, u, p) = view(m, u, p)
    BY <1>5, <1>7, <2>1, <2>2, <2>3, <2>4
  <2>12. /\ StateOK(n, z, h) /\ z[t] = x
         /\ \A u \in Task \ {t} : mem(n, z[u]) = mem(m, pr[u])
    BY <2>6, <2>7, <2>9, <2>10, <2>11, OneTask
  <2> HIDE DEF z
  <2>13. mem(n, z[t]) = space(n, f) /\ mem(n, z[t]) # NULL
    BY <2>6, <2>7, <2>12, TaskIs
  <2>14. FreshImage(space(n, f))
    BY <1>9, <2>5, SpaceFresh
  <2>15. Becomes(mem(m, pr[t]), mem(n, z[t]))
    BY <1>0, <2>13, <2>14 DEF Becomes
  <2> QED
    BY <2>12, <2>15 DEF Moves
<1> QED
  BY <1>8, <1>9 DEF e, f, i, s

----------------------------------------------------------------------------
(* The specification *)

LEMMA InitIs == Init => IndInv
<1> SUFFICES ASSUME Init PROVE IndInv
  OBVIOUS
<1>1. Good(booted, {}, {}, heap_end) /\ HasFields(booted) /\ ~booted.oom
  BY BootIs DEF Init, Good
<1>2. ram = booted
  <2> HIDE DEF booted
  <2> QED
    BY <1>1 DEF Init, HasFields, ram
<1>3. proc = [t \in Task |-> NoTask]
  BY DEF Init
<1>4. Roots(proc) = {}
  BY <1>3, NoTaskIs DEF Roots
<1>5. ProcOK(proc)
  BY <1>3, NoTaskIs DEF ProcOK
<1>6. \A t \in Task : TaskOK(ram, proc[t])
  BY <1>3, NoTaskIs
<1> QED
  BY <1>1, <1>2, <1>4, <1>5, <1>6 DEF IndInv, StateOK

\* A step keeps the invariant, and changes programs' memory as an operation may.
Kept == IndInv' /\ Moves(ram, proc, ram', proc')

LEMMA Unmoved ==
    ASSUME NEW t \in Task, UNCHANGED <<used, table, data, heap_end, proc>>, IndInv
    PROVE  Kept
<1>1. ram' = ram
  BY DEF ram
<1> QED
  BY <1>1 DEF Kept, IndInv, Moves, Becomes

LEMMA CommitIs ==
    ASSUME IndInv, NEW t \in Task, NEW STATE n, NEW STATE z, NEW STATE g, commit(n, z),
           Does(ram, proc, n, z, g), heap_end' = IF n.oom THEN heap_end ELSE g
    PROVE  Kept
<1>1. CASE n.oom
  <2>1. UNCHANGED <<used, table, data, heap_end, proc>>
    BY <1>1 DEF commit
  <2> QED
    BY <2>1, Unmoved
<1>2. CASE ~n.oom
  <2>1. HasFields(n) /\ StateOK(n, z, g) /\ Moves(ram, proc, n, z)
    BY <1>2 DEF Does
  <2>2. used' = n.used /\ table' = n.table /\ data' = n.data /\ proc' = z /\ heap_end' = g
    BY <1>2 DEF commit
  <2>3. ram' = n
    BY <1>2, <2>1, <2>2 DEF HasFields, ram
  <2>4. StateOK(ram', proc', heap_end') /\ Moves(ram, proc, ram', proc')
    BY <2>1, <2>2, <2>3
  <2> QED
    BY <2>4 DEF Kept, IndInv
<1> QED
  BY <1>1, <1>2

LEMMA StepKeeps ==
    ASSUME IndInv, TRUE \notin TooBig, NEW t \in Task, Step(t)
    PROVE  Kept
<1>0. StateOK(ram, proc, heap_end)
  BY DEF IndInv
<1>1. ASSUME spawn_from_elf(t) PROVE Kept
  <2> DEFINE n == create_address_space(ram)
             z == [proc EXCEPT ![t].cr3 = alloc_frame(ram), ![t].pc = "new"]
  <2>1. proc[t] = NoTask /\ commit(n, z) /\ heap_end' = heap_end
    BY <1>1 DEF spawn_from_elf
  <2>2. Does(ram, proc, n, z, heap_end)
    BY <1>0, <2>1, SpawnDoes
  <2> HIDE DEF n, z
  <2> QED
    BY <2>1, <2>2, CommitIs
<1>2. ASSUME NEW img \in Image, NEW v \in Value, linux_task_entry(t, img, v) PROVE Kept
  <2> DEFINE i == load_segments(ram, proc[t].cr3, img)
             n == map_stack(i, proc[t].cr3, v)
             z == [proc EXCEPT ![t] = loaded_fields(@, img)]
             w == [proc EXCEPT ![t].pc = "failed"]
  <2>1. /\ proc[t].pc = "new" /\ heap_end' = heap_end
        /\ IF img.ok THEN commit(n, z) ELSE commit(i, w)
    BY <1>2 DEF linux_task_entry
  <2>2. IF img.ok THEN Does(ram, proc, n, z, heap_end) ELSE Does(ram, proc, i, w, heap_end)
    BY <1>0, <2>1, EntryDoes
  <2> HIDE DEF n, i, z, w
  <2>3. CASE img.ok
    BY <2>1, <2>2, <2>3, CommitIs
  <2>4. CASE ~img.ok
    BY <2>1, <2>2, <2>4, CommitIs
  <2> QED
    BY <2>3, <2>4
<1>3. ASSUME NEW addr \in Address, sys_brk(t, addr) PROVE Kept
  <2> DEFINE old_top == page_up(proc[t].brk_cur)
             new_top == page_up(addr)
             n == IF new_top > old_top
                  THEN grow(ram, proc[t].cr3, old_top, new_top, "RW")
                  ELSE release(ram, proc[t].cr3, brk_dropped(new_top, old_top))
             z == [proc EXCEPT ![t].brk_cur = addr]
  <2>1. /\ proc[t].pc = "user" /\ brk_accepts(proc[t], addr)
        /\ commit(n, z) /\ heap_end' = heap_end
    BY <1>3 DEF sys_brk, Runs
  <2>2. addr \in Nat
    BY AddressSpaceAssumption
  <2>3. Does(ram, proc, n, z, heap_end)
    BY <1>0, <2>1, <2>2, BrkDoes
  <2> HIDE DEF n, z
  <2> QED
    BY <2>1, <2>3, CommitIs
<1>4. ASSUME NEW len \in Length, NEW prot \in {"RW", "RO"}, sys_mmap(t, len, prot) PROVE Kept
  <2> DEFINE base == proc[t].mmap_next
             n == grow(ram, proc[t].cr3, page_down(base), page_up(base + len), prot)
             z == [proc EXCEPT ![t].mmap_next = mmap_end(proc[t], len)]
  <2>1. /\ proc[t].pc = "user" /\ MmapFits(proc[t], len)
        /\ commit(n, z) /\ heap_end' = heap_end
    BY <1>4 DEF sys_mmap, Runs
  <2>2. len \in Nat
    BY AddressSpaceAssumption
  <2>3. Does(ram, proc, n, z, heap_end)
    BY <1>0, <2>1, <2>2, MmapDoes
  <2> HIDE DEF n, z
  <2> QED
    BY <2>1, <2>3, CommitIs
<1>5. ASSUME NEW addr \in Address, NEW len \in Length, sys_munmap(t, addr, len) PROVE Kept
  <2> DEFINE n == release(ram, proc[t].cr3, call_range(addr, len))
  <2>1. proc[t].pc = "user" /\ commit(n, proc) /\ heap_end' = heap_end
    BY <1>5 DEF sys_munmap, Runs
  <2>2. Does(ram, proc, n, proc, heap_end)
    BY <1>0, <2>1, MunmapDoes
  <2> HIDE DEF n
  <2> QED
    BY <2>1, <2>2, CommitIs
<1>6. ASSUME NEW addr \in Address, NEW len \in Length, NEW prot \in {"RW", "RO"},
             sys_mprotect(t, addr, len, prot)
      PROVE  Kept
  <2> DEFINE n == protect(ram, proc[t].cr3, call_range(addr, len), prot)
  <2>1. proc[t].pc = "user" /\ commit(n, proc) /\ heap_end' = heap_end
    BY <1>6 DEF sys_mprotect, Runs
  <2>2. Does(ram, proc, n, proc, heap_end)
    BY <1>0, <2>1, ProtectDoes
  <2> HIDE DEF n
  <2> QED
    BY <2>1, <2>2, CommitIs
<1>7. ASSUME NEW c \in Task, sys_fork(t, c) PROVE Kept
  <2> DEFINE f == alloc_frame(ram)
             n == clone_address_space(create_address_space(ram), f, proc[t].cr3)
             z == [proc EXCEPT ![c] = [proc[t] EXCEPT !.cr3 = f]]
  <2>1. proc[t].pc = "user" /\ proc[c] = NoTask /\ commit(n, z) /\ heap_end' = heap_end
    BY <1>7 DEF sys_fork, Runs
  <2>2. Does(ram, proc, n, z, heap_end)
    BY <1>0, <2>1, ForkDoes
  <2> HIDE DEF n, z
  <2> QED
    BY <2>1, <2>2, CommitIs
<1>8. ASSUME NEW img \in Image, NEW big \in TooBig, NEW v \in Value, sys_execve(t, img, big, v)
      PROVE  Kept
  <2> DEFINE f == alloc_frame(ram)
             i == load_segments(create_address_space(ram), f, img)
             n == destroy_address_space(map_stack(i, f, v), proc[t].cr3)
             d == destroy_address_space(i, f)
             z == [proc EXCEPT ![t] = [loaded_fields(proc[t], img) EXCEPT !.cr3 = f]]
  <2>0. ~big
    BY AddressSpaceAssumption
  <2>1. /\ proc[t].pc = "user" /\ heap_end' = heap_end
        /\ IF img.ok THEN commit(n, z) ELSE commit(d, proc)
    BY <1>8, <2>0 DEF sys_execve, Runs
  <2>2. IF img.ok THEN Does(ram, proc, n, z, heap_end) ELSE Does(ram, proc, d, proc, heap_end)
    BY <1>0, <2>1, ExecveDoes
  <2> HIDE DEF n, d, z
  <2>3. CASE img.ok
    BY <2>1, <2>2, <2>3, CommitIs
  <2>4. CASE ~img.ok
    BY <2>1, <2>2, <2>4, CommitIs
  <2> QED
    BY <2>3, <2>4
<1>9. ASSUME free_task(t) PROVE Kept
  <2> DEFINE n == destroy_address_space(ram, proc[t].cr3)
             z == [proc EXCEPT ![t] = NoTask]
  <2>1. proc[t].pc \in {"user", "failed"} /\ commit(n, z) /\ heap_end' = heap_end
    BY <1>9 DEF free_task
  <2>2. Does(ram, proc, n, z, heap_end)
    BY <1>0, <2>1, FreeDoes
  <2> HIDE DEF n, z
  <2> QED
    BY <2>1, <2>2, CommitIs
<1>10. ASSUME grow_heap(t) PROVE Kept
  <2> DEFINE n == map_new_page(ram, proc[t].cr3, heap_end, "KERNEL", Zero)
  <2>1. /\ proc[t].pc = "user" /\ ~halted /\ heap_end \in PagesOf(HEAP) /\ commit(n, proc)
        /\ heap_end' = IF halted' THEN heap_end ELSE heap_end + 1
    BY <1>10 DEF grow_heap, Runs
  <2>2. Does(ram, proc, n, proc, heap_end + 1)
    BY <1>0, <2>1, HeapDoes
  <2> HIDE DEF n
  <2>3. heap_end' = IF n.oom THEN heap_end ELSE heap_end + 1
    BY <2>1 DEF commit
  <2> QED
    BY <2>1, <2>2, <2>3, CommitIs
<1>11. ASSUME NEW p \in PrivatePage, NEW v \in Value, write(t, p, v) PROVE Kept
  <2>1. /\ proc[t].pc = "user" /\ virt_to_phys(ram, proc[t].cr3, p) # NULL
        /\ leaf(ram, proc[t].cr3, p).fl = "RW"
        /\ data' = [data EXCEPT ![virt_to_phys(ram, proc[t].cr3, p)] = v]
        /\ used' = used /\ table' = table /\ proc' = proc /\ heap_end' = heap_end
    BY <1>11 DEF write, Runs, Mapped
  <2>2. /\ HasFields(ram') /\ ~ram'.oom /\ ram'.used = ram.used /\ ram'.table = ram.table
        /\ ram'.data = [ram.data EXCEPT ![virt_to_phys(ram, proc[t].cr3, p)] = v]
    BY <2>1 DEF HasFields, ram
  <2>3. Does(ram, proc, ram', proc, heap_end)
    BY <1>0, <2>1, <2>2, WriteDoes
  <2>4. StateOK(ram', proc', heap_end') /\ Moves(ram, proc, ram', proc')
    BY <2>1, <2>2, <2>3 DEF Does
  <2> QED
    BY <2>4 DEF Kept, IndInv
<1> QED
  BY <1>1, <1>2, <1>3, <1>4, <1>5, <1>6, <1>7, <1>8, <1>9, <1>10, <1>11 DEF Step

\* The whole specification keeps the invariant: every root belongs to one task,
\* the kernel's part of every root is the kernel's own, every private table and
\* page has a frame that nothing else names, and a program's fields bound its
\* pages.  The arguments of execve() are taken to fit the stack.
THEOREM SpaceInvariant ==
    ASSUME TRUE \notin TooBig
    PROVE  Spec => []IndInv
<1>1. Init => IndInv
  BY InitIs
<1>2. IndInv /\ [Next]_vars => IndInv'
  <2> SUFFICES ASSUME IndInv, [Next]_vars PROVE IndInv'
    OBVIOUS
  <2>1. CASE Next
    <3>1. PICK t \in Task : Step(t)
      BY <2>1 DEF Next
    <3> QED
      BY <3>1, StepKeeps DEF Kept
  <2>2. CASE UNCHANGED vars
    <3>1. ram' = ram /\ proc' = proc /\ heap_end' = heap_end
      BY <2>2 DEF vars, ram
    <3> QED
      BY <3>1 DEF IndInv
  <2> QED
    BY <2>1, <2>2
<1> QED
  BY <1>1, <1>2, PTL DEF Spec

\* create_address_space() copies the kernel's entries once, and no operation
\* parts the copies: for any number of tasks and frames the kernel is mapped
\* the same in every space, the heap pages mapped later included.
THEOREM KernelSafety ==
    ASSUME TRUE \notin TooBig
    PROVE  Spec => []KernelIsShared
<1>1. IndInv => KernelIsShared
  <2> SUFFICES ASSUME IndInv, NEW t \in Live, NEW r \in Region \ Private, NEW p \in PagesOf(r)
               PROVE  virt_to_phys(ram, proc[t].cr3, p) = virt_to_phys(ram, KernelRoot, p)
    BY DEF KernelIsShared
  <2>1. t \in Task /\ proc[t].cr3 # NULL
    BY DEF Live
  <2>2. Good(ram, Roots(proc), {}, heap_end) /\ proc[t].cr3 \in Roots(proc)
    BY <2>1, TaskIs DEF IndInv
  <2>3. ram.table[proc[t].cr3][r] = ram.table[KernelRoot][r]
    BY <2>2 DEF Good, SpacesOK
  <2>4. region(p) = r
    BY PagesOfIs DEF Region, KERNEL, HEAP
  <2> QED
    BY <2>3, <2>4 DEF virt_to_phys
<1>2. Spec => []IndInv
  BY SpaceInvariant
<1> QED
  BY <1>1, <1>2, PTL

\* sys_brk() may trust brk_cur: after any calls, failed ones and execve()
\* included, a program has no page of the window at or above its break.
THEOREM BrkSafety ==
    ASSUME TRUE \notin TooBig
    PROVE  Spec => []BrkEndsTheWindow
<1>1. IndInv => BrkEndsTheWindow
  <2> SUFFICES ASSUME IndInv, NEW t \in Task, proc[t].pc = "user",
                      NEW p \in Mapped(ram, proc[t].cr3) \cap PagesOf(WINDOW)
               PROVE  p < page_up(proc[t].brk_cur)
    BY DEF BrkEndsTheWindow
  <2>1. PagesOK(ram, proc[t])
    BY TaskIs DEF IndInv
  <2>2. p \in PrivatePage /\ view(ram, proc[t].cr3, p) # << >>
    BY ViewIs DEF Mapped
  <2> QED
    BY <2>1, <2>2 DEF PagesOK, Inside
<1>2. Spec => []IndInv
  BY SpaceInvariant
<1> QED
  BY <1>1, <1>2, PTL

----------------------------------------------------------------------------
(* Counting the frames of a space *)

LEMMA OneToOne ==
    ASSUME NEW S, IsFiniteSet(S), NEW F, F = [x \in S |-> F[x]],
           \A x, y \in S : F[x] = F[y] => x = y
    PROVE  LET T == {F[x] : x \in S}
           IN  IsFiniteSet(T) /\ Cardinality(T) = Cardinality(S)
<1> DEFINE T == {F[x] : x \in S}
<1>1. F \in [S -> T]
  OBVIOUS
<1>2. F \in Bijection(S, T)
  BY <1>1 DEF Bijection, Injection, Surjection, IsInjective
<1>3. ExistsBijection(S, T)
  BY <1>2 DEF ExistsBijection
<1> QED
  BY <1>3, FS_Bijection

\* A root, its tables and its pages are as many frames as there are entries.
LEMMA SpaceCounts ==
    ASSUME NEW m, NEW P, NEW h, Good(m, P, {}, h), NEW q \in P
    PROVE  Cardinality(private_frames(m, q)) =
             1 + Cardinality({r \in Private : present(m.table[q][r])})
               + Cardinality(Mapped(m, q))
<1> DEFINE R == {r \in Private : present(m.table[q][r])}
           M == Mapped(m, q)
           F == [r \in R |-> tab(m, q, r)]
           G == [p \in M |-> virt_to_phys(m, q, p)]
           A == {F[r] : r \in R}
           B == {G[p] : p \in M}
<1>0. Owned(m, P, {}, KF(m))
  BY DEF Good
<1>1. IsFiniteSet(R)
  <2>1. IsFiniteSet({}) /\ IsFiniteSet({} \cup {WINDOW}) /\ Private = ({} \cup {WINDOW}) \cup {HIGH}
    BY FS_EmptySet, FS_AddElement DEF Private
  <2>2. IsFiniteSet(Private)
    BY <2>1, FS_AddElement
  <2>3. R \in SUBSET Private
    OBVIOUS
  <2> QED
    BY <2>2, <2>3, FS_Subset
<1>2. IsFiniteSet(M)
  <2>1. PagesPerTable \in Nat /\ 4 * PagesPerTable \in Int /\ 0 \in Int
    BY AddressSpaceAssumption
  <2>2. IsFiniteSet(0..(4 * PagesPerTable))
    BY <2>1, FS_Interval
  <2>3. M \in SUBSET (0..(4 * PagesPerTable))
    BY <2>1, PrivateIs, Bounds DEF Mapped
  <2> QED
    BY <2>2, <2>3, FS_Subset
<1>3. \A r \in R : r \in Private /\ tab(m, q, r) # NULL
  BY DEF present, tab
<1>4. \A p \in M : p \in PrivatePage /\ virt_to_phys(m, q, p) # NULL
  BY DEF Mapped
<1> HIDE DEF R, M
<1>5. \A r, s \in R : F[r] = F[s] => r = s
  BY <1>0, <1>3 DEF Owned
<1>6. \A p, x \in M : G[p] = G[x] => p = x
  BY <1>0, <1>4 DEF Owned
<1>7. A = {tab(m, q, r) : r \in R} /\ B = {virt_to_phys(m, q, p) : p \in M}
  OBVIOUS
<1>8. F = [r \in R |-> F[r]] /\ G = [p \in M |-> G[p]]
  OBVIOUS
<1> HIDE DEF F, G
<1>9. IsFiniteSet(A) /\ Cardinality(A) = Cardinality(R)
  BY <1>1, <1>5, <1>8, OneToOne
<1>10. IsFiniteSet(B) /\ Cardinality(B) = Cardinality(M)
  BY <1>2, <1>6, <1>8, OneToOne
<1>11. A \cap B = {}
  <2>1. ASSUME NEW r \in R, NEW p \in M, tab(m, q, r) = virt_to_phys(m, q, p) PROVE FALSE
    BY <1>0, <1>3, <1>4, <2>1 DEF Owned
  <2> HIDE DEF A, B
  <2> QED
    BY <1>7, <2>1
<1>12. q \notin A \cup B
  <2>1. \A r \in R : tab(m, q, r) # q
    BY <1>0, <1>3 DEF Owned
  <2>2. \A p \in M : virt_to_phys(m, q, p) # q
    BY <1>0, <1>4 DEF Owned
  <2> HIDE DEF A, B
  <2> QED
    BY <1>7, <2>1, <2>2
<1>13. private_frames(m, q) = (A \cup B) \cup {q}
  BY <1>7 DEF private_frames, private_tables, R, M, tab
<1> HIDE DEF A, B
<1>14. IsFiniteSet(A \cup B) /\ Cardinality(A \cup B) = Cardinality(A) + Cardinality(B)
  <2>1. Cardinality(A \cap B) = 0
    BY <1>11, FS_EmptySet
  <2>2. Cardinality(A) \in Nat /\ Cardinality(B) \in Nat
    BY <1>9, <1>10, FS_CardinalityType
  <2> QED
    <3>1. Cardinality(A \cup B) = Cardinality(A) + Cardinality(B) - Cardinality(A \cap B)
      BY <1>9, <1>10, FS_Union
    <3>2. IsFiniteSet(A \cup B)
      BY <1>9, <1>10, FS_Union
    <3> QED
      BY <2>1, <2>2, <3>1, <3>2
<1>15. Cardinality((A \cup B) \cup {q}) = Cardinality(A \cup B) + 1
  BY <1>12, <1>14, FS_AddElement
<1>16. Cardinality(A) \in Nat /\ Cardinality(B) \in Nat
  BY <1>9, <1>10, FS_CardinalityType
<1> QED
  BY <1>9, <1>10, <1>13, <1>14, <1>15, <1>16 DEF R, M

LEMMA InSpace ==
    ASSUME NEW m, NEW q, NEW f
    PROVE  f \in private_frames(m, q) <=>
             \/ f = q
             \/ \E r \in Private : f = tab(m, q, r) /\ f # NULL
             \/ \E p \in PrivatePage : f = virt_to_phys(m, q, p) /\ f # NULL
  BY DEF private_frames, private_tables, present, tab, Mapped

\* No sequence of brk(), mmap(), munmap(), fork(), execve(), exits and failed
\* loads leaks a frame, maps one twice or frees one in use, whatever the number
\* of frames, tasks and pages, and also when the kernel stops without a frame.
THEOREM FrameSafety ==
    ASSUME TRUE \notin TooBig
    PROVE  Spec => []FramesAreOwned
<1>1. IndInv => FramesAreOwned
  <2> SUFFICES ASSUME IndInv PROVE FramesAreOwned
    OBVIOUS
  <2> DEFINE K == KF(ram)
             P == Roots(proc)
  <2>1. Good(ram, P, {}, heap_end) /\ ProcOK(proc)
    BY DEF IndInv, StateOK
  <2>2. Owned(ram, P, {}, K) /\ used \subseteq Frame
    BY <2>1 DEF Good, IsRam, ram
  <2>3. KernelFrames = K
    BY DEF KernelFrames, KF, tab, ram
  <2>4. ASSUME NEW t \in Live
        PROVE  t \in Task /\ proc[t].cr3 # NULL /\ proc[t].cr3 \in P
    BY DEF Live, Roots
  <2>5. ASSUME NEW q \in P PROVE \E t \in Live : q = proc[t].cr3
    BY DEF Live, Roots
  <2>u. ram.used = used
    BY DEF ram
  <2> HIDE DEF K, P
  <2>6. ASSUME NEW t \in Live, NEW f
        PROVE  f \in Own(t) <=>
                 \/ f = proc[t].cr3
                 \/ \E r \in Private : f = tab(ram, proc[t].cr3, r) /\ f # NULL
                 \/ \E p \in PrivatePage : f = virt_to_phys(ram, proc[t].cr3, p) /\ f # NULL
    BY InSpace DEF Own
  <2>7. \A f \in Frame : f # NULL
    BY Constants
  <2>8. used = KernelFrames \cup UNION {Own(t) : t \in Live}
    <3>1. ASSUME NEW f \in used PROVE f \in K \/ \E t \in Live : f \in Own(t)
      <4>1. f \in Frame /\ f # NULL
        BY <2>2, <2>7
      <4>2. \/ f \in P \/ f \in K
            \/ \E q \in P, r \in Private : f = tab(ram, q, r)
            \/ \E q \in P, p \in PrivatePage : f = virt_to_phys(ram, q, p)
        BY <2>2, <2>u, <4>1 DEF Owned
      <4> QED
        BY <2>5, <2>6, <4>1, <4>2
    <3>2. ASSUME NEW f \in K PROVE f \in used
      BY <2>2, <2>u DEF Owned
    <3>3. ASSUME NEW t \in Live, NEW f \in Own(t) PROVE f \in used
      <4>1. f \in Frame
        BY <2>2, <2>4, <2>6 DEF Owned
      <4> QED
        BY <2>2, <2>4, <2>6, <2>u, <4>1 DEF Owned
    <3> QED
      BY <2>3, <3>1, <3>2, <3>3
  <2>9. ASSUME NEW t \in Live PROVE Own(t) \cap KernelFrames = {}
    <3>1. ASSUME NEW f \in Own(t) PROVE f \notin K
      BY <2>2, <2>4, <2>6 DEF Owned
    <3> QED
      BY <2>3, <3>1
  <2>10. ASSUME NEW t \in Live PROVE Cardinality(Own(t)) = OwnEntries(proc[t].cr3)
    <3>1. Cardinality(private_frames(ram, proc[t].cr3)) =
             1 + Cardinality({r \in Private : present(ram.table[proc[t].cr3][r])})
               + Cardinality(Mapped(ram, proc[t].cr3))
      BY <2>1, <2>4, SpaceCounts
    <3>2. ram.table = table
      BY DEF ram
    <3> QED
      BY <3>1, <3>2 DEF Own, OwnEntries
  <2>11. ASSUME NEW t \in Live, NEW u \in Live \ {t} PROVE Own(t) \cap Own(u) = {}
    <3>1. proc[t].cr3 # proc[u].cr3
      BY <2>1, <2>4 DEF ProcOK
    <3>2. ASSUME NEW f \in Own(t), f \in Own(u) PROVE FALSE
      <4> DEFINE q == proc[t].cr3
                 w == proc[u].cr3
      <4>1. q \in P /\ w \in P /\ q # w
        BY <2>4, <3>1
      <4>2. /\ \/ f = q
               \/ \E r \in Private : f = tab(ram, q, r) /\ f # NULL
               \/ \E p \in PrivatePage : f = virt_to_phys(ram, q, p) /\ f # NULL
            /\ \/ f = w
               \/ \E r \in Private : f = tab(ram, w, r) /\ f # NULL
               \/ \E p \in PrivatePage : f = virt_to_phys(ram, w, p) /\ f # NULL
        BY <2>6, <3>2
      <4> HIDE DEF q, w
      <4> QED
        BY ONLY <2>2, <4>1, <4>2 DEF Owned
    <3> QED
      BY <3>2
  <2> QED
    BY <2>8, <2>9, <2>10, <2>11 DEF FramesAreOwned
<1>2. Spec => []IndInv
  BY SpaceInvariant
<1> QED
  BY <1>1, <1>2, PTL

----------------------------------------------------------------------------
(* The abstract memory *)

vmbar == [t \in Task |-> memory(t)]

LEMMA MemoryIs ==
    /\ \A t \in Task : vmbar[t] = mem(ram, proc[t])
    /\ \A t \in Task : vmbar'[t] = mem(ram', proc'[t])
<1>1. ASSUME NEW t PROVE memory(t) = mem(ram, proc[t])
  BY DEF memory, mem, space, ram
<1>2. ASSUME NEW t PROVE memory(t)' = mem(ram', proc'[t])
  BY DEF memory, mem, space, ram
<1> QED
  BY <1>1, <1>2 DEF vmbar

LEMMA AbstractStep ==
    ASSUME NEW t \in Task, \A u \in Task \ {t} : vmbar'[u] = vmbar[u],
           Becomes(vmbar[t], vmbar'[t])
    PROVE  VM!Next \/ UNCHANGED vmbar
<1> DEFINE a == vmbar[t]
           b == vmbar'[t]
<1>0. vmbar = [u \in Task |-> vmbar[u]] /\ vmbar' = [u \in Task |-> vmbar'[u]]
  BY DEF vmbar
<1>1. CASE b = a
  <2>1. \A u \in Task : vmbar'[u] = vmbar[u]
    BY <1>1
  <2> QED
    BY <1>0, <2>1
<1>2. CASE a = NULL /\ b = << >>
  <2>1. vmbar' = [vmbar EXCEPT ![t] = << >>]
    BY <1>0, <1>2
  <2>2. VM!Start(t)
    BY <1>2, <2>1 DEF VM!Start, VM!Live, vmbar
  <2> QED
    BY <2>2 DEF VM!Next
<1>3. CASE a # NULL /\ b = NULL
  <2>1. vmbar' = [vmbar EXCEPT ![t] = NULL]
    BY <1>0, <1>3
  <2>2. VM!Exit(t)
    BY <1>3, <2>1 DEF VM!Exit, VM!Live, vmbar
  <2> QED
    BY <2>2 DEF VM!Next
<1>4. CASE /\ a # NULL /\ b # NULL
           /\ FreshImage(b) \/ Grows(a, b) \/ Shrinks(a, b) \/ Protects(a, b) \/ Stores(a, b)
  <2>0. t \in VM!Live /\ vmbar'[t] # NULL /\ VM!OthersKeepTheirs(t)
    BY <1>4 DEF VM!Live, VM!OthersKeepTheirs, vmbar
  <2>1. CASE FreshImage(b)
    <3>1. VM!Load(t)
      BY <2>0, <2>1 DEF VM!Load, vmbar
    <3> QED
      BY <3>1 DEF VM!Next
  <2>2. CASE Grows(a, b)
    <3>1. VM!Grow(t)
      BY <2>0, <2>2 DEF VM!Grow, VM!Restrict, Grows, vmbar
    <3> QED
      BY <3>1 DEF VM!Next
  <2>3. CASE Shrinks(a, b)
    <3>1. VM!Shrink(t)
      BY <2>0, <2>3 DEF VM!Shrink, VM!Restrict, Shrinks, vmbar
    <3> QED
      BY <3>1 DEF VM!Next
  <2>4. CASE Protects(a, b)
    <3>1. VM!Protect(t)
      BY <2>0, <2>4 DEF VM!Protect, Protects, vmbar
    <3> QED
      BY <3>1 DEF VM!Next
  <2>5. CASE Stores(a, b)
    <3>1. VM!Store(t)
      BY <2>0, <2>5 DEF VM!Store, Stores, vmbar
    <3> QED
      BY <3>1 DEF VM!Next
  <2> QED
    BY <1>4, <2>1, <2>2, <2>3, <2>4, <2>5
<1> QED
  BY <1>1, <1>2, <1>3, <1>4 DEF Becomes

LEMMA AbstractFork ==
    ASSUME NEW t \in Task, NEW c \in Task, \A u \in Task \ {c} : vmbar'[u] = vmbar[u],
           vmbar[c] = NULL, vmbar[t] # NULL, vmbar'[c] = vmbar[t]
    PROVE  VM!Next
<1>0. vmbar = [u \in Task |-> vmbar[u]] /\ vmbar' = [u \in Task |-> vmbar'[u]]
  BY DEF vmbar
<1>1. vmbar' = [vmbar EXCEPT ![c] = vmbar[t]]
  BY <1>0
<1>2. VM!Fork(t, c)
  BY <1>1 DEF VM!Fork, VM!Live, vmbar
<1> QED
  BY <1>2 DEF VM!Next

\* Frames, tables and roots implement memory that belongs to a program alone:
\* every operation of the kernel is one of the abstract steps of one task, or
\* is not seen by any program.
THEOREM MemoryRefines ==
    ASSUME TRUE \notin TooBig
    PROVE  Spec => ImplementsVirtualMemory
<1>1. Init => VM!Init
  BY NoTaskIs DEF Init, VM!Init, memory
<1>2. IndInv /\ [Next]_vars => [VM!Next]_vmbar
  <2> SUFFICES ASSUME IndInv, [Next]_vars PROVE VM!Next \/ UNCHANGED vmbar
    OBVIOUS
  <2>1. CASE Next
    <3>1. PICK s \in Task : Step(s)
      BY <2>1 DEF Next
    <3>2. Moves(ram, proc, ram', proc')
      BY <3>1, StepKeeps DEF Kept
    <3>3. PICK t \in Task :
             /\ \A u \in Task \ {t} : mem(ram', proc'[u]) = mem(ram, proc[u])
             /\ \/ Becomes(mem(ram, proc[t]), mem(ram', proc'[t]))
                \/ \E r \in Task : /\ mem(ram, proc[t]) = NULL /\ mem(ram, proc[r]) # NULL
                                   /\ mem(ram', proc'[t]) = mem(ram, proc[r])
      BY <3>2 DEF Moves
    <3>4. \A u \in Task \ {t} : vmbar'[u] = vmbar[u]
      BY <3>3, MemoryIs
    <3>5. CASE Becomes(mem(ram, proc[t]), mem(ram', proc'[t]))
      <4>1. Becomes(vmbar[t], vmbar'[t])
        BY <3>5, MemoryIs
      <4> QED
        BY <3>4, <4>1, AbstractStep
    <3>6. CASE \E r \in Task : /\ mem(ram, proc[t]) = NULL /\ mem(ram, proc[r]) # NULL
                               /\ mem(ram', proc'[t]) = mem(ram, proc[r])
      <4>1. \E r \in Task : vmbar[t] = NULL /\ vmbar[r] # NULL /\ vmbar'[t] = vmbar[r]
        BY <3>6, MemoryIs
      <4> QED
        BY <3>4, <4>1, AbstractFork
    <3> QED
      BY <3>3, <3>5, <3>6
  <2>2. CASE UNCHANGED vars
    <3>1. ram' = ram /\ proc' = proc
      BY <2>2 DEF vars, ram
    <3>2. \A t \in Task : vmbar'[t] = vmbar[t]
      BY <3>1, MemoryIs
    <3> QED
      BY <3>2 DEF vmbar
  <2> QED
    BY <2>1, <2>2
<1>3. Spec => []IndInv
  BY SpaceInvariant
<1> QED
  BY <1>1, <1>2, <1>3, PTL DEF Spec, ImplementsVirtualMemory, VM!Spec, vmbar

=============================================================================
