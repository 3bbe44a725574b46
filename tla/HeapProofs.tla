----------------------------- MODULE HeapProofs -----------------------------
(***************************************************************************)
(* Proofs about Heap: for every alignment, page size, size of the tags and *)
(* sequence of requests the blocks tile the heap, the boundary tags agree  *)
(* with the list, free neighbours are merged, and growing suffices.        *)
(*                                                                         *)
(* The argument is on heap values: Good(h, D, X) says that the blocks of   *)
(* callers (D), those on the list and the one that is between the two (X)  *)
(* tile h; every block operation takes a Good value to a Good one.         *)
(***************************************************************************)
EXTENDS Heap, NumberFacts, SequenceTheorems, FiniteSetTheorems, TLAPS

----------------------------------------------------------------------------
(* The free list *)

\* No block is on the list twice.
Once(s) == \A i, j \in 1..Len(s) : s[i] = s[j] => i = j

LEMMA RemoveIs ==
    ASSUME NEW S, NEW s \in Seq(S), Once(s), NEW e
    PROVE  /\ RemoveFirst(s, e) \in Seq(S)
           /\ Once(RemoveFirst(s, e))
           /\ ToSet(RemoveFirst(s, e)) = ToSet(s) \ {e}
<1> DEFINE I == {i \in 1..Len(s) : s[i] = e}
           t == RemoveFirst(s, e)
<1>0. Len(s) \in Nat /\ DOMAIN s = 1..Len(s)
  OBVIOUS
<1>1. CASE I = {}
  <2>1. t = s
    BY <1>1 DEF RemoveFirst
  <2>2. ToSet(s) \ {e} = ToSet(s)
    BY <1>0, <1>1 DEF ToSet
  <2> HIDE DEF t
  <2> QED
    BY <2>1, <2>2 DEF t
<1>2. CASE I # {}
  <2> DEFINE k == Min(I)
  <2>1. k \in 1..Len(s) /\ s[k] = e
    <3>1. I \subseteq Nat
      BY <1>0
    <3>2. k \in I
      <4> HIDE DEF I
      <4> QED
        BY <1>2, <3>1, MinIsLeast
    <3> QED
      BY <3>2
  <2>2. t = SubSeq(s, 1, k - 1) \o SubSeq(s, k + 1, Len(s))
    BY <1>2 DEF RemoveFirst, RemoveAt, SelectInSeq
  <2> HIDE DEF k, t
  <2> DEFINE u == SubSeq(s, 1, k - 1)
             v == SubSeq(s, k + 1, Len(s))
  <2>3. u \in Seq(S) /\ Len(u) = k - 1 /\ \A i \in 1..(k - 1) : u[i] = s[i]
    <3>1. \A i \in 1..(k - 1) : s[i] \in S
      BY <1>0, <2>1
    <3>2. k - 1 \in Int /\ 1 \in Int
      BY <1>0, <2>1
    <3>3. /\ u \in Seq(S)
          /\ Len(u) = IF 1 <= k - 1 THEN k - 1 - 1 + 1 ELSE 0
          /\ \A i \in 1..(k - 1 - 1 + 1) : u[i] = s[1 + i - 1]
      BY <3>1, <3>2, SubSeqProperties
    <3> HIDE DEF u
    <3> QED
      BY <1>0, <2>1, <3>3
  <2>4. v \in Seq(S) /\ Len(v) = Len(s) - k /\ \A i \in 1..(Len(s) - k) : v[i] = s[k + i]
    <3>1. \A i \in (k + 1)..Len(s) : s[i] \in S
      BY <1>0, <2>1
    <3>2. k + 1 \in Int /\ Len(s) \in Int
      BY <1>0, <2>1
    <3>3. /\ v \in Seq(S)
          /\ Len(v) = IF k + 1 <= Len(s) THEN Len(s) - (k + 1) + 1 ELSE 0
          /\ \A i \in 1..(Len(s) - (k + 1) + 1) : v[i] = s[(k + 1) + i - 1]
      BY <3>1, <3>2, SubSeqProperties
    <3>4. /\ Len(s) - (k + 1) + 1 = Len(s) - k
          /\ \A i \in 1..(Len(s) - k) : (k + 1) + i - 1 = k + i
          /\ ~(k + 1 <= Len(s)) => Len(s) - k = 0
      <4> DEFINE n == Len(s)
      <4>1. n \in Nat /\ k \in 1..n
        BY <1>0, <2>1
      <4> HIDE DEF n
      <4>2. /\ n - (k + 1) + 1 = n - k
            /\ \A i \in 1..(n - k) : (k + 1) + i - 1 = k + i
            /\ ~(k + 1 <= n) => n - k = 0
        BY ONLY <4>1
      <4> QED
        BY <4>2 DEF n
    <3> HIDE DEF v
    <3> QED
      BY <3>3, <3>4
  <2> HIDE DEF u, v
  <2>5. /\ t \in Seq(S) /\ Len(t) = Len(s) - 1
        /\ \A i \in 1..(Len(s) - 1) : t[i] = IF i < k THEN s[i] ELSE s[i + 1]
    <3>1. t = u \o v
      BY <2>2 DEF u, v
    <3>2. /\ t \in Seq(S) /\ Len(t) = Len(u) + Len(v)
          /\ \A i \in 1..(Len(u) + Len(v)) : t[i] = IF i <= Len(u) THEN u[i] ELSE v[i - Len(u)]
      BY <2>3, <2>4, <3>1, ConcatProperties
    <3>3. Len(u) + Len(v) = Len(s) - 1
      BY <1>0, <2>1, <2>3, <2>4
    <3>4. ASSUME NEW i \in 1..(Len(s) - 1) PROVE t[i] = IF i < k THEN s[i] ELSE s[i + 1]
      <4>1. CASE i < k
        BY <1>0, <2>1, <2>3, <3>2, <3>3, <4>1
      <4>2. CASE ~(i < k)
        <5>1. ~(i <= Len(u)) /\ i - Len(u) = i - k + 1 /\ i - k + 1 \in 1..(Len(s) - k)
          BY <1>0, <2>1, <2>3, <4>2
        <5>2. t[i] = v[i - k + 1]
          BY <3>2, <3>3, <5>1
        <5>3. k + (i - k + 1) = i + 1
          BY <1>0, <2>1
        <5> QED
          BY <2>4, <4>2, <5>1, <5>2, <5>3
      <4> QED
        BY <4>1, <4>2
    <3> QED
      BY <3>2, <3>3, <3>4
  <2>6. Once(t)
    BY <1>0, <2>1, <2>5 DEF Once
  <2>7. ToSet(t) = ToSet(s) \ {e}
    <3>0. DOMAIN t = 1..(Len(s) - 1)
      BY <2>5
    <3>1. ASSUME NEW i \in 1..(Len(s) - 1) PROVE t[i] \in ToSet(s) \ {e}
      <4>1. PICK j \in 1..Len(s) : t[i] = s[j] /\ j # k
        BY <1>0, <2>1, <2>5
      <4> QED
        BY <1>0, <2>1, <4>1 DEF Once, ToSet
    <3>2. ASSUME NEW j \in 1..Len(s), s[j] # e PROVE s[j] \in ToSet(t)
      <4>1. CASE j < k
        <5>1. j \in 1..(Len(s) - 1) /\ t[j] = s[j]
          BY <1>0, <2>1, <2>5, <4>1
        <5> QED
          BY <3>0, <5>1 DEF ToSet
      <4>2. CASE j > k
        <5>1. j - 1 \in 1..(Len(s) - 1) /\ ~(j - 1 < k) /\ (j - 1) + 1 = j
          BY <1>0, <2>1, <4>2
        <5>2. t[j - 1] = s[j]
          BY <2>5, <5>1
        <5> QED
          BY <3>0, <5>1, <5>2 DEF ToSet
      <4> QED
        BY <1>0, <2>1, <3>2, <4>1, <4>2
    <3> QED
      BY <1>0, <3>0, <3>1, <3>2 DEF ToSet
  <2> QED
    BY <2>5, <2>6, <2>7 DEF t
<1> QED
  BY <1>1, <1>2

LEMMA PrependIs ==
    ASSUME NEW S, NEW s \in Seq(S), Once(s), NEW e \in S, e \notin ToSet(s)
    PROVE  /\ <<e>> \o s \in Seq(S)
           /\ Once(<<e>> \o s)
           /\ ToSet(<<e>> \o s) = ToSet(s) \cup {e}
<1> DEFINE t == <<e>> \o s
<1>0. Len(s) \in Nat /\ DOMAIN s = 1..Len(s) /\ <<e>> \in Seq(S) /\ Len(<<e>>) = 1
  OBVIOUS
<1>1. /\ t \in Seq(S) /\ Len(t) = Len(s) + 1
      /\ t[1] = e /\ \A i \in 1..Len(s) : t[i + 1] = s[i]
  OBVIOUS
<1> HIDE DEF t
<1>2. \A i \in 1..Len(t) : i = 1 \/ (i > 1 /\ i - 1 \in 1..Len(s) /\ t[i] = s[i - 1])
  BY <1>0, <1>1
<1>3. \A i \in 1..Len(s) : s[i] # e
  BY <1>0 DEF ToSet
<1>4. Once(t)
  BY <1>0, <1>1, <1>2, <1>3 DEF Once
<1>5. DOMAIN t = 1..Len(t)
  BY <1>1
<1>6. ToSet(t) = ToSet(s) \cup {e}
  <2>1. \A i \in 1..Len(t) : t[i] \in ToSet(s) \cup {e}
    BY <1>0, <1>1, <1>2 DEF ToSet
  <2>2. e \in ToSet(t)
    BY <1>0, <1>1, <1>5 DEF ToSet
  <2>3. \A i \in 1..Len(s) : s[i] \in ToSet(t)
    BY <1>0, <1>1, <1>5 DEF ToSet
  <2> QED
    BY <1>0, <1>5, <2>1, <2>2, <2>3 DEF ToSet
<1> QED
  BY <1>1, <1>4, <1>6 DEF t

\* Each block once: as many as the list is long.
LEMMA OnceCounts ==
    ASSUME NEW S, NEW s \in Seq(S), Once(s)
    PROVE  IsFiniteSet(ToSet(s)) /\ Cardinality(ToSet(s)) = Len(s)
<1>0. Len(s) \in Nat /\ DOMAIN s = 1..Len(s)
  OBVIOUS
<1>1. s \in Bijection(1..Len(s), ToSet(s))
  <2>1. s \in [1..Len(s) -> ToSet(s)]
    BY <1>0 DEF ToSet
  <2>2. \A e \in ToSet(s) : \E i \in 1..Len(s) : s[i] = e
    BY <1>0 DEF ToSet
  <2>3. s \in Injection(1..Len(s), ToSet(s))
    BY <2>1 DEF Once, Injection, IsInjective
  <2>4. s \in Surjection(1..Len(s), ToSet(s))
    BY <2>1, <2>2 DEF Surjection
  <2> QED
    BY <2>3, <2>4 DEF Bijection
<1>2. ExistsBijection(1..Len(s), ToSet(s))
  BY <1>1 DEF ExistsBijection
<1>3. IsFiniteSet(1..Len(s)) /\ Cardinality(1..Len(s)) = Len(s)
  BY <1>0, FS_Interval
<1> QED
  BY <1>0, <1>2, <1>3, FS_Bijection

----------------------------------------------------------------------------
(* Blocks that tile a range: sizes z, footers ft, the end e of the heap *)

Tile(z, ft, e, B) ==
    /\ z \in [Addr -> Nat] /\ ft \in [Addr -> Nat] /\ e \in Addr
    /\ B \subseteq Addr /\ HEAP_START \in B \cup {e}
    /\ \A b \in B : /\ z[b] >= MIN_BLOCK /\ z[b] % ALIGNMENT = 0
                    /\ b < e /\ b + z[b] \in B \cup {e}
                    /\ ft[b + z[b]] = z[b]
    /\ \A b, c \in B : c > b => c >= b + z[b]

LEMMA Sizes ==
    /\ MIN_BLOCK \in Nat /\ MIN_BLOCK > FTR /\ FTR \in Nat \ {0} /\ HDR \in Nat \ {0}
    /\ HEAP_START \in Nat \ {0} /\ HEAP_MAX \in Nat /\ ALIGNMENT \in Nat \ {0}
    /\ Addr \subseteq Nat /\ \A a \in Addr : a >= HEAP_START
    /\ \A a, b \in Addr : \A n \in Nat : a <= n /\ n <= b => n \in Addr
  BY HeapAssumption DEF MIN_BLOCK, Addr

\* Where a block begins and ends.
LEMMA TileBounds ==
    ASSUME NEW z, NEW ft, NEW e, NEW B, Tile(z, ft, e, B), NEW b \in B
    PROVE  /\ b \in Nat /\ b \in Addr /\ z[b] \in Nat /\ z[b] > 0 /\ e \in Nat /\ e \in Addr
           /\ b + z[b] \in Addr /\ b + z[b] <= e
           /\ \A c \in B : /\ c + z[c] = b + z[b] => c = b
                           /\ c < b \/ c = b \/ c >= b + z[b]
<1>1. /\ b \in Nat /\ b \in Addr /\ z[b] \in Nat /\ z[b] > 0 /\ e \in Nat /\ e \in Addr
      /\ b + z[b] \in B \cup {e} /\ b < e
  BY Sizes DEF Tile
<1>2. b + z[b] \in Addr /\ b + z[b] <= e
  BY <1>1, Sizes DEF Tile
<1>3. ASSUME NEW c \in B
      PROVE  /\ c + z[c] = b + z[b] => c = b
             /\ c < b \/ c = b \/ c >= b + z[b]
  <2>1. c \in Nat /\ z[c] \in Nat /\ z[c] > 0
    BY Sizes DEF Tile
  <2>2. (c > b => c >= b + z[b]) /\ (b > c => b >= c + z[c])
    BY DEF Tile
  <2> QED
    BY <1>1, <2>1, <2>2
<1> QED
  BY <1>1, <1>2, <1>3

\* Only what is written at the ends of blocks matters.
LEMMA TileSame ==
    ASSUME NEW z, NEW ft, NEW e, NEW B, Tile(z, ft, e, B),
           NEW y \in [Addr -> Nat], NEW gt \in [Addr -> Nat],
           \A b \in B : y[b] = z[b] /\ gt[b + z[b]] = ft[b + z[b]]
    PROVE  Tile(y, gt, e, B)
  BY DEF Tile

\* A block swallows the one after it.
LEMMA TileMerge ==
    ASSUME NEW z, NEW ft, NEW e, NEW B, Tile(z, ft, e, B), NEW b \in B, b + z[b] \in B
    PROVE  LET n == b + z[b]
               m == z[b] + z[n]
           IN  /\ b + m \in Addr /\ n # b
               /\ Tile([z EXCEPT ![b] = m], [ft EXCEPT ![b + m] = m], e, B \ {n})
<1> DEFINE n == b + z[b]
           m == z[b] + z[n]
           y == [z EXCEPT ![b] = m]
           gt == [ft EXCEPT ![b + m] = m]
<1>1. /\ b \in Nat /\ b \in Addr /\ z[b] \in Nat /\ z[b] > 0 /\ n \in B
      /\ n \in Nat /\ z[n] \in Nat /\ z[n] > 0 /\ n + z[n] \in Addr /\ n # b
      /\ n > b /\ e \in Addr
  BY TileBounds
<1>2. m \in Nat /\ b + m = n + z[n]
  <2>1. z[n] \in Nat
    BY <1>1
  <2> QED
    BY <1>1, <2>1
<1>3. m >= MIN_BLOCK /\ m % ALIGNMENT = 0
  <2>1. /\ z[b] % ALIGNMENT = 0 /\ z[n] % ALIGNMENT = 0 /\ z[b] >= MIN_BLOCK
    BY <1>1 DEF Tile
  <2>2. m % ALIGNMENT = 0
    BY <1>1, <2>1, Sizes, MultSum
  <2> HIDE DEF n
  <2> QED
    BY <1>1, <2>1, <2>2, Sizes
<1> HIDE DEF m
<1>4. y \in [Addr -> Nat] /\ gt \in [Addr -> Nat] /\ b + m \in Addr
      /\ y[b] = m /\ gt[b + m] = m /\ \A c \in B : c # b => y[c] = z[c]
      /\ \A a \in Addr : a # b + m => gt[a] = ft[a]
  BY <1>1, <1>2 DEF Tile
<1>5. HEAP_START \in (B \ {n}) \cup {e}
  BY <1>1, Sizes DEF Tile
<1>6. ASSUME NEW c \in B \ {n}
      PROVE  /\ y[c] >= MIN_BLOCK /\ y[c] % ALIGNMENT = 0
             /\ c < e /\ c + y[c] \in (B \ {n}) \cup {e}
             /\ gt[c + y[c]] = y[c]
  <2>0. c < e /\ n + z[n] \in B \cup {e}
    BY <1>1 DEF Tile
  <2>1. CASE c = b
    <3>1. b + m # n
      BY <1>1, <1>2
    <3> QED
      BY <1>2, <1>3, <1>4, <2>0, <2>1, <3>1
  <2>2. CASE c # b
    <3>1. c + z[c] # b + z[b] /\ c + z[c] # n + z[n] /\ c + z[c] \in Addr
      BY <1>1, <2>2, TileBounds
    <3>2. /\ z[c] >= MIN_BLOCK /\ z[c] % ALIGNMENT = 0 /\ c + z[c] \in B \cup {e}
          /\ ft[c + z[c]] = z[c]
      BY DEF Tile
    <3>3. y[c] = z[c] /\ gt[c + z[c]] = ft[c + z[c]]
      BY <1>2, <1>4, <2>2, <3>1
    <3> HIDE DEF y, gt
    <3> QED
      BY <2>0, <3>1, <3>2, <3>3
  <2> QED
    BY <2>1, <2>2
<1>7. ASSUME NEW c \in B \ {n}, NEW d \in B \ {n}, d > c
      PROVE  d >= c + y[c]
  <2>1. CASE c = b
    <3>1. d \in Nat /\ (d < n \/ d = n \/ d >= n + z[n]) /\ d >= b + z[b]
      BY <1>1, <1>7, <2>1, TileBounds DEF Tile
    <3> QED
      BY <1>1, <1>2, <1>4, <2>1, <3>1
  <2>2. CASE c # b
    BY <1>4, <1>7, <2>2 DEF Tile
  <2> QED
    BY <2>1, <2>2
<1>8. Tile(y, gt, e, B \ {n})
  <2> HIDE DEF y, gt, n
  <2>1. B \ {n} \subseteq Addr
    BY DEF Tile
  <2> QED
    BY <1>1, <1>4, <1>5, <1>6, <1>7, <2>1 DEF Tile
<1> QED
  BY <1>1, <1>4, <1>8 DEF m

\* A block is split in two.
LEMMA TileSplit ==
    ASSUME NEW z, NEW ft, NEW e, NEW B, Tile(z, ft, e, B), NEW b \in B, NEW t \in Nat,
           t >= MIN_BLOCK, t % ALIGNMENT = 0, z[b] >= t + MIN_BLOCK
    PROVE  LET n == b + t
               r == z[b] - t
           IN  /\ r \in Nat /\ n \in Addr /\ n + r = b + z[b] /\ n \notin B
               /\ Tile([[z EXCEPT ![n] = r] EXCEPT ![b] = t],
                       [[ft EXCEPT ![n + r] = r] EXCEPT ![b + t] = t], e, B \cup {n})
<1> DEFINE n == b + t
           r == z[b] - t
           y == [[z EXCEPT ![n] = r] EXCEPT ![b] = t]
           gt == [[ft EXCEPT ![n + r] = r] EXCEPT ![b + t] = t]
<1>1. /\ b \in Nat /\ b \in Addr /\ z[b] \in Nat /\ z[b] > 0
      /\ b + z[b] \in Addr /\ b + z[b] <= e /\ e \in Addr /\ e \in Nat
  BY TileBounds
<1>2. r \in Nat /\ r >= MIN_BLOCK /\ r % ALIGNMENT = 0
  <2>1. z[b] % ALIGNMENT = 0 /\ z[b] >= t
    BY <1>1, Sizes DEF Tile
  <2>2. r % ALIGNMENT = 0
    BY <1>1, <2>1, Sizes, MultSum
  <2> QED
    BY <1>1, <2>1, <2>2, Sizes
<1>3. n \in Nat /\ n + r = b + z[b] /\ n > b /\ n < b + z[b]
  BY <1>1, <1>2, Sizes
<1>4. n \in Addr /\ n \notin B
  <2>1. n \in Addr
    BY <1>1, <1>3, Sizes
  <2>2. n \notin B
    BY <1>1, <1>3, TileBounds
  <2> QED
    BY <2>1, <2>2
<1> HIDE DEF n, r
<1>5. /\ y \in [Addr -> Nat] /\ gt \in [Addr -> Nat] /\ y[b] = t /\ y[n] = r
      /\ gt[n] = t /\ gt[n + r] = r /\ \A c \in B : c # b => y[c] = z[c]
      /\ \A a \in Addr : a # n /\ a # n + r => gt[a] = ft[a]
  <2>1. n = b + t /\ n + r \in Addr /\ n # b /\ n + r # n
    BY <1>1, <1>2, <1>3, Sizes DEF n
  <2> QED
    BY <1>1, <1>2, <1>3, <1>4, <2>1 DEF Tile
<1> HIDE DEF y, gt
<1>6. ASSUME NEW c \in B \cup {n}
      PROVE  /\ y[c] >= MIN_BLOCK /\ y[c] % ALIGNMENT = 0
             /\ c < e /\ c + y[c] \in B \cup {n} \cup {e}
             /\ gt[c + y[c]] = y[c]
  <2>1. CASE c = n
    BY <1>1, <1>2, <1>3, <1>5, <2>1 DEF Tile
  <2>2. CASE c = b
    <3>1. b + t = n
      BY DEF n
    <3> QED
      BY <1>1, <1>5, <2>2, <3>1 DEF Tile
  <2>3. CASE c # n /\ c # b
    <3>1. /\ c + z[c] # b + z[b] /\ c + z[c] \in Addr
      BY <1>1, <2>3, TileBounds
    <3>2. /\ z[c] >= MIN_BLOCK /\ z[c] % ALIGNMENT = 0 /\ c + z[c] \in B \cup {e}
          /\ ft[c + z[c]] = z[c] /\ c < e
      BY <2>3 DEF Tile
    <3>3. c + z[c] # n
      BY <1>1, <1>3, <1>4, <3>2
    <3>4. y[c] = z[c] /\ gt[c + z[c]] = ft[c + z[c]]
      BY <1>3, <1>5, <2>3, <3>1, <3>3
    <3> QED
      BY <3>2, <3>4
  <2> QED
    BY <2>1, <2>2, <2>3
<1>7. ASSUME NEW c \in B \cup {n}, NEW d \in B \cup {n}, d > c
      PROVE  d >= c + y[c]
  <2>1. CASE c = n /\ d # n
    <3>1. d \in Nat /\ (d < b \/ d = b \/ d >= b + z[b])
      BY <2>1, TileBounds
    <3> QED
      BY <1>1, <1>3, <1>5, <1>7, <2>1, <3>1
  <2>2. CASE c = b /\ d # n
    <3>1. d >= b + z[b] /\ d \in Nat
      BY <1>7, <2>2, TileBounds DEF Tile
    <3>2. b + t = n
      BY DEF n
    <3> QED
      BY <1>1, <1>3, <1>5, <2>2, <3>1, <3>2
  <2>3. CASE c = b /\ d = n
    BY <1>3, <1>5, <2>3 DEF n
  <2>4. CASE c # b /\ c # n /\ d = n
    <3>1. c \in Nat /\ z[c] \in Nat /\ (c < b \/ c = b \/ c >= b + z[b])
      BY <2>4, TileBounds
    <3>2. c < b
      BY <1>1, <1>3, <1>7, <2>4, <3>1
    <3>3. b >= c + z[c]
      BY <2>4, <3>2 DEF Tile
    <3> QED
      BY <1>1, <1>3, <1>5, <2>4, <3>1, <3>3
  <2>5. CASE c # b /\ c # n /\ d # n
    BY <1>5, <1>7, <2>5 DEF Tile
  <2>6. CASE c = n /\ d = n
    BY <1>3, <1>7, <2>6
  <2> QED
    BY <2>1, <2>2, <2>3, <2>4, <2>5, <2>6
<1>8. Tile(y, gt, e, B \cup {n})
  <2>1. B \cup {n} \subseteq Addr /\ HEAP_START \in B \cup {n} \cup {e}
    BY <1>4 DEF Tile
  <2> QED
    BY <1>1, <1>5, <1>6, <1>7, <2>1 DEF Tile
<1> QED
  BY <1>2, <1>3, <1>4, <1>8 DEF y, gt, n, r

\* A block is added at the end.
LEMMA TileExtend ==
    ASSUME NEW z, NEW ft, NEW e, NEW B, Tile(z, ft, e, B), NEW n \in Nat,
           n >= MIN_BLOCK, n % ALIGNMENT = 0, e + n \in Addr
    PROVE  /\ e \notin B
           /\ Tile([z EXCEPT ![e] = n], [ft EXCEPT ![e + n] = n], e + n, B \cup {e})
<1> DEFINE y == [z EXCEPT ![e] = n]
           gt == [ft EXCEPT ![e + n] = n]
<1>0. e \in Nat /\ e \in Addr /\ n > 0
  BY Sizes DEF Tile
<1>1. e \notin B
  BY <1>0 DEF Tile
<1>2. /\ y \in [Addr -> Nat] /\ gt \in [Addr -> Nat] /\ y[e] = n /\ gt[e + n] = n
      /\ \A c \in B : y[c] = z[c]
      /\ \A a \in Addr : a # e + n => gt[a] = ft[a]
  BY <1>0, <1>1 DEF Tile
<1> HIDE DEF y, gt
<1>3. ASSUME NEW c \in B
      PROVE  /\ c \in Nat /\ z[c] \in Nat /\ c + z[c] \in Addr /\ c + z[c] <= e
             /\ c + z[c] # e + n /\ c < e
  <2>1. c \in Nat /\ z[c] \in Nat /\ c + z[c] \in Addr /\ c + z[c] <= e
    BY TileBounds
  <2>2. c < e
    BY DEF Tile
  <2> QED
    BY <1>0, <2>1, <2>2
<1>4. ASSUME NEW c \in B \cup {e}
      PROVE  /\ y[c] >= MIN_BLOCK /\ y[c] % ALIGNMENT = 0
             /\ c < e + n /\ c + y[c] \in B \cup {e} \cup {e + n}
             /\ gt[c + y[c]] = y[c]
  <2>1. CASE c = e
    BY <1>0, <1>2, <2>1
  <2>2. CASE c # e
    BY <1>0, <1>2, <1>3, <2>2 DEF Tile
  <2> QED
    BY <2>1, <2>2
<1>5. ASSUME NEW c \in B \cup {e}, NEW d \in B \cup {e}, d > c
      PROVE  d >= c + y[c]
  <2>1. CASE c = e
    BY <1>0, <1>3, <1>5, <2>1
  <2>2. CASE c # e
    BY <1>0, <1>2, <1>3, <1>5, <2>2 DEF Tile
  <2> QED
    BY <2>1, <2>2
<1>6. B \cup {e} \subseteq Addr /\ HEAP_START \in B \cup {e} \cup {e + n}
  BY <1>0 DEF Tile
<1> QED
  BY <1>1, <1>2, <1>4, <1>5, <1>6 DEF Tile, y, gt

\* Every block but the first has one that ends where it begins.
LEMMA TilePrev ==
    ASSUME NEW z, NEW ft, NEW e, NEW B, Tile(z, ft, e, B), NEW b \in B, b # HEAP_START
    PROVE  \E p \in B : p + z[p] = b
<1> DEFINE below == {c \in B : c < b}
           gaps == {b - c : c \in below}
<1>0. b \in Nat /\ b > HEAP_START /\ e \in Nat /\ b < e /\ HEAP_START \in Nat
  BY Sizes, TileBounds DEF Tile
<1>1. HEAP_START \in below
  BY <1>0 DEF Tile
<1>2. gaps \subseteq Nat /\ gaps # {}
  <2>1. \A c \in below : b - c \in Nat
    BY <1>0, Sizes DEF Tile
  <2> QED
    BY <1>1, <2>1
<1>3. PICK p \in below : \A c \in below : b - p <= b - c
  <2>1. PICK g \in gaps : \A k \in gaps : g <= k
    <3> HIDE DEF gaps
    <3> QED
      BY <1>2, LeastNatural
  <2> QED
    BY <2>1
<1>4. /\ p \in B /\ p \in Nat /\ z[p] \in Nat /\ z[p] > 0 /\ p < b
      /\ p + z[p] \in B \cup {e} /\ b >= p + z[p]
  BY TileBounds DEF Tile
<1>5. p + z[p] \in below => FALSE
  <2>1. p + z[p] \in below => b - p <= b - (p + z[p])
    BY <1>3
  <2> QED
    BY <1>0, <1>4, <2>1
<1> QED
  BY <1>0, <1>4, <1>5

----------------------------------------------------------------------------
(* The block operations *)

HeapValue == [size : [Addr -> Nat], free : [Addr -> BOOLEAN], footer : [Addr -> Nat],
              list : Seq(Addr), end : Addr]

listed(h) == ToSet(h.list)

\* D are callers' blocks, X is a block on its way from a caller, or from grow_heap(),
\* to the list.
Good(h, D, X) ==
    /\ h \in HeapValue
    /\ Once(h.list)
    /\ D \cap listed(h) = {} /\ X \cap (D \cup listed(h)) = {}
    /\ Tile(h.size, h.footer, h.end, D \cup listed(h) \cup X)
    /\ \A b \in D : ~h.free[b]
    /\ \A b \in listed(h) : h.free[b] /\ b + h.size[b] \notin listed(h)

LEMMA WriteTagsIs ==
    ASSUME NEW h \in HeapValue, NEW b \in Addr, NEW n \in Nat, b + n \in Addr, NEW f \in BOOLEAN
    PROVE  LET g == write_tags(h, b, n, f)
           IN  /\ g \in HeapValue
               /\ g.size = [h.size EXCEPT ![b] = n] /\ g.footer = [h.footer EXCEPT ![b + n] = n]
               /\ g.free = [h.free EXCEPT ![b] = f]
               /\ g.list = h.list /\ g.end = h.end
  BY DEF write_tags, HeapValue

\* write_tags() with either flag.
tag_free(h, b, n) == write_tags(h, b, n, TRUE)
tag_taken(h, b, n) == write_tags(h, b, n, FALSE)

LEMMA WriteTagsFree ==
    ASSUME NEW h \in HeapValue, NEW b \in Addr, NEW n \in Nat, b + n \in Addr
    PROVE  LET g == tag_free(h, b, n)
           IN  /\ g \in HeapValue
               /\ g.size = [h.size EXCEPT ![b] = n] /\ g.footer = [h.footer EXCEPT ![b + n] = n]
               /\ g.free = [h.free EXCEPT ![b] = TRUE]
               /\ g.list = h.list /\ g.end = h.end
  BY DEF tag_free, tag_taken, write_tags, HeapValue

LEMMA WriteTagsTaken ==
    ASSUME NEW h \in HeapValue, NEW b \in Addr, NEW n \in Nat, b + n \in Addr
    PROVE  LET g == tag_taken(h, b, n)
           IN  /\ g \in HeapValue
               /\ g.size = [h.size EXCEPT ![b] = n] /\ g.footer = [h.footer EXCEPT ![b + n] = n]
               /\ g.free = [h.free EXCEPT ![b] = FALSE]
               /\ g.list = h.list /\ g.end = h.end
  BY DEF tag_free, tag_taken, write_tags, HeapValue

LEMMA RemoveBlockIs ==
    ASSUME NEW h \in HeapValue, Once(h.list), NEW b
    PROVE  LET g == remove_block_from_free_list(h, b)
           IN  /\ g \in HeapValue /\ g.size = h.size /\ g.footer = h.footer
               /\ g.free = h.free /\ g.end = h.end
               /\ Once(g.list) /\ listed(g) = listed(h) \ {b}
<1> DEFINE l == RemoveFirst(h.list, b)
<1>1. h.list \in Seq(Addr)
  BY DEF HeapValue
<1>2. l \in Seq(Addr) /\ Once(l) /\ ToSet(l) = ToSet(h.list) \ {b}
  BY <1>1, RemoveIs
<1>3. remove_block_from_free_list(h, b) = [h EXCEPT !.list = l]
  BY DEF remove_block_from_free_list
<1> HIDE DEF l
<1> QED
  BY <1>2, <1>3 DEF HeapValue, listed

LEMMA AddBlockIs ==
    ASSUME NEW h \in HeapValue, Once(h.list), NEW b \in Addr, b \notin listed(h)
    PROVE  LET g == add_block_to_free_list(h, b)
           IN  /\ g \in HeapValue /\ g.size = h.size /\ g.footer = h.footer
               /\ g.free = [h.free EXCEPT ![b] = TRUE] /\ g.end = h.end
               /\ Once(g.list) /\ listed(g) = listed(h) \cup {b}
<1> DEFINE l == <<b>> \o h.list
           f == [h.free EXCEPT ![b] = TRUE]
<1>1. h.list \in Seq(Addr) /\ f \in [Addr -> BOOLEAN]
  BY DEF HeapValue
<1>2. l \in Seq(Addr) /\ Once(l) /\ ToSet(l) = ToSet(h.list) \cup {b}
  BY <1>1, PrependIs DEF listed
<1>3. add_block_to_free_list(h, b) = [h EXCEPT !.free = f, !.list = l]
  BY DEF add_block_to_free_list
<1> HIDE DEF l, f
<1>4. LET g == add_block_to_free_list(h, b)
      IN  /\ g \in HeapValue /\ g.size = h.size /\ g.footer = h.footer
          /\ g.free = f /\ g.end = h.end /\ g.list = l
  BY <1>1, <1>2, <1>3 DEF HeapValue
<1> QED
  BY <1>2, <1>4 DEF listed, f

\* What the sizes of D were, they are.
Keeps(h, g, D) == g.end = h.end /\ \A b \in D : g.size[b] = h.size[b]

LEMMA MergeNextKeeps ==
    ASSUME NEW h, NEW D, NEW b, Good(h, D, {b})
    PROVE  LET g == merge_next(h, b)
           IN  /\ Good(g, D, {b}) /\ Keeps(h, g, D)
               /\ g.size[b] >= h.size[b] /\ b + g.size[b] \notin listed(g)
<1> DEFINE B == D \cup listed(h) \cup {b}
           n == b + h.size[b]
           g == merge_next(h, b)
<1>0. /\ h \in HeapValue /\ Once(h.list) /\ Tile(h.size, h.footer, h.end, B) /\ b \in B
      /\ h.free \in [Addr -> BOOLEAN] /\ h.size \in [Addr -> Nat]
      /\ b \notin D /\ b \notin listed(h) /\ D \cap listed(h) = {}
  BY DEF Good, HeapValue
<1> HIDE DEF B
<1>1. /\ b \in Addr /\ b \in Nat /\ h.size[b] \in Nat /\ h.size[b] > 0 /\ n \in B \cup {h.end}
      /\ n \in Addr /\ h.end \in Nat
      /\ \A c \in B : c \in Addr /\ c < h.end
  <2>1. n \in B \cup {h.end} /\ \A c \in B : c \in Addr /\ c < h.end
    BY <1>0 DEF Tile
  <2> QED
    BY <1>0, <2>1, TileBounds
<1>2. CASE n < h.end /\ h.free[n]
  <2> DEFINE k == remove_block_from_free_list(h, n)
             m == h.size[b] + h.size[n]
  <2>1. n \in B /\ n # b /\ n \in listed(h)
    <3>1. n \in B /\ n # b
      BY <1>1, <1>2
    <3>2. \A c \in D : ~h.free[c]
      BY DEF Good
    <3> QED
      BY <1>2, <3>1, <3>2 DEF B
  <2>2. g = write_tags(k, b, m, h.free[b])
    BY <1>2 DEF merge_next, next_block
  <2>3. /\ k \in HeapValue /\ k.size = h.size /\ k.footer = h.footer
        /\ k.free = h.free /\ k.end = h.end
        /\ Once(k.list) /\ listed(k) = listed(h) \ {n}
    BY <1>0, RemoveBlockIs
  <2>4. /\ m \in Nat /\ b + m \in Addr /\ b + m = n + h.size[n] /\ h.size[n] > 0
        /\ m >= h.size[b]
        /\ Tile([h.size EXCEPT ![b] = m], [h.footer EXCEPT ![b + m] = m], h.end, B \ {n})
    <3>1. h.size[n] \in Nat /\ h.size[n] > 0
      BY <1>0, <2>1, TileBounds
    <3>2. b + m \in Addr
          /\ Tile([h.size EXCEPT ![b] = m], [h.footer EXCEPT ![b + m] = m], h.end, B \ {n})
      BY <1>0, <2>1, TileMerge
    <3> QED
      BY <1>1, <3>1, <3>2
  <2> HIDE DEF k, m
  <2>5. /\ g \in HeapValue /\ g.size = [h.size EXCEPT ![b] = m]
        /\ g.footer = [h.footer EXCEPT ![b + m] = m] /\ g.free = h.free
        /\ g.list = k.list /\ g.end = h.end
    <3>1. h.free[b] \in BOOLEAN
      BY <1>0, <1>1
    <3>2. /\ g \in HeapValue /\ g.size = [k.size EXCEPT ![b] = m]
          /\ g.footer = [k.footer EXCEPT ![b + m] = m]
          /\ g.free = [k.free EXCEPT ![b] = h.free[b]] /\ g.list = k.list /\ g.end = k.end
      BY <1>1, <2>2, <2>3, <2>4, <3>1, WriteTagsIs
    <3>3. [h.free EXCEPT ![b] = h.free[b]] = h.free
      BY <1>0
    <3> QED
      BY <2>3, <3>2, <3>3
  <2> HIDE DEF g
  <2>6. listed(g) = listed(h) \ {n} /\ D \cup listed(g) \cup {b} = B \ {n}
    <3>1. listed(g) = listed(h) \ {n}
      BY <2>3, <2>5 DEF listed
    <3> QED
      BY <1>0, <2>1, <3>1 DEF B
  <2>7. /\ g.size[b] = m /\ \A c \in Addr : c # b => g.size[c] = h.size[c]
    BY <1>0, <1>1, <2>4, <2>5
  <2>8. \A c \in listed(h) : h.free[c] /\ c + h.size[c] \notin listed(h) /\ c \in Addr
    BY <1>1 DEF Good, B
  <2>9. \A c \in listed(g) : g.free[c] /\ c + g.size[c] \notin listed(g)
    BY <1>0, <2>5, <2>6, <2>7, <2>8
  <2>10. \A c \in D : ~g.free[c] /\ g.size[c] = h.size[c]
    BY <1>0, <1>1, <2>5, <2>7 DEF Good, B
  <2>11. g.size[b] >= h.size[b] /\ b + g.size[b] \notin listed(g)
    <3>1. g.size[b] >= h.size[b]
      BY <2>4, <2>7
    <3> QED
      BY <2>1, <2>4, <2>6, <2>7, <2>8, <3>1
  <2>12. D \cap listed(g) = {} /\ {b} \cap (D \cup listed(g)) = {} /\ Once(g.list)
    BY <1>0, <2>3, <2>5, <2>6
  <2>13. Tile(g.size, g.footer, g.end, D \cup listed(g) \cup {b})
    BY <2>4, <2>5, <2>6
  <2> QED
    BY <2>5, <2>9, <2>10, <2>11, <2>12, <2>13 DEF Good, Keeps, g
<1>3. CASE ~(n < h.end /\ h.free[n])
  <2>1. g = h
    BY <1>3 DEF merge_next, next_block
  <2>2. n \notin listed(h)
    <3>1. ASSUME n \in listed(h) PROVE n \in B /\ h.free[n]
      BY <3>1 DEF Good, B
    <3> QED
      BY <1>1, <1>3, <3>1
  <2> HIDE DEF g
  <2> QED
    BY <1>1, <2>1, <2>2 DEF Keeps, g
<1> QED
  BY <1>2, <1>3

\* prev_block() is the block that ends where b begins.
LEMMA PrevBlockIs ==
    ASSUME NEW h, NEW B, Tile(h.size, h.footer, h.end, B), NEW b \in B
    PROVE  /\ b = HEAP_START => prev_block(h, b) = 0
           /\ b # HEAP_START => /\ prev_block(h, b) \in B /\ prev_block(h, b) # 0
                                /\ prev_block(h, b) + h.size[prev_block(h, b)] = b
<1>1. CASE b = HEAP_START
  BY <1>1, Sizes DEF prev_block
<1>2. CASE b # HEAP_START
  <2>1. PICK p \in B : p + h.size[p] = b
    BY <1>2, TilePrev
  <2>2. p \in Nat /\ h.size[p] \in Nat /\ p >= HEAP_START /\ b \in Nat
    BY TileBounds, Sizes
  <2>3. h.footer[b] = h.size[p] /\ h.size[p] >= MIN_BLOCK
    BY <2>1 DEF Tile
  <2>4. /\ ~(b < HEAP_START + FTR) /\ ~(b < HEAP_START + h.footer[b])
        /\ b - h.footer[b] = p /\ p # 0
    BY <2>1, <2>2, <2>3, Sizes
  <2>5. prev_block(h, b) = p
    BY <2>4 DEF prev_block
  <2> QED
    BY <1>2, <2>1, <2>4, <2>5
<1> QED
  BY <1>1, <1>2

LEMMA MergePrevKeeps ==
    ASSUME NEW h, NEW D, NEW b, Good(h, D, {b}), b + h.size[b] \notin listed(h)
    PROVE  LET g == merge_prev(h, b)
           IN  /\ Good(g, D, {}) /\ Keeps(h, g, D)
               /\ \E c \in listed(g) : g.size[c] >= h.size[b]
<1> DEFINE B == D \cup listed(h) \cup {b}
           p == prev_block(h, b)
           g == merge_prev(h, b)
<1>0. /\ h \in HeapValue /\ Once(h.list) /\ Tile(h.size, h.footer, h.end, B) /\ b \in B
      /\ h.free \in [Addr -> BOOLEAN] /\ h.size \in [Addr -> Nat]
      /\ b \notin D /\ b \notin listed(h) /\ D \cap listed(h) = {}
  BY DEF Good, HeapValue
<1>1. /\ \A c \in D : ~h.free[c]
      /\ \A c \in listed(h) : h.free[c] /\ c + h.size[c] \notin listed(h)
      /\ D \subseteq B /\ listed(h) \subseteq B /\ \A c \in B : c = b \/ c \in D \/ c \in listed(h)
  BY DEF Good
<1>2. B \ {b} = D \cup listed(h)
  BY <1>0
<1> HIDE DEF B
<1>3. \A c \in B : /\ c \in Addr /\ c \in Nat /\ h.size[c] \in Nat /\ h.size[c] > 0
  BY <1>0, TileBounds
<1>4. CASE p # 0 /\ h.free[p]
  <2> DEFINE k == remove_block_from_free_list(h, p)
             m == h.size[p] + h.size[b]
             w == tag_free(k, p, m)
  <2>1. p \in B /\ p + h.size[p] = b /\ p # b /\ p \in listed(h)
    <3>1. p \in B /\ p + h.size[p] = b
      BY <1>0, <1>4, PrevBlockIs
    <3>2. p # b
      BY <1>3, <3>1
    <3> QED
      BY <1>1, <1>4, <3>1, <3>2
  <2>2. g = add_block_to_free_list(w, p)
    BY <1>4 DEF merge_prev, tag_free
  <2>3. /\ k \in HeapValue /\ k.size = h.size /\ k.footer = h.footer
        /\ k.free = h.free /\ k.end = h.end
        /\ Once(k.list) /\ listed(k) = listed(h) \ {p}
    BY <1>0, RemoveBlockIs
  <2> HIDE DEF p
  <2>4. /\ m \in Nat /\ p + m \in Addr /\ p + m = b + h.size[b] /\ m >= h.size[b]
        /\ Tile([h.size EXCEPT ![p] = m], [h.footer EXCEPT ![p + m] = m], h.end, B \ {b})
    <3>1. p + m \in Addr
          /\ Tile([h.size EXCEPT ![p] = m], [h.footer EXCEPT ![p + m] = m], h.end, B \ {b})
      BY <1>0, <2>1, TileMerge
    <3> QED
      BY <1>0, <1>3, <2>1, <3>1
  <2> HIDE DEF k, m
  <2>5. /\ w \in HeapValue /\ w.size = [h.size EXCEPT ![p] = m]
        /\ w.footer = [h.footer EXCEPT ![p + m] = m]
        /\ w.free = [h.free EXCEPT ![p] = TRUE] /\ w.list = k.list /\ w.end = h.end
    <3>1. p \in Addr
      BY <1>3, <2>1
    <3>2. /\ w \in HeapValue /\ w.size = [k.size EXCEPT ![p] = m]
          /\ w.footer = [k.footer EXCEPT ![p + m] = m]
          /\ w.free = [k.free EXCEPT ![p] = TRUE] /\ w.list = k.list /\ w.end = k.end
      BY <2>3, <2>4, <3>1, WriteTagsFree
    <3> QED
      BY <2>3, <3>2
  <2> HIDE DEF w
  <2>6. /\ g \in HeapValue /\ g.size = w.size /\ g.footer = w.footer
        /\ g.free = [w.free EXCEPT ![p] = TRUE] /\ g.end = h.end
        /\ Once(g.list) /\ listed(g) = listed(h)
    <3>1. listed(w) = listed(h) \ {p} /\ Once(w.list)
      BY <2>3, <2>5 DEF listed
    <3>2. /\ g \in HeapValue /\ g.size = w.size /\ g.footer = w.footer
          /\ g.free = [w.free EXCEPT ![p] = TRUE] /\ g.end = w.end
          /\ Once(g.list) /\ listed(g) = listed(w) \cup {p}
      BY <1>3, <2>1, <2>2, <2>5, <3>1, AddBlockIs
    <3> QED
      BY <2>1, <2>5, <3>1, <3>2
  <2> HIDE DEF g
  <2>7. /\ g.size[p] = m /\ \A c \in B : c # p => g.size[c] = h.size[c]
        /\ g.free[p] /\ \A c \in B : c # p => g.free[c] = h.free[c]
    BY <1>0, <1>3, <2>1, <2>4, <2>5, <2>6
  <2>8. ASSUME NEW c \in listed(g) PROVE g.free[c] /\ c + g.size[c] \notin listed(g)
    <3>1. CASE c = p
      BY <2>4, <2>6, <2>7, <3>1
    <3>2. CASE c # p
      BY <1>1, <2>6, <2>7, <3>2
    <3> QED
      BY <3>1, <3>2
  <2>9. \A c \in D : ~g.free[c] /\ g.size[c] = h.size[c]
    BY <1>0, <1>1, <2>1, <2>7
  <2>10. Tile(g.size, g.footer, g.end, D \cup listed(g) \cup {})
    <3>1. D \cup listed(g) \cup {} = B \ {b}
      BY <1>2, <2>6
    <3> QED
      BY <2>4, <2>5, <2>6, <3>1
  <2>11. g.size[p] >= h.size[b] /\ p \in listed(g)
    BY <2>1, <2>4, <2>6, <2>7
  <2> QED
    BY <1>0, <2>6, <2>8, <2>9, <2>10, <2>11 DEF Good, Keeps, g
<1>5. CASE ~(p # 0 /\ h.free[p])
  <2>1. g = add_block_to_free_list(h, b)
    BY <1>5 DEF merge_prev
  <2>2. /\ g \in HeapValue /\ g.size = h.size /\ g.footer = h.footer
        /\ g.free = [h.free EXCEPT ![b] = TRUE] /\ g.end = h.end
        /\ Once(g.list) /\ listed(g) = listed(h) \cup {b}
    BY <1>0, <1>3, <2>1, AddBlockIs
  <2>3. ASSUME NEW c \in listed(h) PROVE c + h.size[c] # b
    <3>1. SUFFICES ASSUME c + h.size[c] = b PROVE FALSE
      OBVIOUS
    <3>2. c \in B /\ b # HEAP_START
      BY <1>1, <1>3, <3>1, Sizes
    <3>3. p \in B /\ p # 0 /\ p + h.size[p] = b
      BY <1>0, <3>2, PrevBlockIs
    <3>4. p = c
      <4> HIDE DEF p
      <4> QED
        BY <1>0, <3>1, <3>2, <3>3, TileBounds
    <3> QED
      BY <1>1, <1>5, <3>3, <3>4
  <2> HIDE DEF g, p
  <2>4. g.free[b] /\ \A c \in B : c # b => g.free[c] = h.free[c]
    BY <1>0, <1>3, <2>2
  <2>5. b + h.size[b] # b
    BY <1>0, <1>3
  <2>6. \A c \in listed(g) : g.free[c] /\ c + g.size[c] \notin listed(g)
    BY <1>1, <1>0, <2>2, <2>3, <2>4, <2>5
  <2>7. \A c \in D : ~g.free[c] /\ g.size[c] = h.size[c]
    BY <1>0, <1>1, <2>2, <2>4
  <2>8. Tile(g.size, g.footer, g.end, D \cup listed(g) \cup {})
    <3>1. D \cup listed(g) \cup {} = B
      BY <2>2 DEF B
    <3> QED
      BY <1>0, <2>2, <3>1
  <2>9. g.size[b] >= h.size[b] /\ b \in listed(g) /\ D \cap listed(g) = {}
    BY <1>0, <1>3, <2>2
  <2> QED
    BY <2>2, <2>6, <2>7, <2>8, <2>9 DEF Good, Keeps, g
<1> QED
  BY <1>4, <1>5

LEMMA CoalesceKeeps ==
    ASSUME NEW h, NEW D, NEW b, Good(h, D, {b})
    PROVE  LET g == coalesce(h, b)
           IN  /\ Good(g, D, {}) /\ Keeps(h, g, D)
               /\ \E c \in listed(g) : g.size[c] >= h.size[b]
<1> DEFINE k == merge_next(h, b)
           g == merge_prev(k, b)
<1>1. /\ Good(k, D, {b}) /\ Keeps(h, k, D)
      /\ k.size[b] >= h.size[b] /\ b + k.size[b] \notin listed(k)
  BY MergeNextKeeps
<1>2. /\ Good(g, D, {}) /\ Keeps(k, g, D) /\ \E c \in listed(g) : g.size[c] >= k.size[b]
  <2> HIDE DEF k
  <2> QED
    BY <1>1, MergePrevKeeps
<1>3. coalesce(h, b) = g
  BY DEF coalesce
<1>4. h.size[b] \in Nat /\ k.size[b] \in Nat
  BY <1>1, TileBounds DEF Good
<1>5. \A c \in listed(g) : g.size[c] \in Nat
  <2> HIDE DEF g
  <2> QED
    BY <1>2, TileBounds DEF Good
<1> HIDE DEF k, g
<1>6. Keeps(h, g, D)
  BY <1>1, <1>2 DEF Keeps
<1> QED
  BY <1>1, <1>2, <1>3, <1>4, <1>5, <1>6

LEMMA CarveKeeps ==
    ASSUME NEW h, NEW D, Good(h, D, {}), NEW b \in listed(h), NEW t \in Nat,
           t >= MIN_BLOCK, t % ALIGNMENT = 0, h.size[b] >= t
    PROVE  LET g == carve(h, b, t)
           IN  Good(g, D \cup {b}, {}) /\ Keeps(h, g, D) /\ g.size[b] >= t
<1> DEFINE B == D \cup listed(h) \cup {}
           k == remove_block_from_free_list(h, b)
           r == h.size[b] - t
           n == b + t
           g == carve(h, b, t)
<1>0. /\ h \in HeapValue /\ Once(h.list) /\ Tile(h.size, h.footer, h.end, B) /\ b \in B
      /\ h.free \in [Addr -> BOOLEAN] /\ h.size \in [Addr -> Nat]
      /\ b \notin D /\ D \cap listed(h) = {}
  BY DEF Good, HeapValue
<1>1. /\ \A c \in D : ~h.free[c]
      /\ \A c \in listed(h) : h.free[c] /\ c + h.size[c] \notin listed(h)
      /\ D \subseteq B /\ listed(h) \subseteq B /\ B = D \cup listed(h)
  BY DEF Good
<1> HIDE DEF B
<1>2. \A c \in B : /\ c \in Addr /\ c \in Nat /\ h.size[c] \in Nat /\ h.size[c] > 0
                   /\ c + h.size[c] <= h.end /\ c + h.size[c] \in B \cup {h.end}
  <2>1. \A c \in B : c + h.size[c] \in B \cup {h.end}
    BY <1>0 DEF Tile
  <2> QED
    BY <1>0, <2>1, TileBounds
<1>3. /\ k \in HeapValue /\ k.size = h.size /\ k.footer = h.footer
      /\ k.free = h.free /\ k.end = h.end
      /\ Once(k.list) /\ listed(k) = listed(h) \ {b}
  BY <1>0, RemoveBlockIs
<1>4. CASE r >= MIN_BLOCK
  <2> DEFINE w == tag_free(k, n, r)
             a == add_block_to_free_list(w, n)
  <2>1. g = tag_taken(a, b, t)
    BY <1>4 DEF carve, tag_free, tag_taken
  <2>2. /\ r \in Nat /\ n \in Addr /\ n + r = b + h.size[b] /\ n \notin B
        /\ Tile([[h.size EXCEPT ![n] = r] EXCEPT ![b] = t],
                [[h.footer EXCEPT ![n + r] = r] EXCEPT ![b + t] = t], h.end, B \cup {n})
    <3>1. h.size[b] >= t + MIN_BLOCK
      BY <1>0, <1>2, <1>4, Sizes
    <3> QED
      BY <1>0, <3>1, TileSplit
  <2>3. n + r \in Addr /\ b + t \in Addr /\ b \in Addr /\ n # b /\ b + t = n
    BY <1>0, <1>2, <2>2, TileBounds
  <2>4. r > 0 /\ n # h.end /\ n + r # n
    <3>1. r > 0
      BY <1>4, <2>2, Sizes
    <3>2. n \in Nat /\ h.end \in Nat /\ n + r <= h.end
      BY <1>0, <1>2, <2>2, Sizes, TileBounds
    <3> HIDE DEF n, r
    <3> QED
      BY <2>2, <3>1, <3>2
  <2> HIDE DEF n, r, k
  <2>5. /\ w \in HeapValue /\ w.size = [h.size EXCEPT ![n] = r]
        /\ w.footer = [h.footer EXCEPT ![n + r] = r]
        /\ w.free = [h.free EXCEPT ![n] = TRUE] /\ w.list = k.list /\ w.end = h.end
    <3>1. /\ w \in HeapValue /\ w.size = [k.size EXCEPT ![n] = r]
          /\ w.footer = [k.footer EXCEPT ![n + r] = r]
          /\ w.free = [k.free EXCEPT ![n] = TRUE] /\ w.list = k.list /\ w.end = k.end
      <4>1. k \in HeapValue /\ n \in Addr /\ r \in Nat /\ n + r \in Addr
        BY <1>3, <2>2, <2>3
      <4>2. LET x == tag_free(k, n, r)
            IN  /\ x \in HeapValue
                /\ x.size = [k.size EXCEPT ![n] = r] /\ x.footer = [k.footer EXCEPT ![n + r] = r]
                /\ x.free = [k.free EXCEPT ![n] = TRUE]
                /\ x.list = k.list /\ x.end = k.end
        BY ONLY <4>1, WriteTagsFree
      <4> QED
        BY <4>2
    <3> QED
      BY <1>3, <3>1
  <2> HIDE DEF w
  <2>6. /\ a \in HeapValue /\ a.size = w.size /\ a.footer = w.footer
        /\ a.free = [w.free EXCEPT ![n] = TRUE] /\ a.end = h.end
        /\ Once(a.list) /\ listed(a) = (listed(h) \ {b}) \cup {n}
    <3>1. listed(w) = listed(h) \ {b} /\ Once(w.list) /\ n \notin listed(w)
      BY <1>1, <1>3, <2>2, <2>5 DEF listed
    <3>2. /\ a \in HeapValue /\ a.size = w.size /\ a.footer = w.footer
          /\ a.free = [w.free EXCEPT ![n] = TRUE] /\ a.end = w.end
          /\ Once(a.list) /\ listed(a) = listed(w) \cup {n}
      BY <2>2, <2>5, <3>1, AddBlockIs
    <3> QED
      BY <2>5, <3>1, <3>2
  <2> HIDE DEF a
  <2>7. /\ g \in HeapValue /\ g.size = [a.size EXCEPT ![b] = t]
        /\ g.footer = [a.footer EXCEPT ![b + t] = t]
        /\ g.free = [a.free EXCEPT ![b] = FALSE] /\ g.list = a.list /\ g.end = a.end
    <3>1. a \in HeapValue /\ b \in Addr /\ b + t \in Addr
      BY <2>3, <2>6
    <3>2. /\ tag_taken(a, b, t) \in HeapValue
          /\ tag_taken(a, b, t).size = [a.size EXCEPT ![b] = t]
          /\ tag_taken(a, b, t).footer = [a.footer EXCEPT ![b + t] = t]
          /\ tag_taken(a, b, t).free = [a.free EXCEPT ![b] = FALSE]
          /\ tag_taken(a, b, t).list = a.list /\ tag_taken(a, b, t).end = a.end
      BY <3>1, WriteTagsTaken
    <3> QED
      BY <2>1, <3>2
  <2> HIDE DEF g
  <2>8. listed(g) = (listed(h) \ {b}) \cup {n} /\ Once(g.list) /\ g.end = h.end
    BY <2>6, <2>7 DEF listed
  <2>9. /\ g.size[b] = t /\ g.size[n] = r /\ g.free[n] /\ ~g.free[b]
        /\ \A c \in B : c # b => g.size[c] = h.size[c] /\ g.free[c] = h.free[c]
    BY <1>0, <1>2, <2>2, <2>3, <2>5, <2>6, <2>7
  <2>10. ASSUME NEW c \in listed(g)
         PROVE  g.free[c] /\ c + g.size[c] \notin listed(g)
    <3>1. CASE c = n
      BY <1>1, <2>2, <2>4, <2>8, <2>9, <3>1
    <3>2. CASE c # n
      <4>1. c \in listed(h) /\ c # b /\ c \in B
        BY <1>1, <2>8, <3>2
      <4>2. c + h.size[c] \notin listed(h) /\ c + h.size[c] # n
        BY <1>1, <1>2, <2>2, <2>4, <4>1
      <4> QED
        BY <1>1, <2>8, <2>9, <4>1, <4>2
    <3> QED
      BY <3>1, <3>2
  <2>11. /\ \A c \in D \cup {b} : ~g.free[c]
         /\ \A c \in D : g.size[c] = h.size[c]
    BY <1>0, <1>1, <2>9
  <2>12. Tile(g.size, g.footer, g.end, (D \cup {b}) \cup listed(g) \cup {})
    <3>1. (D \cup {b}) \cup listed(g) \cup {} = B \cup {n}
      BY <1>1, <2>8
    <3>2. /\ g.size = [[h.size EXCEPT ![n] = r] EXCEPT ![b] = t]
          /\ g.footer = [[h.footer EXCEPT ![n + r] = r] EXCEPT ![b + t] = t]
      BY <2>5, <2>6, <2>7
    <3> QED
      BY <2>2, <2>8, <3>1, <3>2
  <2>13. (D \cup {b}) \cap listed(g) = {}
    BY <1>0, <1>1, <2>2, <2>3, <2>8
  <2> QED
    BY <2>7, <2>8, <2>9, <2>10, <2>11, <2>12, <2>13 DEF Good, Keeps, g
<1>5. CASE ~(r >= MIN_BLOCK)
  <2> DEFINE f == [h.free EXCEPT ![b] = FALSE]
  <2>1. g = [k EXCEPT !.free = f]
    BY <1>3, <1>5 DEF carve
  <2>2. f \in [Addr -> BOOLEAN] /\ ~f[b] /\ \A c \in B : c # b => f[c] = h.free[c]
    BY <1>0, <1>2
  <2> HIDE DEF k, f, g
  <2>3. /\ g \in HeapValue /\ g.size = h.size /\ g.footer = h.footer /\ g.free = f
        /\ g.end = h.end /\ g.list = k.list
    BY <1>3, <2>1, <2>2 DEF HeapValue
  <2>4. listed(g) = listed(h) \ {b} /\ Once(g.list)
    BY <1>3, <2>3 DEF listed
  <2>5. Tile(g.size, g.footer, g.end, (D \cup {b}) \cup listed(g) \cup {})
    <3>1. (D \cup {b}) \cup listed(g) \cup {} = B
      BY <1>1, <2>4
    <3> QED
      BY <1>0, <2>3, <3>1
  <2>6. \A c \in listed(g) : g.free[c] /\ c + g.size[c] \notin listed(g)
    BY <1>1, <2>2, <2>3, <2>4
  <2>7. \A c \in D \cup {b} : ~g.free[c]
    BY <1>0, <1>1, <2>2, <2>3
  <2>8. (D \cup {b}) \cap listed(g) = {}
    BY <1>0, <2>4
  <2> QED
    BY <2>3, <2>4, <2>5, <2>6, <2>7, <2>8 DEF Good, Keeps, g
<1> QED
  BY <1>4, <1>5

\* A caller that writes only within its block disturbs no tag.
LEMMA OverwriteKeeps ==
    ASSUME NEW h, NEW D, Good(h, D, {}), NEW b \in D
    PROVE  Good(overwrite(h, b), D, {}) /\ Keeps(h, overwrite(h, b), D)
<1> DEFINE B == D \cup listed(h) \cup {}
           inside == (b + 1)..(next_block(h, b) - 1)
           z == [a \in Addr |-> IF a \in inside THEN 0 ELSE h.size[a]]
           f == [a \in Addr |-> a \notin inside /\ h.free[a]]
           ft == [a \in Addr |-> IF a \in inside THEN 0 ELSE h.footer[a]]
           g == overwrite(h, b)
<1>0. /\ h \in HeapValue /\ Once(h.list) /\ Tile(h.size, h.footer, h.end, B) /\ b \in B
      /\ h.free \in [Addr -> BOOLEAN] /\ h.size \in [Addr -> Nat] /\ h.footer \in [Addr -> Nat]
      /\ D \cap listed(h) = {}
  BY DEF Good, HeapValue
<1>1. /\ \A c \in D : ~h.free[c]
      /\ \A c \in listed(h) : h.free[c] /\ c + h.size[c] \notin listed(h)
      /\ D \subseteq B /\ listed(h) \subseteq B
  BY DEF Good
<1> HIDE DEF B
<1>2. g = [h EXCEPT !.size = z, !.free = f, !.footer = ft]
  BY DEF overwrite
<1>3. ASSUME NEW c \in B
      PROVE  c \in Addr /\ c + h.size[c] \in Addr /\ c \notin inside /\ c + h.size[c] \notin inside
  <2>1. /\ c \in Addr /\ c \in Nat /\ h.size[c] \in Nat /\ h.size[c] > 0 /\ c + h.size[c] \in Addr
        /\ b \in Nat /\ h.size[b] \in Nat /\ (c < b \/ c = b \/ c >= b + h.size[b])
    BY <1>0, TileBounds
  <2>2. c < b => b >= c + h.size[c]
    BY <1>0, <2>1 DEF Tile
  <2> QED
    BY <2>1, <2>2 DEF next_block
<1> HIDE DEF inside
<1>4. /\ z \in [Addr -> Nat] /\ f \in [Addr -> BOOLEAN] /\ ft \in [Addr -> Nat]
      /\ \A a \in Addr : a \notin inside => z[a] = h.size[a] /\ f[a] = h.free[a]
                                            /\ ft[a] = h.footer[a]
  BY <1>0
<1> HIDE DEF z, f, ft, g
<1>5. /\ g \in HeapValue /\ g.size = z /\ g.free = f /\ g.footer = ft
      /\ g.list = h.list /\ g.end = h.end
  BY <1>0, <1>2, <1>4 DEF HeapValue
<1>6. listed(g) = listed(h)
  BY <1>5 DEF listed
<1>7. Tile(g.size, g.footer, g.end, D \cup listed(g) \cup {})
  <2>1. Tile(z, ft, h.end, B)
    BY <1>0, <1>3, <1>4, TileSame
  <2> QED
    BY <1>5, <1>6, <2>1 DEF B
<1>8. \A c \in B : g.size[c] = h.size[c] /\ g.free[c] = h.free[c]
  BY <1>3, <1>4, <1>5
<1>9. /\ \A c \in D : ~g.free[c]
      /\ \A c \in listed(g) : g.free[c] /\ c + g.size[c] \notin listed(g)
      /\ \A c \in D : g.size[c] = h.size[c]
  BY <1>1, <1>6, <1>8
<1> QED
  BY <1>0, <1>5, <1>6, <1>7, <1>9 DEF Good, Keeps, g

\* Whole pages are more than a block's worth of aligned memory.
LEMMA PagesAre ==
    ASSUME NEW n \in Nat \ {0}
    PROVE  /\ n * PAGE_SIZE \in Nat /\ n * PAGE_SIZE >= MIN_BLOCK
           /\ (n * PAGE_SIZE) % ALIGNMENT = 0
<1>1. n * PAGE_SIZE \in Nat /\ (n * PAGE_SIZE) % ALIGNMENT = 0
  BY HeapAssumption, MultScale
<1>2. n * PAGE_SIZE >= PAGE_SIZE
  BY HeapAssumption
<1> QED
  BY <1>1, <1>2, HeapAssumption, Sizes

LEMMA GrowKeeps ==
    ASSUME NEW h, NEW D, Good(h, D, {}), NEW n \in Nat \ {0}, grow_fits(h, n)
    PROVE  LET g == grow_heap(h, n)
           IN  /\ Good(g, D, {}) /\ \A b \in D : g.size[b] = h.size[b]
               /\ g.end > h.end
               /\ \E c \in listed(g) : g.size[c] >= n * PAGE_SIZE
<1> DEFINE B == D \cup listed(h) \cup {}
           m == n * PAGE_SIZE
           e == h.end
           x == [h EXCEPT !.end = e + m]
           w == tag_free(x, e, m)
           g == grow_heap(h, n)
<1>0. /\ h \in HeapValue /\ Once(h.list) /\ Tile(h.size, h.footer, e, B)
      /\ h.free \in [Addr -> BOOLEAN] /\ h.size \in [Addr -> Nat]
      /\ D \cap listed(h) = {} /\ e \in Addr /\ h.list \in Seq(Addr)
  BY DEF Good, HeapValue
<1>1. /\ \A c \in D : ~h.free[c]
      /\ \A c \in listed(h) : h.free[c] /\ c + h.size[c] \notin listed(h)
      /\ D \subseteq B /\ listed(h) \subseteq B /\ B = D \cup listed(h) /\ B \subseteq Addr
  BY DEF Good, Tile
<1>2. m \in Nat /\ m >= MIN_BLOCK /\ m % ALIGNMENT = 0 /\ m > 0
  <2>1. m \in Nat /\ m >= MIN_BLOCK /\ m % ALIGNMENT = 0
    BY PagesAre
  <2> HIDE DEF m
  <2> QED
    BY <2>1, Sizes
<1>3. e + m \in Addr /\ e \in Nat /\ e + m > e
  <2>1. e \in Nat /\ e >= HEAP_START
    BY <1>0, Sizes
  <2>2. e + m <= HEAP_MAX
    BY DEF grow_fits
  <2> HIDE DEF m, e
  <2>3. HEAP_START \in Nat /\ HEAP_MAX \in Nat
    BY Sizes
  <2> QED
    BY <1>2, <2>1, <2>2, <2>3 DEF Addr
<1>4. g = coalesce(w, e)
  BY DEF grow_heap, tag_free
<1> HIDE DEF m, B
<1>5. /\ x \in HeapValue /\ x.size = h.size /\ x.footer = h.footer /\ x.free = h.free
      /\ x.list = h.list /\ x.end = e + m
  BY <1>0, <1>3 DEF HeapValue
<1>e. h.end = e
  OBVIOUS
<1> HIDE DEF x, e
<1>6. /\ w \in HeapValue /\ w.size = [h.size EXCEPT ![e] = m]
      /\ w.footer = [h.footer EXCEPT ![e + m] = m]
      /\ w.free = [h.free EXCEPT ![e] = TRUE] /\ w.list = h.list /\ w.end = e + m
  <2>1. LET y == tag_free(x, e, m)
        IN  /\ y \in HeapValue
            /\ y.size = [x.size EXCEPT ![e] = m]
            /\ y.footer = [x.footer EXCEPT ![e + m] = m]
            /\ y.free = [x.free EXCEPT ![e] = TRUE]
            /\ y.list = x.list /\ y.end = x.end
    <3>1. x \in HeapValue /\ e \in Addr /\ m \in Nat /\ e + m \in Addr
      BY <1>0, <1>2, <1>3, <1>5
    <3> QED
      BY ONLY <3>1, WriteTagsFree
  <2> QED
    BY <1>5, <2>1
<1> HIDE DEF w
<1>7. e \notin B /\ Tile(w.size, w.footer, w.end, B \cup {e})
  <2>1. /\ e \notin B
        /\ Tile([h.size EXCEPT ![e] = m], [h.footer EXCEPT ![e + m] = m], e + m, B \cup {e})
    BY <1>0, <1>2, <1>3, TileExtend
  <2> QED
    BY <1>6, <2>1
<1>8. listed(w) = listed(h)
  BY <1>6 DEF listed
<1>9. /\ w.size[e] = m
      /\ \A c \in B : w.size[c] = h.size[c] /\ w.free[c] = h.free[c]
  <2>1. e \in Addr /\ m \in Nat /\ \A c \in B : c \in Addr /\ c # e
    BY <1>0, <1>1, <1>2, <1>7
  <2>2. w.size[e] = m /\ \A c \in B : w.size[c] = h.size[c]
    BY <1>0, <1>6, <2>1
  <2>3. \A c \in B : w.free[c] = h.free[c]
    BY <1>0, <1>6, <2>1
  <2> QED
    BY <2>2, <2>3
<1>10. Good(w, D, {e})
  <2>1. D \cup listed(w) \cup {e} = B \cup {e}
    BY <1>1, <1>8
  <2>2. D \cap listed(w) = {} /\ {e} \cap (D \cup listed(w)) = {}
    BY <1>0, <1>1, <1>7, <1>8
  <2>3. /\ \A c \in D : ~w.free[c]
        /\ \A c \in listed(w) : w.free[c] /\ c + w.size[c] \notin listed(w)
    BY <1>1, <1>8, <1>9
  <2>4. Once(w.list)
    BY <1>0, <1>6
  <2> QED
    BY <1>6, <1>7, <2>1, <2>2, <2>3, <2>4 DEF Good
<1>11. /\ Good(g, D, {}) /\ Keeps(w, g, D)
       /\ \E c \in listed(g) : g.size[c] >= w.size[e]
  BY <1>4, <1>10, CoalesceKeeps
<1> HIDE DEF g
<1>12. \A b \in D : g.size[b] = h.size[b]
  BY <1>1, <1>9, <1>11 DEF Keeps
<1>13. g.end > h.end
  BY <1>3, <1>6, <1>11, <1>e DEF Keeps
<1>14. \E c \in listed(g) : g.size[c] >= m
  BY <1>9, <1>11
<1> QED
  BY <1>11, <1>12, <1>13, <1>14 DEF g, m

\* The size kmalloc() looks for is a block's, holds the request and its tags, and
\* fits in the pages it asks for.
LEMMA TotalIs ==
    ASSUME NEW req \in Request
    PROVE  /\ total_of(req) \in Nat /\ total_of(req) >= MIN_BLOCK
           /\ total_of(req) % ALIGNMENT = 0 /\ total_of(req) >= req + HDR + FTR
           /\ pages_to_grow(req) \in Nat \ {0}
           /\ total_of(req) <= pages_to_grow(req) * PAGE_SIZE
<1> DEFINE n == req + HDR + FTR
           r == align_up(n)
           q == pages_needed(req)
           s == q * PAGE_SIZE
<1>0. /\ req \in Nat /\ n \in Nat /\ ALIGNMENT \in Nat \ {0} /\ PAGE_SIZE \in Nat \ {0}
      /\ PAGE_SIZE % ALIGNMENT = 0 /\ MIN_BLOCK <= PAGE_SIZE /\ MIN_BLOCK % ALIGNMENT = 0
      /\ MIN_BLOCK \in Nat /\ GrowPages \in Nat \ {0} /\ HDR \in Nat \ {0} /\ FTR \in Nat
  BY HeapAssumption, Sizes
<1>1. /\ r \in Nat /\ r >= n /\ r % ALIGNMENT = 0
      /\ \A m \in Nat : m % ALIGNMENT = 0 /\ m >= n => m >= r
  <2> HIDE DEF n
  <2> QED
    BY <1>0, RoundUp DEF align_up
<1>2. q \in Nat /\ s \in Nat /\ s >= n /\ s % ALIGNMENT = 0
  <2>1. q = (n + PAGE_SIZE - 1) \div PAGE_SIZE
    BY DEF pages_needed
  <2>2. q \in Nat
    <3>1. n + PAGE_SIZE - 1 \in Nat
      BY <1>0
    <3> QED
      BY <1>0, <2>1, <3>1, DivMod
  <2>3. s >= n
    <3> HIDE DEF n, q
    <3> QED
      BY <1>0, <2>1, RoundUp
  <2> HIDE DEF q
  <2> QED
    BY <1>0, <2>2, <2>3, MultScale
<1>3. r <= s
  BY <1>1, <1>2
<1>4. pages_to_grow(req) \in Nat \ {0} /\ pages_to_grow(req) >= q
  BY <1>0, <1>2 DEF pages_to_grow
<1>5. /\ pages_to_grow(req) * PAGE_SIZE \in Nat
      /\ pages_to_grow(req) * PAGE_SIZE >= s /\ pages_to_grow(req) * PAGE_SIZE >= MIN_BLOCK
  <2> DEFINE p == pages_to_grow(req)
  <2>1. p \in Nat \ {0} /\ p >= q
    BY <1>4
  <2> HIDE DEF p, q
  <2>2. p * PAGE_SIZE \in Nat /\ p * PAGE_SIZE >= MIN_BLOCK
    BY <2>1, PagesAre
  <2>3. p * PAGE_SIZE >= q * PAGE_SIZE
    BY <1>0, <1>2, <2>1
  <2> QED
    BY <2>2, <2>3 DEF p
<1>6. total_of(req) = IF r < MIN_BLOCK THEN MIN_BLOCK ELSE r
  BY DEF total_of
<1> HIDE DEF n, r, s
<1> QED
  BY <1>0, <1>1, <1>2, <1>3, <1>4, <1>5, <1>6 DEF n

LEMMA FirstFitIs ==
    ASSUME NEW h \in HeapValue, NEW t
    PROVE  /\ first_fit(h, t) # 0 => /\ h.list[first_fit(h, t)] \in listed(h)
                                     /\ h.size[h.list[first_fit(h, t)]] >= t
           /\ first_fit(h, t) = 0 => ~\E c \in listed(h) : h.size[c] >= t
<1> DEFINE fits == {i \in DOMAIN h.list : h.size[h.list[i]] >= t}
<1>0. h.list \in Seq(Addr) /\ DOMAIN h.list \subseteq Nat \ {0}
  <2>1. h.list \in Seq(Addr)
    BY DEF HeapValue
  <2>2. DOMAIN h.list = 1..Len(h.list)
    BY <2>1
  <2> QED
    BY <2>1, <2>2
<1>1. CASE fits = {}
  <2>1. first_fit(h, t) = 0
    BY <1>1 DEF first_fit
  <2>2. ~\E c \in listed(h) : h.size[c] >= t
    BY <1>1 DEF listed, ToSet
  <2> QED
    BY <2>1, <2>2
<1>2. CASE fits # {}
  <2>1. \E i \in fits : \A j \in fits : i <= j
    <3>1. fits \subseteq Nat
      BY <1>0
    <3> HIDE DEF fits
    <3> QED
      BY <1>2, <3>1, LeastNatural
  <2>2. first_fit(h, t) = CHOOSE i \in fits : \A j \in fits : i <= j
    BY <1>2 DEF first_fit
  <2>3. first_fit(h, t) \in fits
    <3> HIDE DEF fits
    <3> QED
      BY <2>1, <2>2
  <2> QED
    BY <1>0, <2>3 DEF listed, ToSet
<1> QED
  BY <1>1, <1>2

----------------------------------------------------------------------------
(* The heap's invariant *)

\* Callers hold blocks that are large enough for them, each once.
HeldOK(h) ==
    /\ held \subseteq Addr \X Request /\ IsFiniteSet(held)
    /\ \A x, y \in held : x[1] = y[1] => x = y
    /\ \A x \in held : h.size[x[1]] >= x[2] + HDR + FTR

HeapInv ==
    /\ Good(heap, Held, {}) /\ heap_end > HEAP_START
    /\ HeldOK(heap)
    /\ halted # "kmalloc failed"

LEMMA PutIs ==
    ASSUME NEW g \in HeapValue, put(g)
    PROVE  heap' = g /\ heap_end' = g.end
  BY DEF put, heap, HeapValue

LEMMA HeapFields ==
    /\ heap.size = size /\ heap.free = free /\ heap.footer = footer
    /\ heap.list = free_list /\ heap.end = heap_end
  BY DEF heap

\* A block taken from a heap in which callers' blocks are as they were.
LEMMA TakeKeeps ==
    ASSUME HeapInv, NEW h, Good(h, Held, {}), h.end > HEAP_START,
           \A b \in Held : h.size[b] = size[b],
           NEW i, NEW req \in Request, h.list[i] \in listed(h),
           h.size[h.list[i]] >= total_of(req), take(h, i, req)
    PROVE  /\ HeapInv'
           /\ \E b \in Addr \ Held :
                 /\ held' = held \cup {<<b, req>>} /\ size'[b] >= req + HDR + FTR
                 /\ \A c \in Held : size'[c] = size[c]
<1> DEFINE b == h.list[i]
           t == total_of(req)
           k == carve(h, b, t)
           g == overwrite(k, b)
<1>0. /\ held' = held \cup {<<b, req>>} /\ halted' = halted /\ put(g)
  BY DEF take
<1>1. /\ t \in Nat /\ t >= MIN_BLOCK /\ t % ALIGNMENT = 0 /\ t >= req + HDR + FTR
      /\ req \in Nat
  BY TotalIs, HeapAssumption
<1>2. b \in listed(h) /\ b \notin Held /\ b \in Addr
  <2>1. b \in listed(h) /\ Held \cap listed(h) = {} /\ listed(h) \subseteq Addr
    BY DEF Good, Tile
  <2> QED
    BY <2>1
<1> HIDE DEF b, t
<1>3. Good(k, Held \cup {b}, {}) /\ Keeps(h, k, Held) /\ k.size[b] >= t
  BY <1>1, <1>2, CarveKeeps DEF b, t
<1> HIDE DEF k
<1>4. Good(g, Held \cup {b}, {}) /\ Keeps(k, g, Held \cup {b})
  BY <1>3, OverwriteKeeps
<1> HIDE DEF g
<1>5. heap' = g /\ heap_end' = g.end
  <2>1. g \in HeapValue
    BY <1>4 DEF Good
  <2> QED
    BY <1>0, <2>1, PutIs
<1>6. Held' = Held \cup {b}
  <2>1. <<b, req>>[1] = b
    OBVIOUS
  <2>2. Held' = {x[1] : x \in held \cup {<<b, req>>}}
    BY <1>0 DEF Held
  <2>3. ASSUME NEW a PROVE a \in Held' <=> a \in Held \cup {b}
    BY <2>1, <2>2 DEF Held
  <2> QED
    BY <2>3
<1>7. Good(heap', Held', {})
  BY <1>4, <1>5, <1>6
<1>8. g.size[b] \in Nat /\ g.size[b] >= t /\ \A c \in Held : g.size[c] = size[c]
  <2>1. g.size[b] \in Nat
    BY <1>4, TileBounds DEF Good
  <2> QED
    BY <1>3, <1>4, <2>1 DEF Keeps
<1>9. g.size[b] >= req + HDR + FTR
  BY <1>1, <1>8, Sizes
<1>10. heap_end' > HEAP_START
  BY <1>3, <1>4, <1>5 DEF Keeps
<1>11. HeldOK(g)'
  <2>0. HeldOK(heap) /\ \A x \in held : x[1] \in Held
    BY DEF HeapInv, Held
  <2>1. held' \subseteq Addr \X Request
    BY <1>0, <1>2, <2>0 DEF HeldOK
  <2>2. IsFiniteSet(held')
    BY <1>0, <2>0, FS_AddElement DEF HeldOK
  <2>3. ASSUME NEW x \in held', NEW y \in held', x[1] = y[1] PROVE x = y
    BY <1>0, <1>2, <2>0, <2>3 DEF HeldOK
  <2>4. ASSUME NEW x \in held' PROVE g.size[x[1]] >= x[2] + HDR + FTR
    <3>1. CASE x \in held
      BY <1>8, <2>0, <3>1, HeapFields DEF HeldOK
    <3>2. CASE x = <<b, req>>
      BY <1>9, <3>2
    <3> QED
      BY <1>0, <3>1, <3>2
  <2>5. g' = g
    BY DEF g, k, b, t
  <2> QED
    BY <2>1, <2>2, <2>3, <2>4 DEF HeldOK
<1>12. halted' # "kmalloc failed"
  BY <1>0 DEF HeapInv
<1>13. size' = g.size
  BY <1>0 DEF put
<1> QED
  BY <1>0, <1>2, <1>5, <1>7, <1>8, <1>9, <1>10, <1>11, <1>12, <1>13 DEF HeapInv, HeldOK

LEMMA MarkKeeps ==
    ASSUME NEW h, NEW D, Good(h, D, {}), NEW b \in D
    PROVE  LET g == [h EXCEPT !.free = [@ EXCEPT ![b] = TRUE]]
           IN  /\ Good(g, D \ {b}, {b}) /\ g.size = h.size /\ g.end = h.end
<1> DEFINE B == D \cup listed(h) \cup {}
           f == [h.free EXCEPT ![b] = TRUE]
           g == [h EXCEPT !.free = f]
<1>0. /\ h \in HeapValue /\ Once(h.list) /\ Tile(h.size, h.footer, h.end, B) /\ b \in B
      /\ h.free \in [Addr -> BOOLEAN] /\ D \cap listed(h) = {}
  BY DEF Good, HeapValue
<1>1. b \in Addr /\ b \notin listed(h)
  BY <1>0, TileBounds
<1>2. /\ f \in [Addr -> BOOLEAN] /\ \A c \in Addr : c # b => f[c] = h.free[c]
  BY <1>0, <1>1
<1> HIDE DEF f
<1>3. /\ g \in HeapValue /\ g.size = h.size /\ g.footer = h.footer /\ g.end = h.end
      /\ g.list = h.list /\ g.free = f
  BY <1>0, <1>2 DEF HeapValue
<1>4. g = [h EXCEPT !.free = [@ EXCEPT ![b] = TRUE]]
  BY DEF f
<1> HIDE DEF g
<1>5. listed(g) = listed(h)
  BY <1>3 DEF listed
<1>6. (D \ {b}) \cup listed(g) \cup {b} = B
  BY <1>5
<1> HIDE DEF B
<1>7. Tile(g.size, g.footer, g.end, (D \ {b}) \cup listed(g) \cup {b})
  BY <1>0, <1>3, <1>6
<1>8. \A c \in D \cup listed(h) : c \in Addr
  BY <1>0, TileBounds DEF B
<1>9. Good(g, D \ {b}, {b})
  <2>1. \A c \in D : ~h.free[c]
    BY DEF Good
  <2>2. \A c \in listed(h) : h.free[c] /\ c + h.size[c] \notin listed(h)
    BY DEF Good
  <2> QED
    BY <1>0, <1>1, <1>2, <1>3, <1>5, <1>7, <1>8, <2>1, <2>2 DEF Good
<1> QED
  BY <1>3, <1>4, <1>9

\* kfree() gives back one block and leaves the callers' others alone.
LEMMA KfreeKeeps ==
    ASSUME HeapInv, NEW x \in held, kfree(x[1], x[2])
    PROVE  /\ HeapInv' /\ Held' = Held \ {x[1]} /\ x[1] \in Held
           /\ \A c \in Held' : size'[c] = size[c]
<1> DEFINE b == x[1]
           m == [heap EXCEPT !.free = [@ EXCEPT ![b] = TRUE]]
           g == coalesce(m, b)
<1>0. /\ Good(heap, Held, {}) /\ HeldOK(heap) /\ heap_end > HEAP_START
      /\ halted # "kmalloc failed"
  BY DEF HeapInv
<1>1. b \in Held /\ x = <<x[1], x[2]>>
  <2>1. x \in Addr \X Request
    BY <1>0 DEF HeldOK
  <2>2. x = <<x[1], x[2]>>
    BY <2>1
  <2>3. b \in Held
    BY DEF Held
  <2> QED
    BY <2>2, <2>3
<1>2. ~free[b]
  BY <1>0, <1>1, HeapFields DEF Good
<1>3. held' = held \ {x} /\ put(g) /\ halted' = halted
  <2>1. held' = held \ {x} /\ halted' = halted
    BY <1>1 DEF kfree
  <2>2. put(g)
    BY <1>2 DEF kfree
  <2> QED
    BY <2>1, <2>2
<1>4. Good(m, Held \ {b}, {b}) /\ m.size = size /\ m.end = heap_end
  BY <1>0, <1>1, MarkKeeps, HeapFields
<1> HIDE DEF m
<1>5. Good(g, Held \ {b}, {}) /\ Keeps(m, g, Held \ {b})
  BY <1>4, CoalesceKeeps
<1> HIDE DEF g
<1>6. heap' = g /\ heap_end' = g.end /\ size' = g.size
  <2>1. g \in HeapValue
    BY <1>5 DEF Good
  <2> QED
    BY <1>3, <2>1, PutIs DEF put
<1>7. Held' = Held \ {b}
  <2>1. \A y \in held : y[1] = b => y = x
    BY <1>0 DEF HeldOK
  <2>2. Held' = {y[1] : y \in held \ {x}}
    BY <1>3 DEF Held
  <2>3. ASSUME NEW a PROVE a \in Held' <=> a \in Held \ {b}
    BY <2>1, <2>2 DEF Held
  <2> QED
    BY <2>3
<1>8. \A c \in Held' : size'[c] = size[c]
  BY <1>4, <1>5, <1>6, <1>7 DEF Keeps
<1>9. Good(heap', Held', {}) /\ heap_end' > HEAP_START
  BY <1>0, <1>4, <1>5, <1>6, <1>7 DEF Keeps
<1>10. HeldOK(heap)'
  <2>1. held' \subseteq held
    BY <1>3
  <2>2. IsFiniteSet(held')
    BY <1>0, <2>1, FS_Subset DEF HeldOK
  <2>3. \A y \in held' : size'[y[1]] = size[y[1]]
    BY <1>8 DEF Held
  <2>4. heap'.size = size'
    BY <1>6
  <2> QED
    BY <1>0, <2>1, <2>2, <2>3, <2>4, HeapFields DEF HeldOK
<1> QED
  BY <1>0, <1>1, <1>3, <1>7, <1>8, <1>9, <1>10 DEF HeapInv

\* kmalloc() halts with everything as it was, or hands out a new block; after
\* growing it always finds one.
LEMMA KmallocKeeps ==
    ASSUME HeapInv, NEW req \in Request, kmalloc(req)
    PROVE  /\ HeapInv'
           /\ \/ UNCHANGED <<size, held>>
              \/ \E b \in Addr \ Held :
                    /\ held' = held \cup {<<b, req>>} /\ size'[b] >= req + HDR + FTR
                    /\ \A c \in Held : size'[c] = size[c]
<1> DEFINE t == total_of(req)
           i == first_fit(heap, t)
           pages == pages_to_grow(req)
           grown == grow_heap(heap, pages)
           j == first_fit(grown, t)
<1>0. /\ Good(heap, Held, {}) /\ heap_end > HEAP_START /\ HeldOK(heap)
      /\ halted # "kmalloc failed"
  BY DEF HeapInv
<1>1. heap \in HeapValue
  BY <1>0 DEF Good
<1>2. ASSUME NEW why, halt(why), why # "kmalloc failed"
      PROVE  HeapInv' /\ UNCHANGED <<size, held>>
  <2>1. /\ heap' = heap /\ Held' = Held /\ heap_end' = heap_end /\ held' = held
        /\ size' = size /\ halted' # "kmalloc failed"
    BY <1>2 DEF halt, heap, Held
  <2> QED
    BY <1>0, <2>1 DEF HeapInv, HeldOK
<1>3. CASE i # 0
  <2>1. take(heap, i, req)
    BY <1>3 DEF kmalloc
  <2>2. heap.list[i] \in listed(heap) /\ heap.size[heap.list[i]] >= t
    BY <1>1, <1>3, FirstFitIs
  <2>3. heap.end > HEAP_START /\ \A b \in Held : heap.size[b] = size[b]
    BY <1>0, HeapFields
  <2> HIDE DEF i
  <2> QED
    BY <1>0, <2>1, <2>2, <2>3, TakeKeeps
<1>4. CASE i = 0 /\ grow_fits(heap, pages)
  <2>1. pages \in Nat \ {0} /\ pages * PAGE_SIZE >= t /\ t \in Nat
    BY TotalIs
  <2> HIDE DEF pages
  <2>2. /\ Good(grown, Held, {}) /\ \A b \in Held : grown.size[b] = heap.size[b]
        /\ grown.end > heap.end
        /\ \E c \in listed(grown) : grown.size[c] >= pages * PAGE_SIZE
    BY <1>0, <1>4, <2>1, GrowKeeps
  <2> HIDE DEF grown
  <2>3. grown \in HeapValue
    BY <2>2 DEF Good
  <2>4. \E c \in listed(grown) : grown.size[c] >= t
    <3>1. PICK c \in listed(grown) : grown.size[c] >= pages * PAGE_SIZE
      BY <2>2
    <3>2. grown.size[c] \in Nat
      BY <2>2, TileBounds DEF Good
    <3>3. pages * PAGE_SIZE \in Nat
      BY <2>1, HeapAssumption
    <3>4. grown.size[c] >= t
      BY <2>1, <3>1, <3>2, <3>3
    <3> QED
      BY <3>4
  <2>5. j # 0 /\ grown.list[j] \in listed(grown) /\ grown.size[grown.list[j]] >= t
    BY <2>3, <2>4, FirstFitIs
  <2>6. grown.end > HEAP_START /\ \A b \in Held : grown.size[b] = size[b]
    <3>1. grown.end \in Nat /\ heap_end \in Nat
      BY <1>0, <2>2, Sizes, HeapFields DEF Good, Tile
    <3>2. grown.end > heap_end /\ \A b \in Held : grown.size[b] = size[b]
      BY <2>2, HeapFields
    <3>3. heap_end > HEAP_START /\ HEAP_START \in Nat
      BY <1>0, Sizes
    <3> QED
      BY <3>1, <3>2, <3>3
  <2>7. halt("out of physical memory") \/ take(grown, j, req)
    BY <1>4, <2>5 DEF kmalloc, grown, pages
  <2>8. CASE halt("out of physical memory")
    BY <1>2, <2>8
  <2>9. CASE take(grown, j, req)
    <3> HIDE DEF j
    <3> QED
      BY <2>2, <2>5, <2>6, <2>9, TakeKeeps
  <2> QED
    BY <2>7, <2>8, <2>9
<1>5. CASE i = 0 /\ ~grow_fits(heap, pages)
  <2>1. halt("out of virtual address space")
    BY <1>5 DEF kmalloc
  <2> QED
    BY <1>2, <2>1
<1> QED
  BY <1>3, <1>4, <1>5

\* heap::init() leaves one free block.
LEMMA HeapInit == Init => HeapInv /\ Held = {}
<1> SUFFICES ASSUME Init PROVE HeapInv /\ Held = {}
  OBVIOUS
<1> DEFINE none == [size |-> [a \in Addr |-> 0], free |-> [a \in Addr |-> FALSE],
                    footer |-> [a \in Addr |-> 0], list |-> << >>,
                    end |-> HEAP_START]
           h == grow_heap(none, InitPages)
<1>1. /\ size = h.size /\ free = h.free /\ footer = h.footer
      /\ free_list = h.list /\ heap_end = h.end
      /\ held = {} /\ halted = "no"
  BY DEF Init
<1>2. Good(none, {}, {}) /\ none.end = HEAP_START
  <2>0. HEAP_START \in Addr
    <3>1. InitPages * PAGE_SIZE \in Nat
      BY PagesAre, HeapAssumption
    <3> QED
      BY <3>1, HeapAssumption DEF Addr
  <2>1. none \in HeapValue
    BY <2>0 DEF HeapValue
  <2>2. none.list = << >> /\ none.end = HEAP_START
    OBVIOUS
  <2>3. listed(none) = {} /\ Once(none.list)
    BY <2>2 DEF listed, ToSet, Once
  <2>4. Tile(none.size, none.footer, none.end, {})
    BY <2>0 DEF Tile
  <2> HIDE DEF none
  <2> QED
    BY <2>1, <2>2, <2>3, <2>4 DEF Good
<1>3. grow_fits(none, InitPages)
  BY HeapAssumption DEF grow_fits
<1> HIDE DEF none
<1>4. Good(h, {}, {}) /\ h.end > HEAP_START
  BY <1>2, <1>3, GrowKeeps, HeapAssumption
<1> HIDE DEF h
<1>5. heap = h
  <2>1. h \in HeapValue
    BY <1>4 DEF Good
  <2> QED
    BY <1>1, <2>1 DEF heap, HeapValue
<1>6. Held = {}
  BY <1>1 DEF Held
<1>7. HeldOK(heap)
  BY <1>1, FS_EmptySet DEF HeldOK
<1> QED
  BY <1>1, <1>4, <1>5, <1>6, <1>7 DEF HeapInv

LEMMA HeapStep == HeapInv /\ [Next]_vars => HeapInv'
<1> SUFFICES ASSUME HeapInv, [Next]_vars PROVE HeapInv'
  OBVIOUS
<1>1. CASE UNCHANGED vars
  <2>1. /\ heap' = heap /\ Held' = Held /\ heap_end' = heap_end /\ held' = held
        /\ halted' = halted
    BY <1>1 DEF vars, heap, Held
  <2> QED
    BY <2>1 DEF HeapInv, HeldOK
<1>2. ASSUME NEW req \in Request, kmalloc(req) PROVE HeapInv'
  BY <1>2, KmallocKeeps
<1>3. ASSUME NEW x \in held, kfree(x[1], x[2]) PROVE HeapInv'
  BY <1>3, KfreeKeeps
<1> QED
  BY <1>1, <1>2, <1>3 DEF Next

----------------------------------------------------------------------------
(* What the heap guarantees *)

\* The blocks callers hold and the free ones tile the heap, with tags, list
\* and callers in agreement, after any calls of kmalloc() and kfree().
THEOREM HeapInvariant == Spec => []HeapInv
  BY HeapInit, HeapStep, PTL DEF Spec

\* No call of kmalloc() or kfree() loses a byte or lets two blocks overlap.
THEOREM TileSafety == Spec => []BlocksTile
<1>1. HeapInv => BlocksTile
  <2> SUFFICES ASSUME HeapInv PROVE BlocksTile
    OBVIOUS
  <2>1. Tile(size, footer, heap_end, Blocks) /\ heap_end > HEAP_START
    <3>1. listed(heap) = Listed
      BY HeapFields DEF listed, Listed
    <3>2. Held \cup listed(heap) \cup {} = Blocks
      BY <3>1 DEF Blocks
    <3> QED
      BY <3>2, HeapFields DEF HeapInv, Good
  <2>2. HEAP_START \in Blocks
    BY <2>1, Sizes DEF Tile
  <2>3. \A b \in Blocks : next_block(heap, b) = b + size[b]
    BY HeapFields DEF next_block
  <2> QED
    BY <2>1, <2>2, <2>3 DEF BlocksTile, Tile
<1> QED
  BY <1>1, HeapInvariant, PTL

\* Footers repeat the sizes prev_block() walks back by, and the free flags,
\* the list and the callers agree on which blocks are free.
THEOREM TagSafety == Spec => []TagsAgree
<1>1. HeapInv => TagsAgree
  <2> SUFFICES ASSUME HeapInv PROVE TagsAgree
    OBVIOUS
  <2>1. listed(heap) = Listed
    BY HeapFields DEF listed, Listed
  <2>2. /\ Tile(size, footer, heap_end, Blocks) /\ Held \cap Listed = {}
        /\ \A b \in Held : ~free[b]
        /\ \A b \in Listed : free[b]
        /\ Once(free_list) /\ free_list \in Seq(Addr)
    <3>1. Held \cup listed(heap) \cup {} = Blocks
      BY <2>1 DEF Blocks
    <3> QED
      BY <2>1, <3>1, HeapFields DEF HeapInv, Good, HeapValue
  <2>3. \A b \in Blocks : footer[next_block(heap, b)] = size[b]
    BY <2>2, HeapFields DEF next_block, Tile
  <2>4. \A b \in Blocks : free[b] <=> b \in Listed
    BY <2>2 DEF Blocks
  <2>5. Cardinality(Listed) = Len(free_list)
    BY <2>2, OnceCounts DEF Listed
  <2>6. Cardinality(Held) = Cardinality(held)
    <3> DEFINE f == [x \in held |-> x[1]]
    <3>1. IsFiniteSet(held) /\ \A x, y \in held : x[1] = y[1] => x = y
      BY DEF HeapInv, HeldOK
    <3>2. f \in [held -> Held] /\ \A a \in Held : \E x \in held : f[x] = a
      BY DEF Held
    <3>3. f \in Injection(held, Held)
      BY <3>1, <3>2 DEF Injection, IsInjective
    <3>4. f \in Surjection(held, Held)
      BY <3>2 DEF Surjection
    <3>5. ExistsBijection(held, Held)
      BY <3>3, <3>4 DEF Bijection, ExistsBijection
    <3> QED
      BY <3>1, <3>5, FS_Bijection
  <2> QED
    BY <2>2, <2>3, <2>4, <2>5, <2>6 DEF TagsAgree
<1> QED
  BY <1>1, HeapInvariant, PTL

\* kfree() and grow_heap() leave no two free blocks next to each other.
THEOREM CoalescedSafety == Spec => []FullyCoalesced
<1>1. HeapInv => FullyCoalesced
  <2> SUFFICES ASSUME HeapInv PROVE FullyCoalesced
    OBVIOUS
  <2>1. listed(heap) = Listed
    BY HeapFields DEF listed, Listed
  <2>2. \A b \in listed(heap) : b + heap.size[b] \notin listed(heap)
    BY DEF HeapInv, Good
  <2> QED
    BY <2>1, <2>2 DEF FullyCoalesced, next_block
<1> QED
  BY <1>1, HeapInvariant, PTL

\* kmalloc() never hands out a block that is too small, and no later call
\* shrinks it.
THEOREM HeldSizeSafety == Spec => []HeldIsLargeEnough
<1>1. HeapInv => HeldIsLargeEnough
  BY HeapFields DEF HeapInv, HeldOK, HeldIsLargeEnough
<1> QED
  BY <1>1, HeapInvariant, PTL

\* kmalloc() never halts for want of a block in a heap it has just grown.
THEOREM GrowthSafety == Spec => []GrowthSuffices
<1>1. HeapInv => GrowthSuffices
  BY DEF HeapInv, GrowthSuffices
<1> QED
  BY <1>1, HeapInvariant, PTL

----------------------------------------------------------------------------
(* The refinement *)

\* Two blocks of a tiling are disjoint, and end inside the heap.
LEMMA TileDisjoint ==
    ASSUME NEW z, NEW ft, NEW e, NEW B, Tile(z, ft, e, B), NEW b \in B
    PROVE  /\ b \in Nat /\ z[b] \in Nat /\ b + z[b] <= HEAP_MAX
           /\ \A c \in B : c # b => ~A!Overlap(b, z[b], c, z[c])
<1>1. b \in Nat /\ z[b] \in Nat /\ b + z[b] <= HEAP_MAX
  BY TileBounds DEF Addr
<1>2. ASSUME NEW c \in B, c # b PROVE ~A!Overlap(b, z[b], c, z[c])
  <2>1. c \in Nat /\ z[c] \in Nat
    BY TileBounds
  <2>2. c > b => c >= b + z[b]
    BY DEF Tile
  <2>3. b > c => b >= c + z[c]
    BY DEF Tile
  <2> QED
    BY <1>1, <1>2, <2>1, <2>2, <2>3 DEF A!Overlap
<1> QED
  BY <1>1, <1>2

\* kmalloc() is Alloc, or halts and changes no caller's block.
LEMMA KmallocRefines ==
    ASSUME HeapInv, NEW req \in Request, kmalloc(req)
    PROVE  A!Alloc \/ UNCHANGED extent
<1>1. CASE UNCHANGED <<size, held>>
  BY <1>1 DEF extent, Held
<1>2. ASSUME NEW b \in Addr \ Held, held' = held \cup {<<b, req>>},
             size'[b] >= req + HDR + FTR, \A c \in Held : size'[c] = size[c]
      PROVE  A!Alloc
  <2>0. HeapInv'
    BY KmallocKeeps
  <2>1. Held' = Held \cup {b}
    <3>1. <<b, req>>[1] = b
      OBVIOUS
    <3>2. Held' = {x[1] : x \in held \cup {<<b, req>>}}
      BY <1>2 DEF Held
    <3>3. ASSUME NEW a PROVE a \in Held' <=> a \in Held \cup {b}
      BY <3>1, <3>2 DEF Held
    <3> QED
      BY <3>3
  <2>2. /\ DOMAIN extent = Held /\ DOMAIN extent' = Held \cup {b}
        /\ \A c \in Held : extent[c] = size[c] /\ extent'[c] = size[c]
        /\ extent'[b] = size'[b]
    BY <1>2, <2>1 DEF extent
  <2>3. /\ b \in Nat /\ size'[b] \in Nat /\ b + size'[b] <= HEAP_MAX
        /\ \A c \in Held : ~A!Overlap(b, size'[b], c, size[c])
    <3> DEFINE B == Held' \cup listed(heap)' \cup {}
    <3>1. Tile(size', footer', heap_end', B)
      BY <2>0 DEF HeapInv, Good, heap
    <3>2. b \in B /\ \A c \in Held : c \in B /\ c # b
      BY <1>2, <2>1
    <3> HIDE DEF B
    <3>3. /\ b \in Nat /\ size'[b] \in Nat /\ b + size'[b] <= HEAP_MAX
          /\ \A c \in B : c # b => ~A!Overlap(b, size'[b], c, size'[c])
      BY <3>1, <3>2, TileDisjoint
    <3> QED
      BY <1>2, <3>2, <3>3
  <2>4. A!Restrict(extent', DOMAIN extent) = extent
    BY <2>2 DEF A!Restrict, extent
  <2>5. extent'[b] >= req
    BY <1>2, <2>2, <2>3, HeapAssumption
  <2>6. b \in HEAP_START..HEAP_MAX /\ b \notin DOMAIN extent
    BY <1>2, <2>2 DEF Addr
  <2> QED
    BY <2>2, <2>3, <2>4, <2>5, <2>6 DEF A!Alloc
<1> QED
  BY <1>1, <1>2, KmallocKeeps

\* kfree() is Free.
LEMMA KfreeRefines ==
    ASSUME HeapInv, NEW x \in held, kfree(x[1], x[2])
    PROVE  A!Free
<1>1. /\ Held' = Held \ {x[1]} /\ x[1] \in Held
      /\ \A c \in Held' : size'[c] = size[c]
  BY KfreeKeeps
<1>2. DOMAIN extent = Held
  BY DEF extent
<1>3. extent' = A!Restrict(extent, DOMAIN extent \ {x[1]})
  BY <1>1, <1>2 DEF A!Restrict, extent
<1> QED
  BY <1>1, <1>2, <1>3 DEF A!Free

\* The heap implements the allocator: kmalloc() hands out blocks of at least
\* the requested size that overlap no other caller's, and they stay as they
\* are until kfree() gives exactly that one back.
THEOREM HeapRefines == Spec => ImplementsAllocator
<1>1. Init => A!Init
  <2> SUFFICES ASSUME Init PROVE extent = << >>
    BY DEF A!Init
  <2>1. Held = {}
    BY HeapInit
  <2> QED
    BY <2>1 DEF extent
<1>2. HeapInv /\ [Next]_vars => [A!Next]_extent
  <2> SUFFICES ASSUME HeapInv, [Next]_vars PROVE [A!Next]_extent
    OBVIOUS
  <2>1. CASE UNCHANGED vars
    BY <2>1 DEF vars, extent, Held
  <2>2. ASSUME NEW req \in Request, kmalloc(req) PROVE [A!Next]_extent
    BY <2>2, KmallocRefines DEF A!Next
  <2>3. ASSUME NEW x \in held, kfree(x[1], x[2]) PROVE [A!Next]_extent
    BY <2>3, KfreeRefines DEF A!Next
  <2> QED
    BY <2>1, <2>2, <2>3 DEF Next
<1> QED
  BY <1>1, <1>2, HeapInvariant, PTL DEF Spec, ImplementsAllocator, A!Spec

=============================================================================
