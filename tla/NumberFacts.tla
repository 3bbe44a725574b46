---------------------------- MODULE NumberFacts -----------------------------
(***************************************************************************)
(* The kernel's searches take the first slot, block or task that fits, the *)
(* least element of a set of naturals; its sizes and addresses are rounded *)
(* to multiples of an alignment or a page; what it reads, prints and       *)
(* collects grows piece by piece.  These are the facts the proofs need of  *)
(* all three.                                                              *)
(***************************************************************************)
EXTENDS Naturals, Sequences, FiniteSetsExt, TLAPS, WellFoundedInduction,
        SequenceTheorems

\* A non-empty set of naturals has a least element.
LEMMA LeastNatural ==
    ASSUME NEW S, S \subseteq Nat, S # {}
    PROVE  \E i \in S : \A j \in S : i <= j
<1> DEFINE R == OpToRel(<, Nat)
<1>1. IsWellFoundedOn(R, Nat)
  BY NatLessThanWellFounded, Zenon
<1>2. \E x \in S : \A y \in S : <<y, x>> \notin R
  <2> HIDE DEF R
  <2>. QED  BY <1>1, WFMin, Zenon
<1>3. \A x, y \in Nat : <<y, x>> \notin R => x <= y
  BY DEF OpToRel
<1> HIDE DEF R
<1>. QED  BY <1>2, <1>3

\* Min() is that element.
LEMMA MinIsLeast ==
    ASSUME NEW S, S \subseteq Nat, S # {}
    PROVE  Min(S) \in S /\ \A j \in S : Min(S) <= j
<1>1. \E i \in S : \A j \in S : i <= j
  BY LeastNatural
<1>. QED
  BY <1>1 DEF Min

\* A bounded one has a greatest.
LEMMA MaxIsGreatest ==
    ASSUME NEW n \in Nat, NEW S, S \subseteq 0..n, S # {}
    PROVE  Max(S) \in S /\ \A j \in S : j <= Max(S)
<1> DEFINE D == {n - j : j \in S}
<1>1. D \subseteq Nat /\ D # {}
  OBVIOUS
<1>2. PICK d \in D : \A e \in D : d <= e
  BY <1>1, LeastNatural
<1>3. PICK m \in S : d = n - m
  BY <1>2
<1>4. \A j \in S : j <= m
  BY <1>2, <1>3
<1>5. \E i \in S : \A j \in S : j <= i
  BY <1>4
<1>. QED
  BY <1>5 DEF Max

----------------------------------------------------------------------------
(* Multiples *)

LEMMA DivMod ==
    ASSUME NEW n \in Nat, NEW d \in Nat \ {0}
    PROVE  /\ n \div d \in Nat /\ n % d \in 0..(d - 1)
           /\ n = d * (n \div d) + (n % d)
  OBVIOUS

LEMMA NoRoom ==
    ASSUME NEW d \in Nat \ {0}, NEW k \in Int, NEW r \in 0..(d - 1), d * k = r
    PROVE  r = 0 /\ k = 0
<1>1. CASE k >= 1
  <2>1. d * k >= d
    BY <1>1
  <2> QED
    BY <2>1
<1>2. CASE k <= -1
  <2>1. d * k <= -d
    BY <1>2
  <2> QED
    BY <2>1
<1> QED
  BY <1>1, <1>2

LEMMA MultIs ==
    ASSUME NEW d \in Nat \ {0}, NEW k \in Nat
    PROVE  d * k \in Nat /\ (d * k) % d = 0 /\ (d * k) \div d = k
<1> DEFINE n == d * k
           q == n \div d
           r == n % d
<1>1. n \in Nat
  OBVIOUS
<1>2. q \in Nat /\ r \in 0..(d - 1) /\ n = d * q + r
  <2> HIDE DEF n
  <2> QED
    BY <1>1, DivMod
<1>3. d * (k - q) = r
  <2> HIDE DEF q, r
  <2> QED
    BY <1>2 DEF n
<1>4. r = 0 /\ k - q = 0
  <2> HIDE DEF q, r
  <2> QED
    BY <1>2, <1>3, NoRoom
<1> QED
  BY <1>1, <1>2, <1>4

LEMMA MultOf ==
    ASSUME NEW d \in Nat \ {0}, NEW m \in Nat, m % d = 0
    PROVE  \E i \in Nat : m = d * i
<1> DEFINE q == m \div d
<1>1. q \in Nat /\ m = d * q + (m % d)
  BY DivMod
<1> HIDE DEF q
<1>2. m = d * q
  BY <1>1
<1> QED
  BY <1>1, <1>2

LEMMA MultSum ==
    ASSUME NEW d \in Nat \ {0}, NEW m \in Nat, NEW n \in Nat, m % d = 0, n % d = 0
    PROVE  /\ (m + n) % d = 0
           /\ m >= n => (m - n) % d = 0
<1>1. PICK i \in Nat : m = d * i
  BY MultOf
<1>2. PICK j \in Nat : n = d * j
  BY MultOf
<1>3. m + n = d * (i + j)
  BY <1>1, <1>2
<1>4. (m + n) % d = 0
  <2>1. i + j \in Nat
    OBVIOUS
  <2> QED
    BY <1>3, <2>1, MultIs
<1>5. ASSUME m >= n PROVE (m - n) % d = 0
  <2>1. m - n = d * (i - j)
    BY <1>1, <1>2
  <2>2. i - j \in Nat
    <3>1. CASE i - j <= -1
      <4>1. d * (i - j) <= -d
        BY <3>1
      <4> QED
        BY <2>1, <4>1, <1>5
    <3> QED
      BY <3>1
  <2> QED
    BY <2>1, <2>2, MultIs
<1> QED
  BY <1>4, <1>5

\* Rounding up gives the least multiple that is not below.
LEMMA RoundUp ==
    ASSUME NEW d \in Nat \ {0}, NEW n \in Nat
    PROVE  LET r == ((n + d - 1) \div d) * d
           IN  /\ r \in Nat /\ r >= n /\ r % d = 0
               /\ \A m \in Nat : m % d = 0 /\ m >= n => m >= r
<1> DEFINE q == (n + d - 1) \div d
           r == q * d
<1>1. n + d - 1 \in Nat
  OBVIOUS
<1>2. q \in Nat /\ n + d - 1 = d * q + ((n + d - 1) % d) /\ (n + d - 1) % d \in 0..(d - 1)
  BY <1>1, DivMod
<1> HIDE DEF q
<1>3. r = d * q /\ r \in Nat
  BY <1>2
<1>4. r >= n /\ r <= n + d - 1
  BY <1>2, <1>3
<1>5. r % d = 0
  BY <1>2, <1>3, MultIs
<1>6. ASSUME NEW m \in Nat, m % d = 0, m >= n PROVE m >= r
  <2>1. PICK k \in Nat : m = d * k
    BY <1>6, MultOf
  <2>2. r - m = d * (q - k)
    BY <1>2, <1>3, <2>1
  <2>3. CASE q - k >= 1
    <3>1. d * (q - k) >= d
      BY <1>2, <2>3
    <3> QED
      BY <1>3, <1>4, <1>6, <2>2, <3>1
  <2>4. CASE q <= k
    <3>1. d * q <= d * k
      BY <1>2, <2>4
    <3> QED
      BY <1>3, <2>1, <3>1
  <2> QED
    BY <1>2, <2>3, <2>4
<1> QED
  BY <1>3, <1>4, <1>5, <1>6 DEF q

LEMMA MultScale ==
    ASSUME NEW d \in Nat \ {0}, NEW m \in Nat, m % d = 0, NEW k \in Nat
    PROVE  k * m \in Nat /\ (k * m) % d = 0
<1>1. PICK j \in Nat : m = d * j
  BY MultOf
<1>2. k * m = d * (k * j) /\ k * j \in Nat /\ k * m \in Nat
  BY <1>1
<1> QED
  BY <1>2, MultIs

\* Quotient and remainder are what a number is put together from.
LEMMA DivIs ==
    ASSUME NEW d \in Nat \ {0}, NEW k \in Nat, NEW i \in 0..(d - 1)
    PROVE  (d * k + i) \div d = k /\ (d * k + i) % d = i
<1> DEFINE n == d * k + i
           q == n \div d
           r == n % d
<1>1. n \in Nat
  OBVIOUS
<1>2. q \in Nat /\ r \in 0..(d - 1) /\ n = d * q + r
  <2> HIDE DEF n
  <2> QED
    BY <1>1, DivMod
<1>3. d * (q - k) = i - r /\ d * (k - q) = r - i
  <2> HIDE DEF q, r
  <2> QED
    BY <1>2 DEF n
<1>4. q = k /\ r = i
  <2> HIDE DEF q, r, n
  <2>1. CASE i >= r
    <3>1. i - r \in 0..(d - 1) /\ q - k \in Int
      BY <1>2, <2>1
    <3>2. i - r = 0 /\ q - k = 0
      BY <1>3, <3>1, NoRoom
    <3> QED
      BY <1>2, <3>2
  <2>2. CASE i < r
    <3>1. r - i \in 0..(d - 1) /\ k - q \in Int
      BY <1>2, <2>2
    <3>2. r - i = 0 /\ k - q = 0
      BY <1>3, <3>1, NoRoom
    <3> QED
      BY <1>2, <3>2
  <2> QED
    BY <1>2, <2>1, <2>2
<1> QED
  BY <1>4

LEMMA MultOrder ==
    ASSUME NEW d \in Nat \ {0}, NEW a \in Int, NEW b \in Int
    PROVE  d * a <= d * b <=> a <= b
<1>1. ASSUME a <= b PROVE d * a <= d * b
  BY <1>1
<1>2. ASSUME a >= b + 1 PROVE d * a >= d * b + d
  <2>1. d * a >= d * (b + 1)
    BY <1>2
  <2>2. d * (b + 1) = d * b + d
    OBVIOUS
  <2> QED
    BY <2>1, <2>2
<1>3. d * a \in Int /\ d * b \in Int
  OBVIOUS
<1> QED
  BY <1>1, <1>2, <1>3

----------------------------------------------------------------------------
(* Sequences *)

\* The first n of a sequence, and the others.
LEMMA Prefix ==
    ASSUME NEW S, NEW s \in Seq(S), NEW n \in 0..Len(s)
    PROVE  /\ SubSeq(s, 1, n) \in Seq(S) /\ Len(SubSeq(s, 1, n)) = n
           /\ \A i \in 1..n : SubSeq(s, 1, n)[i] = s[i]
<1>1. \A i \in 1..n : s[i] \in S
  OBVIOUS
<1> QED
  BY <1>1, SubSeqProperties

LEMMA Suffix ==
    ASSUME NEW S, NEW s \in Seq(S), NEW n \in 0..Len(s)
    PROVE  LET t == SubSeq(s, n + 1, Len(s))
           IN  /\ t \in Seq(S) /\ Len(t) = Len(s) - n
               /\ \A i \in 1..(Len(s) - n) : t[i] = s[n + i]
<1>1. \A i \in (n + 1)..Len(s) : s[i] \in S
  OBVIOUS
<1>2. n + 1 \in Int /\ Len(s) \in Int /\ Len(s) \in Nat
  OBVIOUS
<1> QED
  BY <1>1, <1>2, SubSeqProperties

\* Cutting off a piece in the middle.
LEMMA Pieces ==
    ASSUME NEW S, NEW s \in Seq(S), NEW m \in 0..Len(s), NEW n \in 0..Len(s), m <= n
    PROVE  /\ SubSeq(s, m + 1, n) \in Seq(S)
           /\ SubSeq(s, m + 1, n) \o SubSeq(s, n + 1, Len(s)) = SubSeq(s, m + 1, Len(s))
<1> DEFINE a == SubSeq(s, m + 1, n)
           b == SubSeq(s, n + 1, Len(s))
           c == SubSeq(s, m + 1, Len(s))
<1>0. Len(s) \in Nat /\ m + 1 \in Int /\ n \in Int /\ m \in Nat /\ n \in Nat
  OBVIOUS
<1>1. a \in Seq(S) /\ Len(a) = n - m /\ \A i \in 1..(n - m) : a[i] = s[m + i]
  <2>1. \A i \in (m + 1)..n : s[i] \in S
    OBVIOUS
  <2> QED
    BY <1>0, <2>1, SubSeqProperties
<1>2. b \in Seq(S) /\ Len(b) = Len(s) - n /\ \A i \in 1..(Len(s) - n) : b[i] = s[n + i]
  BY Suffix
<1>3. c \in Seq(S) /\ Len(c) = Len(s) - m /\ \A i \in 1..(Len(s) - m) : c[i] = s[m + i]
  BY Suffix
<1> HIDE DEF a, b, c
<1>4. /\ a \o b \in Seq(S) /\ Len(a \o b) = Len(a) + Len(b)
      /\ \A i \in 1..(Len(a) + Len(b)) :
           (a \o b)[i] = IF i <= Len(a) THEN a[i] ELSE b[i - Len(a)]
  BY <1>1, <1>2, ConcatProperties
<1>5. Len(a \o b) = Len(c)
  BY <1>0, <1>1, <1>2, <1>3, <1>4
<1>6. ASSUME NEW i \in 1..Len(c) PROVE (a \o b)[i] = c[i]
  <2>1. i \in 1..(Len(s) - m) /\ c[i] = s[m + i]
    BY <1>3
  <2>2. CASE i <= n - m
    <3>1. i \in 1..(n - m) /\ i \in 1..(Len(a) + Len(b)) /\ i <= Len(a)
      BY <1>0, <1>1, <1>2, <2>1, <2>2
    <3> QED
      BY <1>1, <1>4, <2>1, <3>1
  <2>3. CASE ~(i <= n - m)
    <3>1. /\ i - (n - m) \in 1..(Len(s) - n) /\ i \in 1..(Len(a) + Len(b))
          /\ ~(i <= Len(a)) /\ n + (i - (n - m)) = m + i
      BY <1>0, <1>1, <1>2, <2>1, <2>3
    <3> QED
      BY <1>1, <1>2, <1>4, <2>1, <3>1
  <2> QED
    BY <2>2, <2>3
<1>7. a \o b = c
  BY <1>3, <1>4, <1>5, <1>6, SeqEqual
<1> QED
  BY <1>1, <1>7 DEF a, b, c

\* One more.
LEMMA PrefixGrows ==
    ASSUME NEW S, NEW s \in Seq(S), NEW n \in Nat, n + 1 <= Len(s)
    PROVE  /\ SubSeq(s, 1, n + 1) = Append(SubSeq(s, 1, n), s[n + 1])
           /\ SubSeq(s, 1, n) \in Seq(S)
<1> DEFINE a == SubSeq(s, 1, n)
           b == SubSeq(s, 1, n + 1)
           e == s[n + 1]
<1>0. n \in 0..Len(s) /\ n + 1 \in 0..Len(s) /\ n + 1 \in 1..Len(s)
  OBVIOUS
<1>1. a \in Seq(S) /\ Len(a) = n /\ \A i \in 1..n : a[i] = s[i]
  BY <1>0, Prefix
<1>2. b \in Seq(S) /\ Len(b) = n + 1 /\ \A i \in 1..(n + 1) : b[i] = s[i]
  BY <1>0, Prefix
<1>3. e \in S
  BY <1>0
<1> HIDE DEF a, b
<1>4. /\ Append(a, e) \in Seq(S) /\ Len(Append(a, e)) = n + 1
      /\ \A i \in 1..n : Append(a, e)[i] = a[i]
      /\ Append(a, e)[n + 1] = e
  BY <1>1, <1>3, AppendProperties
<1>5. ASSUME NEW i \in 1..(n + 1) PROVE b[i] = Append(a, e)[i]
  BY <1>1, <1>2, <1>4
<1>6. b = Append(a, e)
  BY <1>2, <1>4, <1>5, SeqEqual
<1> QED
  BY <1>1, <1>6 DEF a, b

\* Concatenation is associative.
Regrouped(x, y, z) == (x \o y) \o z = x \o (y \o z)

LEMMA Regroup ==
    ASSUME NEW S, NEW x \in Seq(S), NEW y \in Seq(S), NEW z \in Seq(S)
    PROVE  Regrouped(x, y, z)
  BY ConcatAssociative DEF Regrouped

\* The entries from m to n.
LEMMA Middle ==
    ASSUME NEW S, NEW s \in Seq(S), NEW m \in 1..Len(s), NEW n \in m..Len(s)
    PROVE  /\ SubSeq(s, m, n) \in Seq(S) /\ Len(SubSeq(s, m, n)) = (n - m) + 1
           /\ \A i \in 1..((n - m) + 1) : SubSeq(s, m, n)[i] = s[m + (i - 1)]
<1>1. m \in Int /\ n \in Int /\ m <= n
  OBVIOUS
<1>2. \A i \in m..n : s[i] \in S
  OBVIOUS
<1> QED
  BY <1>1, <1>2, SubSeqProperties

\* f folds step over the sets of indices up to n, the greatest index last, the
\* way FoldLeft does over a sequence of length n.
FoldsUp(n, base, step, f) ==
    f = [s \in SUBSET (1..n) |-> IF s = {} THEN base ELSE step[Max(s)][f[s \ {Max(s)}]]]

\* The greatest of some numbers from 1 to n.
LEMMA MaxOf ==
    ASSUME NEW n \in Nat, NEW s \in SUBSET (1..n), s # {}
    PROVE  Max(s) \in s /\ (n \in s => Max(s) = n)
<1>1. s \subseteq 0..n
  OBVIOUS
<1>2. Max(s) \in s /\ \A j \in s : j <= Max(s)
  BY <1>1, MaxIsGreatest
<1>3. ASSUME n \in s PROVE Max(s) = n
  <2>1. n <= Max(s) /\ Max(s) \in 1..n
    BY <1>2, <1>3
  <2> QED
    BY <2>1
<1> QED
  BY <1>2, <1>3

\* Such a fold exists.
LEMMA FoldsExist ==
    ASSUME NEW n \in Nat, NEW V, NEW base \in V, NEW step,
           \A v \in V, i \in 1..n : step[i][v] \in V
    PROVE  \E f \in [SUBSET (1..n) -> V] : FoldsUp(n, base, step, f)
<1> DEFINE Good(m) == \E f \in [SUBSET (1..m) -> V] : FoldsUp(m, base, step, f)
           Bad == {m \in 0..n : ~Good(m)}
<1>1. Good(0)
  <2> DEFINE f == [s \in SUBSET (1..0) |-> base]
  <2>1. 1..0 = {} /\ SUBSET (1..0) = {{}}
    OBVIOUS
  <2>2. f \in [SUBSET (1..0) -> V]
    OBVIOUS
  <2>3. FoldsUp(0, base, step, f)
    BY <2>1 DEF FoldsUp
  <2> QED
    BY <2>2, <2>3
<1>2. ASSUME NEW m \in 1..n, Good(m - 1) PROVE Good(m)
  <2>1. PICK f \in [SUBSET (1..(m - 1)) -> V] : FoldsUp(m - 1, base, step, f)
    BY <1>2
  <2> DEFINE g == [s \in SUBSET (1..m) |-> IF m \in s THEN step[m][f[s \ {m}]] ELSE f[s]]
  <2>2. ASSUME NEW s \in SUBSET (1..m)
        PROVE  /\ s \ {m} \in SUBSET (1..(m - 1)) /\ (m \notin s => s \in SUBSET (1..(m - 1)))
    <3>1. ASSUME NEW x \in s, x # m PROVE x \in 1..(m - 1)
      <4>1. x \in 1..m
        OBVIOUS
      <4> QED
        BY <3>1, <4>1
    <3> QED
      BY <3>1
  <2>3. g \in [SUBSET (1..m) -> V]
    <3>1. \A v \in V : step[m][v] \in V
      OBVIOUS
    <3>2. ASSUME NEW s \in SUBSET (1..m) PROVE g[s] \in V
      <4>1. CASE m \in s
        <5>1. g[s] = step[m][f[s \ {m}]] /\ f[s \ {m}] \in V
          BY <2>2, <4>1
        <5> QED
          BY <3>1, <5>1
      <4>2. CASE m \notin s
        BY <2>2, <4>2
      <4> QED
        BY <4>1, <4>2
    <3> QED
      BY <3>2
  <2>4. ASSUME NEW s \in SUBSET (1..m), s # {}
        PROVE  g[s] = step[Max(s)][g[s \ {Max(s)}]]
    <3>1. m \in Nat
      OBVIOUS
    <3>2. Max(s) \in s /\ (m \in s => Max(s) = m) /\ s \ {Max(s)} \in SUBSET (1..m)
      BY <2>4, <3>1, MaxOf
    <3>3. CASE m \in s
      <4>1. g[s] = step[m][f[s \ {m}]]
        BY <3>3
      <4>2. g[s \ {m}] = f[s \ {m}]
        BY <3>2, <3>3
      <4> HIDE DEF g
      <4> QED
        BY <3>2, <3>3, <4>1, <4>2
    <3>4. CASE m \notin s
      <4>1. s \in SUBSET (1..(m - 1))
        BY <2>2, <3>4
      <4>2. f[s] = step[Max(s)][f[s \ {Max(s)}]]
        BY <2>1, <2>4, <4>1 DEF FoldsUp
      <4>3. g[s] = f[s] /\ g[s \ {Max(s)}] = f[s \ {Max(s)}]
        BY <3>2, <3>4
      <4> HIDE DEF g
      <4> QED
        BY <4>2, <4>3
    <3> QED
      BY <3>3, <3>4
  <2>5. g[{}] = base
    BY <2>1 DEF FoldsUp
  <2>6. FoldsUp(m, base, step, g)
    <3>1. g = [s \in SUBSET (1..m) |-> g[s]]
      OBVIOUS
    <3> HIDE DEF g
    <3> QED
      BY <2>4, <2>5, <3>1 DEF FoldsUp
  <2> HIDE DEF g
  <2> QED
    BY <2>3, <2>6
<1>3. Bad = {}
  <2> HIDE DEF Good
  <2> SUFFICES ASSUME Bad # {} PROVE FALSE
    OBVIOUS
  <2>1. PICK m \in Bad : \A j \in Bad : m <= j
    <3>1. Bad \subseteq Nat
      OBVIOUS
    <3> HIDE DEF Bad
    <3> QED
      BY <3>1, LeastNatural
  <2>2. m \in 1..n /\ m - 1 \in 0..n
    BY <1>1, <2>1
  <2>3. Good(m - 1)
    BY <2>1, <2>2
  <2> QED
    BY <1>2, <2>1, <2>2, <2>3
<1> QED
  <2>1. n \in 0..n
    OBVIOUS
  <2>2. Good(n)
    <3> HIDE DEF Good
    <3> QED
      BY <1>3, <2>1
  <2> QED
    BY <2>2

\* Over the first m indices it grows by one at a time.
LEMMA FoldSteps ==
    ASSUME NEW n \in Nat, NEW base, NEW step, NEW f, FoldsUp(n, base, step, f)
    PROVE  f[1..0] = base /\ \A m \in 1..n : f[1..m] = step[m][f[1..(m - 1)]]
<1>1. f[1..0] = base
  <2>1. 1..0 = {}
    OBVIOUS
  <2> QED
    BY <2>1 DEF FoldsUp
<1>2. ASSUME NEW m \in 1..n PROVE f[1..m] = step[m][f[1..(m - 1)]]
  <2>1. 1..m \in SUBSET (1..n) /\ 1..m # {} /\ m \in 1..m /\ 1..m \in SUBSET (1..m) /\ m \in Nat
    OBVIOUS
  <2>2. Max(1..m) = m
    BY <2>1, MaxOf
  <2>3. (1..m) \ {m} = 1..(m - 1)
    OBVIOUS
  <2>4. f[1..m] = step[Max(1..m)][f[(1..m) \ {Max(1..m)}]]
    BY <2>1 DEF FoldsUp
  <2> QED
    BY <2>2, <2>3, <2>4
<1> QED
  BY <1>1, <1>2

LEMMA AddAssoc == \A a, b, c \in Int : (a + b) + c = a + (b + c)
  OBVIOUS

LEMMA AddSub == \A a, b, c \in Nat : c = a + b => c - a = b
  OBVIOUS

LEMMA SubLess == \A a, b, c, d \in Nat : a <= b /\ b - c <= d => a - c <= d
  OBVIOUS

LEMMA LessTrans == \A a, b, c \in Int : a < b /\ b < c => a < c
  OBVIOUS

\* f[o] is the page at o and what is strung together behind it.
Strung(pg, nx, f) ==
    f = [o \in Nat |-> IF pg[o] = << >> THEN << >> ELSE pg[o] \o f[nx[o]]]

\* Pages that come one behind the other and end somewhere can be strung
\* together.
LEMMA ChainsExist ==
    ASSUME NEW T \in Nat, NEW pg, NEW nx,
           \A o \in Nat : pg[o] # << >> => o < T /\ nx[o] \in Nat /\ o < nx[o]
    PROVE  \E f : Strung(pg, nx, f)
<1> DEFINE V(f, o) == IF pg[o] = << >> THEN << >> ELSE pg[o] \o f[nx[o]]
           Good(m) == \E f : /\ f = [o \in Nat |-> f[o]]
                             /\ \A o \in Nat : o + m >= T => f[o] = V(f, o)
           Bad == {m \in 0..T : ~Good(m)}
<1>1. Good(0)
  <2> DEFINE f == [o \in Nat |-> << >>]
  <2>1. f = [o \in Nat |-> f[o]]
    OBVIOUS
  <2>2. ASSUME NEW o \in Nat, o + 0 >= T PROVE f[o] = V(f, o)
    <3>1. ~(o < T)
      BY <2>2
    <3>2. pg[o] = << >>
      BY <3>1
    <3> QED
      BY <3>2
  <2> HIDE DEF f, V
  <2> QED
    BY <2>1, <2>2
<1>2. ASSUME NEW m \in 1..T, Good(m - 1) PROVE Good(m)
  <2>1. PICK f : /\ f = [o \in Nat |-> f[o]]
                 /\ \A o \in Nat : o + (m - 1) >= T => f[o] = V(f, o)
    BY <1>2
  <2> DEFINE g == [o \in Nat |-> IF o + m = T THEN V(f, o) ELSE f[o]]
  <2>2. g = [o \in Nat |-> g[o]]
    OBVIOUS
  <2>3. ASSUME NEW o \in Nat, o + m >= T PROVE g[o] = V(f, o)
    <3> HIDE DEF V
    <3>1. CASE o + m = T
      BY <3>1
    <3>2. CASE o + m # T
      <4>1. o + (m - 1) >= T
        BY <2>3, <3>2
      <4>2. f[o] = V(f, o)
        BY <2>1, <4>1
      <4>3. g[o] = f[o]
        BY <3>2
      <4> QED
        BY <4>2, <4>3
    <3> QED
      BY <3>1, <3>2
  <2>4. ASSUME NEW o \in Nat, o + m >= T, pg[o] # << >> PROVE g[nx[o]] = f[nx[o]]
    <3>1. nx[o] \in Nat /\ o < nx[o]
      BY <2>4
    <3>2. nx[o] + m # T
      BY <2>4, <3>1
    <3> QED
      BY <3>1, <3>2
  <2>5. ASSUME NEW o \in Nat, o + m >= T PROVE g[o] = V(g, o)
    <3>1. g[o] = V(f, o)
      BY <2>3, <2>5
    <3>2. pg[o] # << >> => g[nx[o]] = f[nx[o]]
      BY <2>4, <2>5
    <3> HIDE DEF g
    <3> QED
      BY <3>1, <3>2
  <2> HIDE DEF g, V
  <2> QED
    BY <2>2, <2>5
<1>3. Bad = {}
  <2> HIDE DEF Good
  <2> SUFFICES ASSUME Bad # {} PROVE FALSE
    OBVIOUS
  <2>1. PICK m \in Bad : \A j \in Bad : m <= j
    <3>1. Bad \subseteq Nat
      OBVIOUS
    <3> HIDE DEF Bad
    <3> QED
      BY <3>1, LeastNatural
  <2>2. m \in 1..T /\ m - 1 \in 0..T
    BY <1>1, <2>1
  <2>3. Good(m - 1)
    BY <2>1, <2>2
  <2> QED
    BY <1>2, <2>1, <2>2, <2>3
<1>4. Good(T)
  <2> HIDE DEF Good
  <2>1. T \in 0..T
    OBVIOUS
  <2> QED
    BY <1>3, <2>1
<1>5. PICK f : /\ f = [o \in Nat |-> f[o]]
               /\ \A o \in Nat : o + T >= T => f[o] = V(f, o)
  BY <1>4
<1>6. \A o \in Nat : f[o] = V(f, o)
  <2> HIDE DEF V
  <2>1. \A o \in Nat : o + T >= T
    OBVIOUS
  <2> QED
    BY <1>5, <2>1
<1>7. f = [o \in Nat |-> V(f, o)]
  <2> HIDE DEF V
  <2> QED
    BY <1>5, <1>6, Zenon
<1> QED
  BY <1>7 DEF Strung

\* f[i] are the values of a recursion up to n.
Recurs(n, base, step, f) == f = [i \in 0..n |-> IF i = 0 THEN base ELSE step[i][f[i - 1]]]

\* A recursion that stays in V has values.
LEMMA RecursionExists ==
    ASSUME NEW n \in Nat, NEW V, NEW base \in V, NEW step,
           \A v \in V, i \in 1..n : step[i][v] \in V
    PROVE  \E f \in [0..n -> V] : Recurs(n, base, step, f)
<1>1. PICK F \in [SUBSET (1..n) -> V] : FoldsUp(n, base, step, F)
  BY FoldsExist
<1>2. F[1..0] = base /\ \A m \in 1..n : F[1..m] = step[m][F[1..(m - 1)]]
  BY <1>1, FoldSteps
<1> DEFINE f == [i \in 0..n |-> F[1..i]]
<1>3. \A i \in 0..n : 1..i \in SUBSET (1..n)
  OBVIOUS
<1>4. f \in [0..n -> V]
  BY <1>1, <1>3
<1>5. ASSUME NEW i \in 0..n PROVE f[i] = IF i = 0 THEN base ELSE step[i][f[i - 1]]
  <2>1. CASE i = 0
    BY <1>2, <2>1
  <2>2. CASE i # 0
    <3>1. i \in 1..n /\ i - 1 \in 0..n
      BY <2>2
    <3>2. f[i] = F[1..i] /\ f[i - 1] = F[1..(i - 1)]
      BY <3>1
    <3> HIDE DEF f
    <3> QED
      BY <1>2, <2>2, <3>1, <3>2
  <2> QED
    BY <2>1, <2>2
<1>6. f = [i \in 0..n |-> f[i]]
  OBVIOUS
<1> HIDE DEF f
<1>7. Recurs(n, base, step, f)
  BY <1>5, <1>6 DEF Recurs
<1> QED
  BY <1>4, <1>7

\* A sequence is the longest of its prefixes.
LEMMA WholeSeq ==
    ASSUME NEW S, NEW s \in Seq(S)
    PROVE  SubSeq(s, 1, Len(s)) = s /\ Len(s) \in Nat /\ Len(s) \in 0..Len(s)
<1>1. Len(s) \in 0..Len(s) /\ Len(s) \in Nat
  OBVIOUS
<1>2. /\ SubSeq(s, 1, Len(s)) \in Seq(S) /\ Len(SubSeq(s, 1, Len(s))) = Len(s)
      /\ \A i \in 1..Len(s) : SubSeq(s, 1, Len(s))[i] = s[i]
  BY <1>1, Prefix
<1> QED
  BY <1>1, <1>2, SeqEqual

\* A sequence with one element in front.
LEMMA ConsIs ==
    ASSUME NEW S, NEW s \in Seq(S), NEW x \in S
    PROVE  /\ <<x>> \o s \in Seq(S) /\ Len(<<x>> \o s) = Len(s) + 1
           /\ (<<x>> \o s)[1] = x
           /\ \A i \in 1..Len(s) : (<<x>> \o s)[i + 1] = s[i]
<1>1. <<x>> \in Seq(S) /\ Len(<<x>>) = 1 /\ <<x>>[1] = x
  OBVIOUS
<1>2. Len(s) \in Nat
  OBVIOUS
<1> QED
  BY <1>1, <1>2, ConcatProperties

=============================================================================
