---------------------------- MODULE SchedProofs ----------------------------
(***************************************************************************)
(* Proofs about Sched, for any number of tasks, address spaces and ids and *)
(* any timeslice.  SchedInv is inductive: the ring and the set of          *)
(* allocated tasks have to be known to agree before unlinking or switching *)
(* can be shown safe; zombie_ and wait4()'s child pointer have to be kept  *)
(* apart (one needs a null parent, the other a parent) before freeing can; *)
(* and each space must have one owner before destroying it can.            *)
(*                                                                         *)
(* First the ring as a sequence, then what each piece of schedule(),       *)
(* creation, exit and wait4() preserves, then one step per action.         *)
(***************************************************************************)
EXTENDS Sched, NumberFacts, TLAPS, NaturalsInduction

\* A ring that meets each of its tasks once.
Injective(r) == \A i, j \in DOMAIN r : r[i] = r[j] => i = j

\* unlink_from_ring(): everybody but t stays, once, and the head with them.
LEMMA UnlinkFacts ==
    ASSUME NEW r \in Seq(Task), Injective(r), r # << >>,
           NEW t \in ToSet(r), r[1] # t
    PROVE  LET u == unlink_from_ring(r, t)
           IN  /\ u \in Seq(Task) /\ u # << >> /\ u[1] = r[1]
               /\ Injective(u)
               /\ ToSet(u) = ToSet(r) \ {t}
<1> DEFINE k == IndexIn(r, t)
           u == unlink_from_ring(r, t)
<1>1. k \in DOMAIN r /\ r[k] = t
  BY DEF IndexIn, ToSet
<1>2. k \in 2..Len(r) /\ Len(r) \in Nat
  BY <1>1
<1>3. /\ u \in Seq(Task) /\ Len(u) = Len(r) - 1
      /\ \A i \in 1..Len(u) : u[i] = IF i < k THEN r[i] ELSE r[i + 1]
  <2> HIDE DEF k
  <2>1. u = SubSeq(r, 1, k - 1) \o SubSeq(r, k + 1, Len(r))
    BY DEF unlink_from_ring, RemoveAt, k
  <2>2. SubSeq(r, 1, k - 1) \in Seq(Task) /\ Len(SubSeq(r, 1, k - 1)) = k - 1
    BY <1>2
  <2>3. /\ SubSeq(r, k + 1, Len(r)) \in Seq(Task)
        /\ Len(SubSeq(r, k + 1, Len(r))) = Len(r) - k
    BY <1>2
  <2>. QED  BY <2>1, <2>2, <2>3, <1>2
<1> HIDE DEF k, u
<1>4. u # << >> /\ u[1] = r[1]
  BY <1>2, <1>3
<1>5. Injective(u)
  <2> DEFINE f(i) == IF i < k THEN i ELSE i + 1
  <2> SUFFICES ASSUME NEW i \in 1..Len(u), NEW j \in 1..Len(u), u[i] = u[j]
               PROVE  i = j
    BY <1>3 DEF Injective
  <2>1. /\ f(i) \in DOMAIN r /\ u[i] = r[f(i)]
        /\ f(j) \in DOMAIN r /\ u[j] = r[f(j)]
    BY <1>2, <1>3
  <2>2. f(i) = f(j)
    BY <2>1 DEF Injective
  <2>. QED  BY <2>2, <1>2, <1>3
<1>6. ToSet(u) \subseteq ToSet(r) \ {t}
  BY <1>1, <1>2, <1>3 DEF Injective, ToSet
<1>7. ASSUME NEW x \in ToSet(r) \ {t} PROVE x \in ToSet(u)
  <2>1. PICK i \in DOMAIN r : r[i] = x
    BY DEF ToSet
  <2>2. CASE i < k
    BY <2>1, <2>2, <1>2, <1>3 DEF ToSet
  <2>3. CASE i > k
    <3>1. i - 1 \in 1..Len(u) /\ ~(i - 1 < k) /\ (i - 1) + 1 = i
      BY <2>1, <2>3, <1>2, <1>3
    <3>2. u[i - 1] = x
      BY <2>1, <3>1, <1>3
    <3>. QED  BY <3>1, <3>2, <1>3 DEF ToSet
  <2>. QED  BY <2>1, <2>2, <2>3, <1>1, <1>2
<1>. QED  BY <1>3, <1>4, <1>5, <1>6, <1>7 DEF u

\* spawn()'s splice: the ring gains exactly the new task, the head stays.
LEMMA SpliceFacts ==
    ASSUME NEW r \in Seq(Task), Injective(r), r # << >>,
           NEW t \in Task, t \notin ToSet(r)
    PROVE  LET u == splice_after_current(r, t)
           IN  /\ u \in Seq(Task) /\ u # << >> /\ u[1] = r[1]
               /\ Injective(u)
               /\ ToSet(u) = ToSet(r) \cup {t}
<1> DEFINE u == splice_after_current(r, t)
<1>1. /\ u \in Seq(Task) /\ Len(u) = Len(r) + 1
      /\ \A i \in 1..Len(u) : u[i] = IF i = 1 THEN r[1] ELSE IF i = 2 THEN t ELSE r[i - 1]
  <2>1. u = SubSeq(r, 1, 1) \o <<t>> \o SubSeq(r, 2, Len(r))
    BY DEF splice_after_current, InsertAt
  <2>0. Len(r) \in Nat \ {0}
    OBVIOUS
  <2>2. SubSeq(r, 1, 1) \in Seq(Task) /\ Len(SubSeq(r, 1, 1)) = 1
    BY <2>0
  <2>3. /\ SubSeq(r, 2, Len(r)) \in Seq(Task)
        /\ Len(SubSeq(r, 2, Len(r))) = Len(r) - 1
    BY <2>0
  <2>. HIDE DEF u
  <2>. QED  BY <2>1, <2>2, <2>3
<1> HIDE DEF u
<1>2. u # << >> /\ u[1] = r[1]
  BY <1>1
<1>3. Injective(u)
  <2> DEFINE f(i) == IF i = 1 THEN 1 ELSE i - 1
  <2>0. Len(r) \in Nat \ {0}
    OBVIOUS
  <2> SUFFICES ASSUME NEW i \in 1..Len(u), NEW j \in 1..Len(u), u[i] = u[j]
               PROVE  i = j
    BY <1>1 DEF Injective
  <2>1. ASSUME NEW l \in 1..Len(u)
        PROVE  \/ l = 2 /\ u[l] = t
               \/ l # 2 /\ f(l) \in DOMAIN r /\ u[l] = r[f(l)] /\ u[l] # t
    BY <2>0, <1>1 DEF ToSet
  <2>2. CASE i = 2 \/ j = 2
    BY <2>1, <2>2
  <2>3. CASE i # 2 /\ j # 2
    <3>1. f(i) = f(j)
      BY <2>1, <2>3 DEF Injective
    <3>. QED  BY <3>1, <2>3
  <2>. QED  BY <2>2, <2>3
<1>4. ToSet(u) \subseteq ToSet(r) \cup {t}
  BY <1>1 DEF ToSet
<1>5. ASSUME NEW x \in ToSet(r) \cup {t} PROVE x \in ToSet(u)
  <2>1. CASE x = t
    <3>1. 2 \in DOMAIN u /\ u[2] = t
      BY <1>1
    <3>. QED  BY <3>1, <2>1 DEF ToSet
  <2>2. CASE x # t
    <3>1. PICK i \in DOMAIN r : r[i] = x
      BY <2>2 DEF ToSet
    <3>2. CASE i = 1
      BY <3>1, <3>2, <1>1 DEF ToSet
    <3>3. CASE i # 1
      <4>1. i + 1 \in 1..Len(u) /\ u[i + 1] = x
        BY <3>1, <3>3, <1>1
      <4>. QED  BY <4>1, <1>1 DEF ToSet
    <3>. QED  BY <3>2, <3>3
  <2>. QED  BY <2>1, <2>2
<1>. QED  BY <1>1, <1>2, <1>3, <1>4, <1>5 DEF u

\* Making another task current_ changes where the ring is seen from, no more.
LEMMA RotateFacts ==
    ASSUME NEW r \in Seq(Task), Injective(r), NEW k \in 1..Len(r)
    PROVE  LET u == RotateTo(r, k)
           IN  /\ u \in Seq(Task) /\ u # << >> /\ u[1] = r[k]
               /\ Injective(u)
               /\ ToSet(u) = ToSet(r)
<1> DEFINE u == RotateTo(r, k)
           n == Len(r) - k + 1
<1>1. /\ u \in Seq(Task) /\ Len(u) = Len(r)
      /\ \A i \in 1..Len(u) : u[i] = IF i <= n THEN r[k + i - 1] ELSE r[i - n]
  <2>1. u = SubSeq(r, k, Len(r)) \o SubSeq(r, 1, k - 1)
    BY DEF RotateTo
  <2>2. SubSeq(r, 1, k - 1) \in Seq(Task) /\ Len(SubSeq(r, 1, k - 1)) = k - 1
    OBVIOUS
  <2>3. SubSeq(r, k, Len(r)) \in Seq(Task) /\ Len(SubSeq(r, k, Len(r))) = n
    OBVIOUS
  <2>. HIDE DEF u
  <2>. QED  BY <2>1, <2>2, <2>3
<1>0. n \in 1..Len(r) /\ Len(r) \in Nat /\ n = Len(r) - k + 1
  OBVIOUS
<1> HIDE DEF u, n
<1>2. u # << >> /\ u[1] = r[k]
  <2>1. 1 \in 1..Len(u) /\ 1 <= n /\ k + 1 - 1 = k
    BY <1>1, <1>0
  <2>. QED  BY <2>1, <1>1
<1> DEFINE f(i) == IF i <= n THEN k + i - 1 ELSE i - n
<1>6. ASSUME NEW i \in 1..Len(u)
      PROVE  f(i) \in DOMAIN r /\ u[i] = r[f(i)]
  <2>1. f(i) \in 1..Len(r)
    BY <1>0, <1>1
  <2>2. u[i] = r[f(i)]
    BY <1>1
  <2>. QED  BY <2>1, <2>2
<1>3. Injective(u)
  <2> SUFFICES ASSUME NEW i \in 1..Len(u), NEW j \in 1..Len(u), u[i] = u[j]
               PROVE  i = j
    BY <1>1 DEF Injective
  <2>1. f(i) = f(j)
    <3> HIDE DEF f
    <3>. QED  BY <1>6 DEF Injective
  <2>. QED  BY <2>1, <1>0, <1>1
<1>4. ToSet(u) \subseteq ToSet(r)
  <2> HIDE DEF f
  <2>. QED  BY <1>6, <1>1 DEF ToSet
<1>5. ASSUME NEW x \in ToSet(r) PROVE x \in ToSet(u)
  <2>1. PICK i \in DOMAIN r : r[i] = x
    BY DEF ToSet
  <2>2. CASE i >= k
    <3>1. i - k + 1 \in 1..Len(u) /\ i - k + 1 <= n /\ k + (i - k + 1) - 1 = i
      BY <2>1, <2>2, <1>0, <1>1
    <3>2. u[i - k + 1] = x
      BY <3>1, <2>1, <1>1
    <3>. QED  BY <3>1, <3>2, <1>1 DEF ToSet
  <2>3. CASE i < k
    <3>1. i + n \in 1..Len(u) /\ ~(i + n <= n) /\ (i + n) - n = i
      BY <2>1, <2>3, <1>0, <1>1
    <3>2. u[i + n] = x
      BY <3>1, <2>1, <1>1
    <3>. QED  BY <3>1, <3>2, <1>1 DEF ToSet
  <2>. QED  BY <2>1, <2>2, <2>3
<1>. QED  BY <1>1, <1>2, <1>3, <1>4, <1>5 DEF u

\* next_ready_after(): a Ready task other than current_, or there is none.
LEMMA NextReadyFacts ==
    ASSUME NEW r \in Seq(Task), NEW tk
    PROVE  LET i == next_ready_after(r, tk)
           IN  i = 0 \/ (i \in 2..Len(r) /\ tk[r[i]].state = "Ready")
<1> DEFINE ready == {i \in 2..Len(r) : tk[r[i]].state = "Ready"}
<1>1. CASE ready = {}
  BY <1>1 DEF next_ready_after
<1>2. CASE ready # {}
  <2>1. \E i \in ready : \A j \in ready : i <= j
    <3>1. ready \subseteq Nat
      OBVIOUS
    <3>. HIDE DEF ready
    <3>. QED  BY <3>1, <1>2, LeastNatural
  <2>2. next_ready_after(r, tk) \in ready
    <3>1. next_ready_after(r, tk) = CHOOSE i \in ready : \A j \in ready : i <= j
      BY <1>2 DEF next_ready_after
    <3>. HIDE DEF ready
    <3>. QED  BY <3>1, <2>1
  <2>. QED  BY <2>2
<1>. QED  BY <1>1, <1>2

----------------------------------------------------------------------------
(* The invariant as a predicate of explicit values, so that the halves of    *)
(* schedule() can be followed one after the other within one step.           *)

Typed(r, tk, z, sp, c) ==
    /\ r \in Seq(Task) /\ r # << >>
    /\ tk \in [Task -> TaskRecord]
    /\ z \in Task \cup {NULL}
    /\ c \in Space \cup {KernelSpace}
    /\ sp \subseteq Space

RingOK(r, tk) ==
    /\ ToSet(r) = {t \in Task : tk[t].state # "Free"}
    /\ Injective(r)

RunOK(r, tk) ==
    /\ \A t \in Task : tk[t].state = "Running" => t = r[1]
    /\ tk[r[1]].state \in {"Running", "Dead"}
    /\ \A t \in {Boot, Idle} : tk[t].state \in {"Ready", "Running"}

ZombieOK(tk, z) ==
    z # NULL => tk[z].state = "Dead" /\ tk[z].parent = NULL

WaitOK(tk) ==
    \A t \in Task : tk[t].pc = "wait4" =>
        /\ tk[t].child # NULL
        /\ tk[tk[t].child].state # "Free"
        /\ tk[tk[t].child].parent = t

SpaceOK(tk, sp) ==
    /\ \A t \in Task : tk[t].cr3 # NULL => tk[t].cr3 \in sp
    /\ \A s \in sp : \E t \in Task : tk[t].cr3 = s
    /\ \A t, u \in Task : tk[t].cr3 # NULL /\ tk[t].cr3 = tk[u].cr3 => t = u

LoadOK(r, tk, c) == tk[r[1]].cr3 # NULL => c = tk[r[1]].cr3

RecordOK(tk) ==
    /\ \A t \in Task : tk[t].state = "Free" => tk[t] = FreeBlock
    /\ \A t \in Task : tk[t].pc = "dying" <=> tk[t].state = "Dead"
    /\ \A t \in {Boot, Idle} : tk[t].pc = "hlt"

Inv(r, tk, z, sp, c) ==
    /\ Typed(r, tk, z, sp, c)
    /\ RingOK(r, tk)
    /\ RunOK(r, tk)
    /\ ZombieOK(tk, z)
    /\ WaitOK(tk)
    /\ SpaceOK(tk, sp)
    /\ LoadOK(r, tk, c)
    /\ RecordOK(tk)

\* The head of a non-empty ring is a task on it.
LEMMA HeadFacts ==
    ASSUME NEW r \in Seq(Task), r # << >>
    PROVE  1 \in DOMAIN r /\ r[1] \in Task /\ r[1] \in ToSet(r)
<1>1. 1 \in DOMAIN r /\ r[1] \in Task
  OBVIOUS
<1>. QED  BY <1>1 DEF ToSet

\* Inv is SchedInv without the counters.
LEMMA InvIsSchedInv ==
    SchedInv <=> /\ Inv(ring, task, zombie, spaces, cr3)
                 /\ ticks_left \in 1..Timeslice
                 /\ next_id \in Nat /\ spawned \in Nat
<1>1. ASSUME TypeOK, RecordsAgree
      PROVE  RunOK(ring, task) <=> OneTaskRuns
  <2>1. current \in Task
    BY <1>1, HeadFacts DEF TypeOK, current
  <2>. QED  BY <1>1, <2>1 DEF RunOK, OneTaskRuns, Self, current, RecordsAgree
<1>2. ASSUME TypeOK, RingIsAllocatedTasks
      PROVE  ZombieOK(task, zombie) <=> ZombieIsUnclaimed
  BY <1>2 DEF ZombieOK, ZombieIsUnclaimed, TypeOK, RingIsAllocatedTasks
<1>3. ASSUME TypeOK
      PROVE  SpaceOK(task, spaces) <=> SpacesAreOwned
  <2>1. \A t \in Task : task[t].cr3 # NULL => task[t].cr3 \in Space
    BY <1>3 DEF TypeOK, TaskRecord
  <2>2. \A s \in spaces : s # NULL
    BY <1>3, SchedAssumption DEF TypeOK
  <2>. QED  BY <2>1, <2>2 DEF SpaceOK, SpacesAreOwned
<1>4. RecordOK(task) <=> RecordsAgree
  BY DEF RecordOK, RecordsAgree
<1>5. RingOK(ring, task) <=> RingIsAllocatedTasks
  BY DEF RingOK, RingIsAllocatedTasks, Injective
<1>6. WaitOK(task) <=> WaitedChildIsHeld
  BY DEF WaitOK, WaitedChildIsHeld
<1>7. LoadOK(ring, task, cr3) <=> RunsOnOwnSpace
  BY DEF LoadOK, RunsOnOwnSpace, Self, current
<1>8. TypeOK <=> /\ Typed(ring, task, zombie, spaces, cr3)
                 /\ ticks_left \in 1..Timeslice
                 /\ next_id \in Nat /\ spawned \in Nat
  BY DEF TypeOK, Typed
<1>. QED
  BY <1>1, <1>2, <1>3, <1>4, <1>5, <1>6, <1>7, <1>8 DEF Inv, SchedInv

----------------------------------------------------------------------------
(* What the pieces of the actions preserve *)

\* free_task() of a dead task that is off the CPU, is not the zombie and that
\* no wait4() is looking at: unlinking it and freeing what it owns.
LEMMA FreePreserves ==
    ASSUME NEW r, NEW tk, NEW z, NEW sp, NEW c, Inv(r, tk, z, sp, c),
           NEW t \in Task, tk[t].state = "Dead", t # r[1], t # z,
           \A u \in Task : tk[u].pc = "wait4" => tk[u].child # t
    PROVE  Inv(unlink_from_ring(r, t), [tk EXCEPT ![t] = FreeBlock],
               z, sp \ {tk[t].cr3}, c)
<1> DEFINE r2 == unlink_from_ring(r, t)
           tk2 == [tk EXCEPT ![t] = FreeBlock]
           sp2 == sp \ {tk[t].cr3}
<1>1. /\ r \in Seq(Task) /\ r # << >> /\ Injective(r) /\ t \in ToSet(r)
      /\ tk \in [Task -> TaskRecord]
  BY DEF Inv, Typed, RingOK
<1>2. /\ r2 \in Seq(Task) /\ r2 # << >> /\ r2[1] = r[1]
      /\ Injective(r2) /\ ToSet(r2) = ToSet(r) \ {t}
  BY <1>1, UnlinkFacts
<1>3. r[1] \in Task /\ t \notin {Boot, Idle}
  BY <1>1, HeadFacts DEF Inv, RunOK
<1>4. FreeBlock \in TaskRecord
  BY DEF FreeBlock, TaskRecord, State, Pc
<1>5. /\ tk2 \in [Task -> TaskRecord]
      /\ tk2[t] = FreeBlock
      /\ \A u \in Task : u # t => tk2[u] = tk[u]
  BY <1>1, <1>4
<1>6. FreeBlock.state = "Free" /\ FreeBlock.pc = "none" /\ FreeBlock.cr3 = NULL
  BY DEF FreeBlock
<1> HIDE DEF r2, tk2
<1>7. Typed(r2, tk2, z, sp2, c)
  BY <1>2, <1>5 DEF Inv, Typed
<1>8. RingOK(r2, tk2)
  BY <1>2, <1>5, <1>6 DEF Inv, RingOK
<1>9. RunOK(r2, tk2)
  BY <1>2, <1>3, <1>5, <1>6 DEF Inv, RunOK, Task
<1>10. ZombieOK(tk2, z)
  BY <1>5 DEF Inv, ZombieOK, Typed
<1>11. WaitOK(tk2)
  <2> SUFFICES ASSUME NEW u \in Task, tk2[u].pc = "wait4"
               PROVE  /\ tk2[u].child # NULL
                      /\ tk2[tk2[u].child].state # "Free"
                      /\ tk2[tk2[u].child].parent = u
    BY DEF WaitOK
  <2>1. u # t /\ tk2[u] = tk[u] /\ tk[u].pc = "wait4"
    BY <1>5, <1>6
  <2>2. tk[u].child # NULL /\ tk[u].child \in Task /\ tk[u].child # t
    BY <2>1, <1>1 DEF Inv, WaitOK, TaskRecord
  <2>. QED  BY <2>1, <2>2, <1>5 DEF Inv, WaitOK
<1>12. SpaceOK(tk2, sp2)
  <2>1. ASSUME NEW u \in Task, tk2[u].cr3 # NULL
        PROVE  u # t /\ tk2[u].cr3 = tk[u].cr3 /\ tk[u].cr3 # tk[t].cr3
    BY <2>1, <1>5, <1>6 DEF Inv, SpaceOK
  <2>2. \A u \in Task : tk2[u].cr3 # NULL => tk2[u].cr3 \in sp2
    BY <2>1 DEF Inv, SpaceOK
  <2>3. ASSUME NEW s \in sp2 PROVE \E u \in Task : tk2[u].cr3 = s
    BY <1>5 DEF Inv, SpaceOK
  <2>4. ASSUME NEW u \in Task, NEW v \in Task,
               tk2[u].cr3 # NULL, tk2[u].cr3 = tk2[v].cr3
        PROVE  u = v
    BY <2>1, <2>4 DEF Inv, SpaceOK
  <2>. QED  BY <2>2, <2>3, <2>4 DEF SpaceOK
<1>13. LoadOK(r2, tk2, c)
  BY <1>2, <1>3, <1>5 DEF Inv, LoadOK
<1>14. RecordOK(tk2)
  BY <1>3, <1>5, <1>6 DEF Inv, RecordOK, Task
<1>. QED
  BY <1>7, <1>8, <1>9, <1>10, <1>11, <1>12, <1>13, <1>14 DEF Inv, r2, tk2

\* reap_zombie() when the zombie is off the CPU.
LEMMA ReapPreserves ==
    ASSUME NEW r, NEW tk, NEW z, NEW sp, NEW c, Inv(r, tk, z, sp, c),
           z # NULL, z # r[1]
    PROVE  /\ unlink_from_ring(r, z)[1] = r[1]
           /\ Inv(unlink_from_ring(r, z), [tk EXCEPT ![z] = FreeBlock],
                  NULL, sp \ {tk[z].cr3}, c)
<1>1. z \in Task /\ tk[z].state = "Dead" /\ tk[z].parent = NULL
  BY DEF Inv, Typed, ZombieOK
<1>2. Inv(r, tk, NULL, sp, c)
  BY DEF Inv, Typed, ZombieOK
<1>3. NULL \notin Task
  BY SchedAssumption DEF Task
<1>4. ASSUME NEW u \in Task, tk[u].pc = "wait4" PROVE tk[u].child # z
  BY <1>1, <1>3, <1>4 DEF Inv, WaitOK
<1>5. Inv(unlink_from_ring(r, z), [tk EXCEPT ![z] = FreeBlock],
          NULL, sp \ {tk[z].cr3}, c)
  BY <1>1, <1>2, <1>3, <1>4, FreePreserves
<1>6. unlink_from_ring(r, z)[1] = r[1]
  BY <1>1, UnlinkFacts DEF Inv, Typed, RingOK
<1>. QED  BY <1>5, <1>6

\* schedule() always finds a task to run: another Ready one, or the caller.
LEMMA SwitchNextFacts ==
    ASSUME NEW tk, NEW r, NEW z, NEW sp, NEW c, Inv(r, tk, z, sp, c),
           r[1] = current
    PROVE  LET i == switch_next(r, tk)
           IN  /\ i \in 1..Len(r)
               /\ \/ i = 1 /\ tk[r[1]].state = "Running"
                  \/ i # 1 /\ tk[r[i]].state = "Ready"
<1> DEFINE n == next_ready_after(r, tk)
<1>0. r \in Seq(Task) /\ r # << >>
  BY DEF Inv, Typed
<1>1. n = 0 \/ (n \in 2..Len(r) /\ tk[r[n]].state = "Ready")
  BY <1>0, NextReadyFacts
<1> HIDE DEF n
<1>2. CASE n # 0
  <2>1. switch_next(r, tk) = n
    BY <1>2 DEF switch_next, n
  <2>. QED  BY <2>1, <1>0, <1>1, <1>2
<1>3. CASE n = 0 /\ tk[r[1]].state = "Running"
  <2>1. switch_next(r, tk) = 1
    BY <1>3 DEF switch_next, n
  <2>2. 1 \in 1..Len(r)
    BY <1>0
  <2>. QED  BY <2>1, <2>2, <1>3
<1>4. CASE n = 0 /\ tk[r[1]].state # "Running"
  <2> DEFINE i == IndexIn(r, Idle)
  <2>1. switch_next(r, tk) = i
    BY <1>4 DEF switch_next, n
  <2>2. Idle \in ToSet(r)
    BY DEF Inv, RingOK, RunOK, Task
  <2>3. i \in DOMAIN r /\ r[i] = Idle
    BY <2>2 DEF ToSet, IndexIn
  <2> HIDE DEF i
  <2>4. tk[Idle].state = "Ready" /\ i # 1
    BY <1>4, <2>3 DEF Inv, RunOK, Task
  <2>. QED  BY <2>1, <2>3, <2>4, <1>0
<1>. QED  BY <1>2, <1>3, <1>4

\* The switch half of schedule(): states of the two tasks, ring and CR3.
LEMMA SwitchPreserves ==
    ASSUME NEW r, NEW tk, NEW z, NEW sp, Inv(r, tk, z, sp, cr3),
           r[1] = current, switch(r, tk)
    PROVE  /\ Inv(ring', task', z, sp, cr3')
           /\ \A t \in Task : tk[t].state \in {"Dead", "Free"}
                                 => task'[t].state = tk[t].state
           /\ ticks_left' = Timeslice
<1> DEFINE i == switch_next(r, tk)
           next == r[i]
           old == r[1]
<1>1. /\ r \in Seq(Task) /\ r # << >> /\ Injective(r)
      /\ tk \in [Task -> TaskRecord]
  BY DEF Inv, Typed, RingOK
<1>2. /\ i \in 1..Len(r)
      /\ \/ i = 1 /\ tk[old].state = "Running"
         \/ i # 1 /\ tk[next].state = "Ready"
  BY SwitchNextFacts
<1>3. /\ ring' = RotateTo(r, i)
      /\ task' = IF next = current THEN tk
                 ELSE [tk EXCEPT ![current].state =
                                     IF @ = "Running" THEN "Ready" ELSE @,
                                 ![next].state = "Running"]
      /\ cr3' = IF next # current /\ tk[next].cr3 # NULL
                THEN tk[next].cr3 ELSE cr3
      /\ ticks_left' = Timeslice
  BY DEF switch, switched_tasks, switched_cr3, refilled_ticks
<1> HIDE DEF i
<1>4. /\ ring' \in Seq(Task) /\ ring' # << >> /\ ring'[1] = next
      /\ Injective(ring') /\ ToSet(ring') = ToSet(r)
  BY <1>1, <1>2, <1>3, RotateFacts
<1>5. old \in Task /\ next \in Task /\ old = current
  BY <1>1, <1>2, HeadFacts
<1>6. CASE next = current
  <2>1. task' = tk /\ cr3' = cr3 /\ ring'[1] = r[1]
    BY <1>3, <1>4, <1>6
  <2>2. Typed(ring', task', z, sp, cr3')
    BY <2>1, <1>4 DEF Inv, Typed
  <2>3. RingOK(ring', task')
    BY <2>1, <1>4 DEF Inv, RingOK
  <2>4. RunOK(ring', task') /\ LoadOK(ring', task', cr3')
    BY <2>1 DEF Inv, RunOK, LoadOK
  <2>. QED  BY <2>1, <2>2, <2>3, <2>4, <1>3 DEF Inv
<1>7. CASE next # current
  <2> DEFINE tk2 == task'
  <2>1. tk[next].state = "Ready"
    BY <1>2, <1>5, <1>7
  <2>2. tk[old].state \in {"Running", "Dead"}
    BY DEF Inv, RunOK
  <2>3. /\ tk2 \in [Task -> TaskRecord]
        /\ \A t \in Task : t \notin {old, next} => tk2[t] = tk[t]
        /\ \A t \in Task : /\ tk2[t].pc = tk[t].pc /\ tk2[t].child = tk[t].child
                          /\ tk2[t].parent = tk[t].parent
                          /\ tk2[t].cr3 = tk[t].cr3
        /\ tk2[next].state = "Running"
        /\ tk2[old].state = IF tk[old].state = "Running" THEN "Ready" ELSE "Dead"
    <3> DEFINE s == IF tk[old].state = "Running" THEN "Ready" ELSE "Dead"
    <3>1. s \in State /\ "Running" \in State
      BY DEF State
    <3>2. task' = [tk EXCEPT ![old].state = IF @ = "Running" THEN "Ready" ELSE @,
                             ![next].state = "Running"]
      BY <1>3, <1>5, <1>7
    <3>3. /\ tk2[next] = [tk[next] EXCEPT !.state = "Running"]
          /\ tk2[old] = [tk[old] EXCEPT !.state = s]
          /\ \A t \in Task : t \notin {old, next} => tk2[t] = tk[t]
          /\ DOMAIN tk2 = Task /\ tk2 = [t \in Task |-> tk2[t]]
      BY <3>2, <1>1, <1>5, <1>7, <2>2
    <3> HIDE DEF tk2, s
    <3>4. ASSUME NEW x \in State, NEW rec \in TaskRecord
          PROVE  /\ [rec EXCEPT !.state = x] \in TaskRecord
                 /\ [rec EXCEPT !.state = x].state = x
                 /\ [rec EXCEPT !.state = x].pc = rec.pc
                 /\ [rec EXCEPT !.state = x].child = rec.child
                 /\ [rec EXCEPT !.state = x].parent = rec.parent
                 /\ [rec EXCEPT !.state = x].cr3 = rec.cr3
      BY DEF TaskRecord
    <3>5. tk[old] \in TaskRecord /\ tk[next] \in TaskRecord
      BY <1>1, <1>5
    <3>6. \A t \in Task : tk2[t] \in TaskRecord
      BY <3>1, <3>3, <3>4, <3>5, <1>1, <1>5
    <3>7. tk2 \in [Task -> TaskRecord]
      BY <3>3, <3>6
    <3>8. /\ tk2[next].state = "Running" /\ tk2[old].state = s
      BY <3>1, <3>3, <3>4, <3>5
    <3>9. \A t \in Task : /\ tk2[t].pc = tk[t].pc /\ tk2[t].child = tk[t].child
                          /\ tk2[t].parent = tk[t].parent
                          /\ tk2[t].cr3 = tk[t].cr3
      <4> TAKE t \in Task
      <4>1. CASE t = next
        BY <4>1, <3>1, <3>3, <3>4, <3>5
      <4>2. CASE t = old
        BY <4>2, <3>1, <3>3, <3>4, <3>5
      <4>3. CASE t \notin {old, next}
        BY <4>3, <3>3
      <4>. QED  BY <4>1, <4>2, <4>3
    <3>. QED  BY <3>3, <3>7, <3>8, <3>9 DEF s
  <2>4. cr3' = IF tk[next].cr3 # NULL THEN tk[next].cr3 ELSE cr3
    BY <1>3, <1>7
  <2> HIDE DEF tk2
  <2>5. Typed(ring', tk2, z, sp, cr3')
    <3>1. cr3' \in Space \cup {KernelSpace}
      BY <2>4, <1>1, <1>5 DEF Inv, Typed, TaskRecord
    <3>. QED  BY <3>1, <2>3, <1>4 DEF Inv, Typed
  <2>6. \A t \in Task : /\ tk2[t].state = "Free" <=> tk[t].state = "Free"
                        /\ tk2[t].state = "Dead" <=> tk[t].state = "Dead"
    BY <2>1, <2>2, <2>3, <1>5
  <2>7. RingOK(ring', tk2)
    BY <2>6, <1>4 DEF Inv, RingOK
  <2>8. RunOK(ring', tk2)
    <3>1. \A t \in Task : tk2[t].state = "Running" => t = next
      BY <2>3, <1>5, <1>7 DEF Inv, RunOK
    <3>2. \A t \in {Boot, Idle} : tk2[t].state \in {"Ready", "Running"}
      BY <2>3, <1>5 DEF Inv, RunOK, Task
    <3>. QED  BY <3>1, <3>2, <2>3, <1>4 DEF RunOK
  <2>9. ZombieOK(tk2, z)
    BY <2>3, <2>6 DEF Inv, ZombieOK, Typed
  <2>10. WaitOK(tk2)
    <3> SUFFICES ASSUME NEW u \in Task, tk2[u].pc = "wait4"
                 PROVE  /\ tk2[u].child # NULL
                        /\ tk2[tk2[u].child].state # "Free"
                        /\ tk2[tk2[u].child].parent = u
      BY DEF WaitOK
    <3>1. tk[u].pc = "wait4" /\ tk2[u].child = tk[u].child
      BY <2>3
    <3>2. tk[u].child # NULL /\ tk[u].child \in Task
      BY <3>1, <1>1 DEF Inv, WaitOK, TaskRecord
    <3>. QED  BY <3>1, <3>2, <2>3, <2>6 DEF Inv, WaitOK
  <2>11. SpaceOK(tk2, sp)
    BY <2>3 DEF Inv, SpaceOK
  <2>12. LoadOK(ring', tk2, cr3')
    BY <2>3, <2>4, <1>4, <1>5 DEF LoadOK
  <2>13. RecordOK(tk2)
    <3>1. \A t \in Task : tk2[t].state = "Free" => tk2[t] = FreeBlock
      BY <2>1, <2>2, <2>3, <2>6 DEF Inv, RecordOK
    <3>. QED  BY <3>1, <2>3, <2>6 DEF Inv, RecordOK, Task
  <2>. QED
    BY <2>5, <2>6, <2>7, <2>8, <2>9, <2>10, <2>11, <2>12, <2>13, <1>3
       DEF Inv, tk2
<1>. QED  BY <1>6, <1>7

\* The whole of schedule(), reaping included.
LEMMA SchedulePreserves ==
    ASSUME NEW tk, NEW z, Inv(ring, tk, z, spaces, cr3), schedule(tk, z)
    PROVE  /\ Inv(ring, task, zombie, spaces, cr3)'
           /\ \A t \in Task : tk[t].state = "Dead"
                                 => task'[t].state \in {"Dead", "Free"}
           /\ ticks_left' = Timeslice
<1>1. CASE reapable(z)
  <2> DEFINE r2 == unlink_from_ring(ring, z)
             tk2 == [tk EXCEPT ![z] = FreeBlock]
             sp2 == spaces \ {tk[z].cr3}
  <2>1. r2[1] = current /\ Inv(r2, tk2, NULL, sp2, cr3)
    BY <1>1, ReapPreserves DEF reapable, current
  <2>2. zombie' = NULL /\ spaces' = sp2 /\ switch(r2, tk2)
    BY <1>1 DEF schedule, free_task_spaces, free_task_block
  <2>3. \A t \in Task : t # z => tk2[t] = tk[t]
    BY DEF Inv, Typed
  <2>4. z \in Task => tk2[z].state = "Free"
    BY DEF Inv, Typed, FreeBlock
  <2> HIDE DEF r2, tk2
  <2>5. /\ Inv(ring', task', NULL, sp2, cr3')
        /\ \A t \in Task : tk2[t].state \in {"Dead", "Free"}
                              => task'[t].state = tk2[t].state
        /\ ticks_left' = Timeslice
    BY <2>1, <2>2, SwitchPreserves
  <2>6. Inv(ring, task, zombie, spaces, cr3)'
    BY <2>2, <2>5 DEF Inv, Typed, RingOK, RunOK, ZombieOK, WaitOK, SpaceOK,
                      LoadOK, RecordOK, Injective
  <2>. QED  BY <2>3, <2>4, <2>5, <2>6
<1>2. CASE ~reapable(z)
  <2>1. zombie' = z /\ spaces' = spaces /\ switch(ring, tk)
    BY <1>2 DEF schedule
  <2>2. /\ Inv(ring', task', z, spaces, cr3')
        /\ \A t \in Task : tk[t].state \in {"Dead", "Free"}
                              => task'[t].state = tk[t].state
        /\ ticks_left' = Timeslice
    BY <2>1, SwitchPreserves DEF current
  <2>. QED  BY <2>1, <2>2
<1>. QED  BY <1>1, <1>2

----------------------------------------------------------------------------
(* Steps of a task that is not boot or idle *)

\* A task in a kernel or user state other than the boot and idle loops.
LEMMA SelfFacts ==
    ASSUME SchedInv
    PROVE  /\ current \in Task /\ current = ring[1] /\ Self \in TaskRecord
           /\ Self.pc # "hlt" => current \in Addr
           /\ Self.pc \notin {"hlt", "dying"} => Self.state = "Running"
           /\ Self.pc = "dying" => Self.state = "Dead"
<1>1. current \in Task
  BY HeadFacts DEF SchedInv, TypeOK, current
<1>. QED
  BY <1>1 DEF SchedInv, TypeOK, OneTaskRuns, RecordsAgree, Self, current, Task

\* Moving the task on the CPU to another program point, possibly into wait4().
LEMMA MovePreserves ==
    ASSUME NEW r, NEW tk, NEW z, NEW sp, NEW c, Inv(r, tk, z, sp, c),
           tk[r[1]].state = "Running", r[1] \in Addr,
           NEW p \in Pc \ {"dying", "none"}, NEW ch \in Task \cup {NULL},
           p = "wait4" => /\ ch # NULL /\ tk[ch].state # "Free"
                          /\ tk[ch].parent = r[1]
    PROVE  Inv(r, [tk EXCEPT ![r[1]].pc = p, ![r[1]].child = ch], z, sp, c)
<1> DEFINE t == r[1]
           tk2 == [tk EXCEPT ![t].pc = p, ![t].child = ch]
<1>1. t \in Task /\ t \notin {Boot, Idle} /\ tk \in [Task -> TaskRecord]
  BY SchedAssumption DEF Task, Inv, Typed
<1>2. /\ tk2 \in [Task -> TaskRecord]
      /\ \A u \in Task : u # t => tk2[u] = tk[u]
      /\ tk2[t].pc = p /\ tk2[t].child = ch /\ tk2[t].state = tk[t].state
      /\ tk2[t].parent = tk[t].parent /\ tk2[t].cr3 = tk[t].cr3
  BY <1>1 DEF TaskRecord
<1>3. \A u \in Task : /\ tk2[u].state = tk[u].state
                      /\ tk2[u].parent = tk[u].parent /\ tk2[u].cr3 = tk[u].cr3
  BY <1>2
<1> HIDE DEF tk2
<1>4. Typed(r, tk2, z, sp, c)
  BY <1>2 DEF Inv, Typed
<1>5. RingOK(r, tk2)
  BY <1>3 DEF Inv, RingOK
<1>6. RunOK(r, tk2)
  BY <1>1, <1>3 DEF Inv, RunOK, Task
<1>7. ZombieOK(tk2, z)
  BY <1>3 DEF Inv, ZombieOK, Typed
<1>8. WaitOK(tk2)
  <2> SUFFICES ASSUME NEW u \in Task, tk2[u].pc = "wait4"
               PROVE  /\ tk2[u].child # NULL
                      /\ tk2[tk2[u].child].state # "Free"
                      /\ tk2[tk2[u].child].parent = u
    BY DEF WaitOK
  <2>1. CASE u = t
    BY <2>1, <1>2, <1>3
  <2>2. CASE u # t
    <3>1. tk[u].pc = "wait4" /\ tk2[u].child = tk[u].child
      BY <2>2, <1>2
    <3>2. tk[u].child # NULL /\ tk[u].child \in Task
      BY <3>1, <1>1 DEF Inv, WaitOK, TaskRecord
    <3>. QED  BY <3>1, <3>2, <1>3 DEF Inv, WaitOK
  <2>. QED  BY <2>1, <2>2
<1>9. SpaceOK(tk2, sp)
  BY <1>3 DEF Inv, SpaceOK
<1>10. LoadOK(r, tk2, c)
  BY <1>1, <1>3 DEF Inv, LoadOK
<1>11. RecordOK(tk2)
  BY <1>1, <1>2, <1>3 DEF Inv, RecordOK, Task
<1>. QED
  BY <1>4, <1>5, <1>6, <1>7, <1>8, <1>9, <1>10, <1>11 DEF Inv, tk2

\* exit_current()'s assignments; the zombie is set only for want of a parent.
LEMMA DeathPreserves ==
    ASSUME NEW r, NEW tk, NEW z, NEW sp, NEW c, Inv(r, tk, z, sp, c),
           r[1] \in Addr, NEW z2 \in {z, r[1]},
           z2 # z => tk[r[1]].parent = NULL
    PROVE  Inv(r, [tk EXCEPT ![r[1]].state = "Dead", ![r[1]].pc = "dying"],
               z2, sp, c)
<1> DEFINE t == r[1]
           tk2 == [tk EXCEPT ![t].state = "Dead", ![t].pc = "dying"]
<1>1. /\ t \in Task /\ t \notin {Boot, Idle} /\ tk \in [Task -> TaskRecord]
      /\ tk[t].state \in {"Running", "Dead"} /\ NULL \notin Task
  BY SchedAssumption DEF Task, Inv, Typed, RunOK
<1>2. /\ tk2 \in [Task -> TaskRecord]
      /\ \A u \in Task : u # t => tk2[u] = tk[u]
      /\ tk2[t].pc = "dying" /\ tk2[t].state = "Dead"
      /\ tk2[t].parent = tk[t].parent /\ tk2[t].cr3 = tk[t].cr3
  BY <1>1 DEF TaskRecord, State, Pc
<1>3. \A u \in Task : /\ tk2[u].state = "Free" <=> tk[u].state = "Free"
                      /\ tk2[u].parent = tk[u].parent /\ tk2[u].cr3 = tk[u].cr3
  BY <1>1, <1>2
<1> HIDE DEF tk2
<1>4. Typed(r, tk2, z2, sp, c)
  BY <1>1, <1>2 DEF Inv, Typed
<1>5. RingOK(r, tk2)
  BY <1>3 DEF Inv, RingOK
<1>6. RunOK(r, tk2)
  BY <1>1, <1>2 DEF Inv, RunOK, Task
<1>7. ZombieOK(tk2, z2)
  BY <1>1, <1>2 DEF Inv, ZombieOK, Typed
<1>8. WaitOK(tk2)
  <2> SUFFICES ASSUME NEW u \in Task, tk2[u].pc = "wait4"
               PROVE  /\ tk2[u].child # NULL
                      /\ tk2[tk2[u].child].state # "Free"
                      /\ tk2[tk2[u].child].parent = u
    BY DEF WaitOK
  <2>1. u # t /\ tk[u].pc = "wait4" /\ tk2[u].child = tk[u].child
    BY <1>2
  <2>2. tk[u].child # NULL /\ tk[u].child \in Task
    BY <2>1, <1>1 DEF Inv, WaitOK, TaskRecord
  <2>. QED  BY <2>1, <2>2, <1>3 DEF Inv, WaitOK
<1>9. SpaceOK(tk2, sp)
  BY <1>3 DEF Inv, SpaceOK
<1>10. LoadOK(r, tk2, c)
  BY <1>1, <1>3 DEF Inv, LoadOK
<1>11. RecordOK(tk2)
  BY <1>1, <1>2 DEF Inv, RecordOK, Task
<1>. QED
  BY <1>4, <1>5, <1>6, <1>7, <1>8, <1>9, <1>10, <1>11 DEF Inv, tk2

\* task::create() and spawn(): a new Ready task spliced in after current_.
LEMMA SpawnPreserves ==
    ASSUME NEW r, NEW tk, NEW z, NEW sp, NEW c, Inv(r, tk, z, sp, c),
           NEW a \in Addr, tk[a].state = "Free", NEW s \in Space \ sp,
           NEW rec \in TaskRecord, rec.state = "Ready", rec.cr3 = s,
           rec.pc \in {"linux_entry", "fork_entry"}
    PROVE  Inv(splice_after_current(r, a), [tk EXCEPT ![a] = rec],
               z, sp \cup {s}, c)
<1> DEFINE r2 == splice_after_current(r, a)
           tk2 == [tk EXCEPT ![a] = rec]
<1>1. /\ r \in Seq(Task) /\ r # << >> /\ Injective(r) /\ a \notin ToSet(r)
      /\ tk \in [Task -> TaskRecord] /\ a \in Task /\ a \notin {Boot, Idle}
      /\ NULL \notin Space /\ tk[a] = FreeBlock /\ a # r[1]
  BY SchedAssumption DEF Inv, Typed, RingOK, Task, RecordOK, RunOK
<1>2. /\ r2 \in Seq(Task) /\ r2 # << >> /\ r2[1] = r[1]
      /\ Injective(r2) /\ ToSet(r2) = ToSet(r) \cup {a}
  BY <1>1, SpliceFacts
<1>3. /\ tk2 \in [Task -> TaskRecord] /\ tk2[a] = rec
      /\ \A u \in Task : u # a => tk2[u] = tk[u]
  BY <1>1
<1>4. FreeBlock.cr3 = NULL
  BY DEF FreeBlock
<1>5. r[1] \in Task
  BY <1>1, HeadFacts
<1> HIDE DEF r2, tk2
<1>6. Typed(r2, tk2, z, sp \cup {s}, c)
  BY <1>2, <1>3 DEF Inv, Typed
<1>7. RingOK(r2, tk2)
  BY <1>1, <1>2, <1>3 DEF Inv, RingOK
<1>8. RunOK(r2, tk2)
  BY <1>1, <1>2, <1>3, <1>5 DEF Inv, RunOK, Task
<1>9. ZombieOK(tk2, z)
  BY <1>1, <1>3 DEF Inv, ZombieOK, Typed
<1>10. WaitOK(tk2)
  <2> SUFFICES ASSUME NEW u \in Task, tk2[u].pc = "wait4"
               PROVE  /\ tk2[u].child # NULL
                      /\ tk2[tk2[u].child].state # "Free"
                      /\ tk2[tk2[u].child].parent = u
    BY DEF WaitOK
  <2>1. u # a /\ tk2[u] = tk[u] /\ tk[u].pc = "wait4"
    BY <1>3
  <2>2. tk[u].child # NULL /\ tk[u].child \in Task /\ tk[u].child # a
    BY <2>1, <1>1 DEF Inv, WaitOK, TaskRecord
  <2>. QED  BY <2>1, <2>2, <1>3 DEF Inv, WaitOK
<1>11. SpaceOK(tk2, sp \cup {s})
  <2>1. \A u \in Task : tk2[u].cr3 # NULL => tk2[u].cr3 \in sp \cup {s}
    BY <1>3 DEF Inv, SpaceOK
  <2>2. ASSUME NEW x \in sp PROVE \E u \in Task : tk2[u].cr3 = x
    <3>1. PICK u \in Task : tk[u].cr3 = x
      BY DEF Inv, SpaceOK
    <3>2. u # a
      BY <3>1, <1>1, <1>4 DEF Inv, Typed
    <3>. QED  BY <3>1, <3>2, <1>3
  <2>3. \E u \in Task : tk2[u].cr3 = s
    BY <1>1, <1>3
  <2>4. ASSUME NEW u \in Task, NEW v \in Task,
               tk2[u].cr3 # NULL, tk2[u].cr3 = tk2[v].cr3
        PROVE  u = v
    BY <2>4, <1>1, <1>3 DEF Inv, SpaceOK
  <2>. QED  BY <2>1, <2>2, <2>3, <2>4 DEF SpaceOK
<1>12. LoadOK(r2, tk2, c)
  BY <1>1, <1>2, <1>3, <1>5 DEF Inv, LoadOK
<1>13. RecordOK(tk2)
  BY <1>1, <1>3 DEF Inv, RecordOK, Task
<1>. QED
  BY <1>6, <1>7, <1>8, <1>9, <1>10, <1>11, <1>12, <1>13 DEF Inv, r2, tk2

\* A committed execve(): a fresh space replaces the caller's.
LEMMA ExecvePreserves ==
    ASSUME NEW r, NEW tk, NEW z, NEW sp, NEW c, Inv(r, tk, z, sp, c),
           tk[r[1]].state = "Running", NEW s \in Space \ sp
    PROVE  Inv(r, [tk EXCEPT ![r[1]].cr3 = s], z,
               (sp \ {tk[r[1]].cr3}) \cup {s}, s)
<1> DEFINE t == r[1]
           tk2 == [tk EXCEPT ![t].cr3 = s]
           sp2 == (sp \ {tk[t].cr3}) \cup {s}
<1>1. t \in Task /\ tk \in [Task -> TaskRecord] /\ NULL \notin Space
  BY SchedAssumption, HeadFacts DEF Inv, Typed
<1>2. /\ tk2 \in [Task -> TaskRecord]
      /\ \A u \in Task : u # t => tk2[u] = tk[u]
      /\ tk2[t].cr3 = s
      /\ \A u \in Task : /\ tk2[u].state = tk[u].state
                          /\ tk2[u].parent = tk[u].parent
                          /\ tk2[u].pc = tk[u].pc /\ tk2[u].child = tk[u].child
  BY <1>1 DEF TaskRecord
<1> HIDE DEF tk2
<1>3. Typed(r, tk2, z, sp2, s)
  BY <1>2 DEF Inv, Typed
<1>4. RingOK(r, tk2)
  BY <1>2 DEF Inv, RingOK
<1>5. RunOK(r, tk2)
  BY <1>1, <1>2 DEF Inv, RunOK, Task
<1>6. ZombieOK(tk2, z)
  BY <1>2 DEF Inv, ZombieOK, Typed
<1>7. WaitOK(tk2)
  <2> SUFFICES ASSUME NEW u \in Task, tk2[u].pc = "wait4"
               PROVE  /\ tk2[u].child # NULL
                      /\ tk2[tk2[u].child].state # "Free"
                      /\ tk2[tk2[u].child].parent = u
    BY DEF WaitOK
  <2>1. tk[u].child # NULL /\ tk[u].child \in Task
    BY <1>1, <1>2 DEF Inv, WaitOK, TaskRecord
  <2>. QED  BY <2>1, <1>2 DEF Inv, WaitOK
<1>8. SpaceOK(tk2, sp2)
  <2>1. ASSUME NEW u \in Task, u # t, tk2[u].cr3 # NULL
        PROVE  /\ tk2[u].cr3 = tk[u].cr3 /\ tk2[u].cr3 \in sp
               /\ tk2[u].cr3 # tk[t].cr3 /\ tk2[u].cr3 # s
    BY <2>1, <1>1, <1>2 DEF Inv, SpaceOK
  <2>2. \A u \in Task : tk2[u].cr3 # NULL => tk2[u].cr3 \in sp2
    BY <2>1, <1>2
  <2>3. ASSUME NEW x \in sp2 PROVE \E u \in Task : tk2[u].cr3 = x
    BY <1>1, <1>2 DEF Inv, SpaceOK
  <2>4. ASSUME NEW u \in Task, NEW v \in Task,
               tk2[u].cr3 # NULL, tk2[u].cr3 = tk2[v].cr3
        PROVE  u = v
    BY <2>1, <2>4, <1>1, <1>2 DEF Inv, SpaceOK
  <2>. QED  BY <2>2, <2>3, <2>4 DEF SpaceOK
<1>9. LoadOK(r, tk2, s)
  BY <1>2 DEF LoadOK
<1>10. RecordOK(tk2)
  <2>1. \A u \in Task : tk2[u].state = "Free" => tk2[u] = FreeBlock
    BY <1>1, <1>2 DEF Inv, RecordOK
  <2>. QED  BY <2>1, <1>2 DEF Inv, RecordOK, Task
<1>. QED
  BY <1>3, <1>4, <1>5, <1>6, <1>7, <1>8, <1>9, <1>10 DEF Inv, tk2

----------------------------------------------------------------------------
(* Every step of the specification *)

\* A change of program point that keeps the child pointer.
LEMMA PcPreserves ==
    ASSUME SchedInv, current \in Addr, Self.state = "Running",
           NEW p \in Pc \ {"dying", "none", "wait4"}
    PROVE  Inv(ring, [task EXCEPT ![current].pc = p], zombie, spaces, cr3)
<1>1. Inv(ring, task, zombie, spaces, cr3)
  BY InvIsSchedInv
<1>2. Self.child \in Task \cup {NULL} /\ task \in [Task -> TaskRecord]
  BY SelfFacts DEF TaskRecord, SchedInv, TypeOK
<1>3. [task EXCEPT ![current].pc = p]
         = [task EXCEPT ![current].pc = p, ![current].child = Self.child]
  BY <1>2, SelfFacts DEF Self, TaskRecord
<1>4. Inv(ring, [task EXCEPT ![ring[1]].pc = p, ![ring[1]].child = Self.child],
          zombie, spaces, cr3)
  BY <1>1, <1>2, MovePreserves DEF current, Self
<1>. QED  BY <1>3, <1>4 DEF current

\* wait4()'s tail: the caller holds the only pointer to the dead child.
LEMMA CollectPreserves ==
    ASSUME SchedInv, current \in Addr, Self.state = "Running",
           NEW c \in Task, task[c].state = "Dead", task[c].parent = current,
           wait4_collect(c)
    PROVE  /\ Inv(ring, task, zombie, spaces, cr3)'
           /\ \A t \in Task : task[t].state = "Dead"
                                 => task'[t].state \in {"Dead", "Free"}
<1> DEFINE tk1 == [task EXCEPT ![current].pc = "user", ![current].child = NULL]
           tk2 == [tk1 EXCEPT ![c] = FreeBlock]
<1>1. /\ current \in Task /\ current = ring[1] /\ current # c
      /\ task \in [Task -> TaskRecord] /\ NULL \notin Task
      /\ zombie # c
  BY SchedAssumption, SelfFacts
     DEF SchedInv, TypeOK, Self, Task, ZombieIsUnclaimed
<1>2. Inv(ring, tk1, zombie, spaces, cr3)
  <2>1. "user" \in Pc \ {"dying", "none"}
    BY DEF Pc
  <2>2. Inv(ring, task, zombie, spaces, cr3)
    BY InvIsSchedInv
  <2>. QED  BY <2>1, <2>2, <1>1, MovePreserves DEF Self
<1>3. /\ tk1[c] = task[c]
      /\ \A u \in Task : u # current => tk1[u] = task[u]
      /\ tk1[current].pc = "user" /\ tk1[current].state = "Running"
  BY <1>1 DEF TaskRecord, Self
<1>4. task' = tk2 /\ ring' = unlink_from_ring(ring, c)
      /\ spaces' = spaces \ {tk1[c].cr3} /\ zombie' = zombie /\ cr3' = cr3
  BY <1>1, <1>3 DEF wait4_collect, free_task_block, free_task_spaces
<1>5. ASSUME NEW u \in Task, tk1[u].pc = "wait4" PROVE tk1[u].child # c
  BY <1>3, <1>5 DEF SchedInv, WaitedChildIsHeld
<1>6. \A t \in Task : tk1[t].state = "Dead" <=> task[t].state = "Dead"
  BY <1>1, <1>3 DEF Self
<1> HIDE DEF tk1
<1>7. Inv(unlink_from_ring(ring, c), tk2, zombie, spaces \ {tk1[c].cr3}, cr3)
  BY <1>1, <1>2, <1>3, <1>5, FreePreserves
<1>8. \A t \in Task : tk2[t] = IF t = c THEN FreeBlock ELSE tk1[t]
  BY <1>2 DEF Inv, Typed
<1>9. \A t \in Task : task[t].state = "Dead"
                          => task'[t].state \in {"Dead", "Free"}
  BY <1>4, <1>6, <1>8 DEF FreeBlock
<1>. QED  BY <1>4, <1>7, <1>9

\* wait4()'s loop body: block on a child that is still alive.
LEMMA BlockPreserves ==
    ASSUME SchedInv, current \in Addr, Self.state = "Running",
           NEW c \in Task, task[c].state # "Free", task[c].parent = current,
           wait4_block(c)
    PROVE  /\ Inv(ring, task, zombie, spaces, cr3)'
           /\ \A t \in Task : task[t].state = "Dead"
                                 => task'[t].state \in {"Dead", "Free"}
           /\ ticks_left' = Timeslice
<1> DEFINE tk1 == [task EXCEPT ![current].pc = "wait4", ![current].child = c]
<1>1. /\ current \in Task /\ current = ring[1]
      /\ task \in [Task -> TaskRecord] /\ NULL \notin Task
  BY SchedAssumption, SelfFacts DEF SchedInv, TypeOK, Task
<1>2. Inv(ring, tk1, zombie, spaces, cr3)
  <2>1. "wait4" \in Pc \ {"dying", "none"}
    BY DEF Pc
  <2>2. Inv(ring, task, zombie, spaces, cr3)
    BY InvIsSchedInv
  <2>. QED  BY <2>1, <2>2, <1>1, MovePreserves DEF Self
<1>3. schedule(tk1, zombie)
  BY DEF wait4_block
<1>4. \A t \in Task : tk1[t].state = task[t].state
  BY <1>1 DEF TaskRecord
<1> HIDE DEF tk1
<1>. QED  BY <1>2, <1>3, <1>4, SchedulePreserves

\* What an action owes: the invariant after it, and dead tasks stay dead.
Kept ==
    /\ Inv(ring, task, zombie, spaces, cr3)'
    /\ \A t \in Task : task[t].state = "Dead"
                          => task'[t].state \in {"Dead", "Free"}
    /\ ticks_left' \in 1..Timeslice /\ next_id' \in Nat /\ spawned' \in Nat

\* One step of any action.
LEMMA StepKeeps == SchedInv /\ [Next]_vars => Kept
<1> SUFFICES ASSUME SchedInv, [Next]_vars PROVE Kept
  OBVIOUS
<1>1. Inv(ring, task, zombie, spaces, cr3)
  BY InvIsSchedInv
<1>2. /\ ticks_left \in 1..Timeslice /\ next_id \in Nat /\ spawned \in Nat
      /\ Timeslice \in Nat \ {0} /\ Timeslice \in 1..Timeslice
      /\ task \in [Task -> TaskRecord]
  BY SchedAssumption DEF SchedInv, TypeOK
<1>3. /\ current \in Task /\ current = ring[1] /\ Self = task[current]
      /\ Self.pc # "hlt" => current \in Addr
      /\ Self.pc \notin {"hlt", "dying"} => Self.state = "Running"
      /\ Self.pc = "dying" => Self.state = "Dead"
  BY SelfFacts DEF Self
<1>4. /\ "user" \in Pc \ {"dying", "none", "wait4"}
      /\ "returned" \in Pc \ {"dying", "none", "wait4"}
      /\ "read" \in Pc \ {"dying", "none", "wait4"}
  BY DEF Pc
<1>5. ASSUME NEW a \in Addr, NEW s \in Space, NEW pc \in {"linux_entry", "fork_entry"},
             NEW par \in Task \cup {NULL},
             spawn(a, s, pc, par), UNCHANGED <<zombie, ticks_left, cr3>>,
             spawned' \in Nat
      PROVE  Kept
  <2> DEFINE rec == [FreeBlock EXCEPT !.state = "Ready", !.id = next_id,
                       !.parent = par, !.cr3 = s, !.pc = pc]
  <2>1. /\ rec \in TaskRecord /\ rec.state = "Ready" /\ rec.cr3 = s /\ rec.pc = pc
    BY <1>2 DEF FreeBlock, TaskRecord, State, Pc
  <2>2. /\ task[a].state = "Free" /\ s \notin spaces
        /\ task' = [task EXCEPT ![a] = rec] /\ spaces' = spaces \cup {s}
        /\ ring' = splice_after_current(ring, a) /\ next_id' = next_id + 1
    BY <1>5 DEF spawn
  <2> HIDE DEF rec
  <2>3. Inv(splice_after_current(ring, a), [task EXCEPT ![a] = rec],
            zombie, spaces \cup {s}, cr3)
    BY <2>1, <2>2, <1>1, SpawnPreserves
  <2>4. \A t \in Task : t # a => task'[t] = task[t]
    BY <2>2, <1>2
  <2>. QED  BY <2>2, <2>3, <2>4, <1>2, <1>5 DEF Kept
<1>6. CASE spawn_from_elf
  <2>1. PICK a \in Addr, s \in Space : spawn(a, s, "linux_entry", NULL)
    BY <1>6 DEF spawn_from_elf
  <2>. QED  BY <2>1, <1>2, <1>5, <1>6 DEF spawn_from_elf
<1>7. CASE sys_fork
  <2>1. PICK a \in Addr, s \in Space :
               spawn(a, s, "fork_entry", current)
    BY <1>7 DEF sys_fork
  <2>. QED  BY <2>1, <1>2, <1>3, <1>5, <1>7 DEF sys_fork
<1>8. ASSUME NEW p \in {"user", "returned"}, Self.pc \notin {"hlt", "dying"},
             task' = [task EXCEPT ![current].pc = p],
             UNCHANGED <<ring, zombie, ticks_left, cr3, spaces, next_id, spawned>>
      PROVE  Kept
  <2>1. Inv(ring, [task EXCEPT ![current].pc = p], zombie, spaces, cr3)
    BY <1>3, <1>4, <1>8, PcPreserves
  <2>2. \A t \in Task : task'[t].state = task[t].state
    BY <1>2, <1>3, <1>8 DEF TaskRecord
  <2>. QED  BY <2>1, <2>2, <1>2, <1>8 DEF Kept
<1>9. CASE linux_task_entry
  BY <1>8, <1>9 DEF linux_task_entry
<1>10. CASE fork_child_entry
  BY <1>8, <1>10 DEF fork_child_entry
<1>11. CASE read_resume
  BY <1>8, <1>11 DEF read_resume
<1>12. CASE sys_execve
  <2>1. PICK s \in Space \ spaces :
               /\ task' = [task EXCEPT ![current].cr3 = s]
               /\ cr3' = s
               /\ spaces' = (spaces \ {Self.cr3}) \cup {s}
    BY <1>12 DEF sys_execve
  <2>2. Inv(ring, [task EXCEPT ![ring[1]].cr3 = s], zombie,
            (spaces \ {task[ring[1]].cr3}) \cup {s}, s)
    BY <1>1, <1>3, <1>12, ExecvePreserves DEF sys_execve
  <2>3. \A t \in Task : task'[t].state = task[t].state
    BY <2>1, <1>2, <1>3 DEF TaskRecord
  <2>. QED  BY <2>1, <2>2, <2>3, <1>2, <1>3, <1>12 DEF Kept, sys_execve
<1>13. ASSUME current \in Addr
       PROVE  /\ Inv(ring, mark_dead(current), zombie_on_exit(current), spaces, cr3)
              /\ Inv(ring, mark_dead(current), zombie, spaces, cr3)
              /\ \A t \in Task : task[t].state = "Dead"
                                    => mark_dead(current)[t].state = "Dead"
  <2>1. /\ zombie_on_exit(current) \in {zombie, ring[1]}
        /\ zombie_on_exit(current) # zombie => task[ring[1]].parent = NULL
    BY <1>3 DEF zombie_on_exit
  <2>2. mark_dead(current)
          = [task EXCEPT ![ring[1]].state = "Dead", ![ring[1]].pc = "dying"]
    BY <1>3 DEF mark_dead
  <2>3. \A t \in Task : task[t].state = "Dead" => mark_dead(current)[t].state = "Dead"
    BY <1>2, <1>3 DEF mark_dead, TaskRecord
  <2>4. ASSUME NEW z2 \in {zombie, ring[1]},
               z2 # zombie => task[ring[1]].parent = NULL
        PROVE  Inv(ring, mark_dead(current), z2, spaces, cr3)
    <3>1. ring[1] \in Addr
      BY <1>3, <1>13
    <3>2. Inv(ring, [task EXCEPT ![ring[1]].state = "Dead",
                                 ![ring[1]].pc = "dying"], z2, spaces, cr3)
      BY <3>1, <2>4, <1>1, DeathPreserves
    <3>. QED  BY <3>2, <2>2
  <2>. QED  BY <2>1, <2>3, <2>4
<1>14. CASE sys_exit
  BY <1>2, <1>3, <1>13, <1>14, SchedulePreserves DEF sys_exit, Kept
<1>15. CASE exit_current_mark
  BY <1>2, <1>3, <1>13, <1>15 DEF exit_current_mark, Kept
<1>16. CASE exit_current_finish
  <2>1. task[current].state = "Dead" /\ task[current].pc = "dying"
    BY <1>3, <1>16 DEF exit_current_finish
  <2>2. task = mark_dead(current)
    BY <2>1, <1>2, <1>3 DEF mark_dead, TaskRecord
  <2>3. Inv(ring, task, zombie_on_exit(current), spaces, cr3)
    BY <2>2, <1>3, <1>13, <1>16 DEF exit_current_finish
  <2>. QED  BY <2>3, <1>2, <1>16, SchedulePreserves DEF exit_current_finish, Kept
<1>17. ASSUME NEW c \in Task, task[c].state # "Free", task[c].parent = current,
              Self.pc \in {"user", "wait4"},
              IF task[c].state = "Dead" THEN wait4_collect(c) ELSE wait4_block(c)
       PROVE  Kept
  <2>1. CASE task[c].state = "Dead"
    BY <2>1, <1>2, <1>3, <1>17, CollectPreserves DEF Kept, wait4_collect
  <2>2. CASE task[c].state # "Dead"
    BY <2>2, <1>2, <1>3, <1>17, BlockPreserves DEF Kept, wait4_block
  <2>. QED  BY <2>1, <2>2
<1>18. CASE wait4
  <2>1. PICK c \in ToSet(ring) :
               /\ wait4_accepts(c)
               /\ IF task[c].state = "Dead" THEN wait4_collect(c) ELSE wait4_block(c)
    BY <1>18 DEF wait4
  <2>2. c \in Task /\ task[c].state # "Free" /\ task[c].parent = current
    BY <2>1 DEF wait4_accepts, SchedInv, RingIsAllocatedTasks
  <2>. QED  BY <2>1, <2>2, <1>17, <1>18 DEF wait4
<1>19. CASE wait4_resume
  <2>1. /\ Self.child \in Task /\ task[Self.child].state # "Free"
        /\ task[Self.child].parent = current
    BY <1>2, <1>3, <1>19
       DEF wait4_resume, SchedInv, WaitedChildIsHeld, TaskRecord
  <2>. QED  BY <2>1, <1>17, <1>19 DEF wait4_resume
<1>20. CASE read_block
  <2> DEFINE tk1 == [task EXCEPT ![current].pc = "read"]
  <2>1. Inv(ring, tk1, zombie, spaces, cr3)
    BY <1>3, <1>4, <1>20, PcPreserves DEF read_block
  <2>2. \A t \in Task : tk1[t].state = task[t].state
    BY <1>2, <1>3 DEF TaskRecord
  <2>3. schedule(tk1, zombie) /\ UNCHANGED <<next_id, spawned>>
    BY <1>20 DEF read_block
  <2> HIDE DEF tk1
  <2>. QED  BY <2>1, <2>2, <2>3, <1>2, SchedulePreserves DEF Kept
<1>21. CASE timer_irq
  <2>1. CASE ticks_left = 1
    BY <2>1, <1>1, <1>2, <1>21, SchedulePreserves DEF timer_irq, Kept
  <2>2. CASE ticks_left # 1
    BY <2>2, <1>1, <1>2, <1>21 DEF timer_irq, Kept
  <2>. QED  BY <2>1, <2>2
<1>22. CASE UNCHANGED vars
  BY <1>1, <1>2, <1>22 DEF vars, Kept
<1>. QED
  BY <1>6, <1>7, <1>9, <1>10, <1>11, <1>12, <1>14, <1>15, <1>16, <1>18, <1>19,
     <1>20, <1>21, <1>22 DEF Next, KernelStep

\* The state sched::init() leaves satisfies the invariant.
LEMMA InitInv == Init => SchedInv
<1> SUFFICES ASSUME Init PROVE SchedInv
  OBVIOUS
<1>1. Boot # Idle /\ NULL \notin Task /\ NULL \notin Space
  BY SchedAssumption DEF Task
<1>2. /\ ring = <<Boot, Idle>> /\ ring \in Seq(Task) /\ ring # << >>
      /\ ring[1] = Boot /\ ring[2] = Idle /\ DOMAIN ring = {1, 2}
  BY DEF Init, Task
<1>3. /\ task \in [Task -> TaskRecord]
      /\ task[Boot].state = "Running" /\ task[Idle].state = "Ready"
      /\ \A t \in {Boot, Idle} : task[t].pc = "hlt"
      /\ \A t \in Task : task[t].cr3 = NULL
      /\ \A t \in Task \ {Boot, Idle} : task[t] = FreeBlock
  BY <1>1 DEF Init, FreeBlock, TaskRecord, State, Pc, Task
<1>4. TypeOK
  BY <1>2, <1>3, SchedAssumption DEF TypeOK, Init
<1>5. RingIsAllocatedTasks
  BY <1>1, <1>2, <1>3 DEF RingIsAllocatedTasks, ToSet, FreeBlock, Task
<1>6. OneTaskRuns /\ RunsOnOwnSpace
  BY <1>2, <1>3 DEF OneTaskRuns, RunsOnOwnSpace, Self, current, FreeBlock, Task
<1>7. ZombieIsUnclaimed /\ WaitedChildIsHeld /\ RecordsAgree
  BY <1>1, <1>3
     DEF ZombieIsUnclaimed, WaitedChildIsHeld, RecordsAgree, Init, FreeBlock, Task
<1>8. SpacesAreOwned
  BY <1>3 DEF SpacesAreOwned, Init
<1>. QED  BY <1>4, <1>5, <1>6, <1>7, <1>8 DEF SchedInv

\* No sequence of timer interrupts, fork(), execve(), exit, wait4(), read() and
\* entry-function steps breaks the scheduler's invariant, for any number of
\* tasks, address spaces and ids and any timeslice.
THEOREM SchedInvariant == Spec => []SchedInv
<1>1. Init => SchedInv
  BY InitInv
<1>2. SchedInv /\ [Next]_vars => SchedInv'
  <2>1. (SchedInv <=> /\ Inv(ring, task, zombie, spaces, cr3)
                      /\ ticks_left \in 1..Timeslice
                      /\ next_id \in Nat /\ spawned \in Nat)'
    BY InvIsSchedInv, PTL
  <2>. QED  BY <2>1, StepKeeps DEF Kept
<1>. QED  BY <1>1, <1>2, PTL DEF Spec

\* The ring always holds exactly the allocated tasks.
THEOREM RingSafety == Spec => []RingIsAllocatedTasks
  BY SchedInvariant, PTL DEF SchedInv

\* The pointer wait4() keeps across a context switch never dangles.
THEOREM Wait4Safety == Spec => []WaitedChildIsHeld
  BY SchedInvariant, PTL DEF SchedInv

\* Address spaces are neither leaked, shared nor freed under their owner.
THEOREM SpaceSafety == Spec => [](SpacesAreOwned /\ RunsOnOwnSpace)
  BY SchedInvariant, PTL DEF SchedInv

\* A task that exited never gets the CPU again.
THEOREM DeadSafety == Spec => DeadStaysDead
<1>1. SchedInv /\ [Next]_vars
        => [\A t \in Task : task[t].state = "Dead"
                              => task'[t].state \in {"Dead", "Free"}]_vars
  BY StepKeeps DEF Kept
<1>. QED  BY <1>1, SchedInvariant, PTL DEF Spec, DeadStaysDead

============================================================================
