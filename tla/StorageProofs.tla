--------------------------- MODULE StorageProofs ---------------------------
(***************************************************************************)
(* Proofs about the disk driver and the file system above it.  Whatever    *)
(* the drive answers and whoever calls, read_sectors() gives its bounce    *)
(* frames back, the drive has no address of a freed frame, and a read that *)
(* succeeds is the sectors asked for, as long as no command has outlived   *)
(* its wait.  On a disk that holds what it was made from, the first place  *)
(* with a file system is mounted, and files and directories are read as    *)
(* they are.                                                               *)
(*                                                                         *)
(* DriverInv is inductive.  ReadsAreDisk alone is not: what a call returns *)
(* was gathered over many commands, so Gathered says what it has so far,   *)
(* Filled what the bounce frame holds once a command is over, and          *)
(* DriveFollows that the drive executes the command in slot 0 or none.     *)
(* RootInv carries through the scan and the tries what has been ruled out; *)
(* ReadInv says that what is left of a path leads to the block a read is   *)
(* at, and that what it has collected is the file up to there.  ListInv    *)
(* says that a page holds the names from its offset in the stream of names *)
(* up to the record the listing is at, or up to the name it has no room    *)
(* for.                                                                    *)
(***************************************************************************)
EXTENDS Storage, NumberFacts, SequenceTheorems, TLAPS

InCommand == step \in {"issue", "poll", "done"}
InCall == step \in {"setup", "issue", "poll", "done"} /\ rd # None

DriverTypeOK ==
    /\ port \in Frame \cup {None} /\ used \subseteq Frame
    /\ mem \in [Frame -> [Part -> Nat \cup {None}]]
    /\ slot \in Command \cup {None} /\ dev \in Command \cup {None}
    /\ ci \in BOOLEAN /\ tfes \in BOOLEAN /\ running \in BOOLEAN /\ late \in BOOLEAN
    /\ step \in {"off", "ready", "setup", "issue", "poll", "done", "ret"}
    /\ rd \in Request \cup {None}
    /\ step \in {"done", "ret"} => res \in [ok : BOOLEAN, data : Seq(Nat \cup {None})]

\* Who has a frame: the port one for good, a command of read_sectors() another
\* until it is over.  IDENTIFY uses the port's.
FramesHeld ==
    /\ step = "off" => port = None /\ used = {}
    /\ step = "setup" => port # None
    /\ step \in {"setup", "ret"} => rd # None
    /\ ~InCommand => used = {port} \ {None}
    /\ InCommand => port # None /\ slot # None
    /\ InCommand /\ rd = None => slot.buf = port /\ used = {port}
    /\ InCommand /\ rd # None => slot.buf # port /\ used = {port, slot.buf}

\* The drive executes the command the driver polls for, and takes no other.
DriveFollows ==
    ~late =>
        /\ dev # None => step = "poll" /\ dev = slot /\ ci /\ running /\ ~tfes
        /\ ci /\ running => step = "poll" /\ ~tfes

\* The frame content m begins with the n sectors from lba on.
Holds(m, n, lba) == \A i \in 1..n : m[i] = lba + i - 1

\* The bounce frame holds the sectors of the command in slot 0.
Filled == Holds(mem[slot.buf], slot.n, slot.lba)

\* It does when the drive has ended the command without an error.
AnswersAreData ==
    ~late =>
        /\ step = "poll" /\ ~ci /\ ~tfes => Filled
        /\ step = "done" /\ res.ok => Filled

\* The n sectors from lba on.
sectors(lba, n) == [i \in 1..n |-> lba + i - 1]

\* The call has the sectors before `at`, and asks for the ones from there on.
Gathered ==
    InCall =>
        /\ rd.left \in 1..rd.count /\ rd.at = rd.lba + (rd.count - rd.left)
        /\ ~late => rd.data = sectors(rd.lba, rd.count - rd.left)
        /\ InCommand => slot.lba = rd.at /\ slot.n = Lesser(rd.left, MAX_SECTORS)

DriverInv ==
    /\ DriverTypeOK /\ FramesHeld /\ DriveFollows /\ AnswersAreData /\ Gathered
    /\ ReadsAreDisk

\* A file system call waits for the driver only while it has called it.
CallerInv == "at" \in DOMAIN op /\ (op.at = "returned" => step = "ready")

StorageInv == DriverInv /\ CallerInv

----------------------------------------------------------------------------

\* alloc_frame() returns a frame that was free.
LEMMA AllocFresh ==
    ASSUME frame_left
    PROVE  alloc_frame \in Frame /\ alloc_frame \notin used
<1>1. Frame \ used \subseteq Nat
  BY AhciAssumption
<1>2. alloc_frame \in Frame \ used
  BY <1>1, MinIsLeast DEF alloc_frame, frame_left
<1> QED
  BY <1>2

\* What the bounce frame holds is appended to what the call has.
LEMMA GatherNext ==
    ASSUME NEW lba \in Nat, NEW k \in Nat, NEW n \in Nat,
           NEW t \in Seq(Nat \cup {None}), Len(t) = n, Holds(t, n, lba + k)
    PROVE  sectors(lba, k) \o t = sectors(lba, k + n)
<1> DEFINE S == Nat \cup {None}
           d == sectors(lba, k)
           all == sectors(lba, k + n)
<1>1. d \in Seq(S) /\ Len(d) = k /\ \A i \in 1..k : d[i] = lba + i - 1
  BY DEF sectors
<1>2. t \in Seq(S) /\ Len(t) = n
  OBVIOUS
<1>3. all \in Seq(S) /\ Len(all) = k + n /\ \A i \in 1..(k + n) : all[i] = lba + i - 1
  BY DEF sectors
<1> HIDE DEF S, d, all
<1>0. /\ d \o t \in Seq(S) /\ Len(d \o t) = Len(d) + Len(t)
      /\ \A i \in 1..(Len(d) + Len(t)) :
           (d \o t)[i] = IF i <= Len(d) THEN d[i] ELSE t[i - Len(d)]
  BY <1>1, <1>2, ConcatProperties
<1>4. /\ d \o t \in Seq(S) /\ Len(d \o t) = k + n
      /\ \A i \in 1..(k + n) : (d \o t)[i] = IF i <= k THEN d[i] ELSE t[i - k]
  BY <1>0, <1>1, <1>2
<1>5. ASSUME NEW i \in 1..(k + n) PROVE (d \o t)[i] = all[i]
  <2>1. CASE i <= k
    <3>1. i \in 1..k
      BY <2>1
    <3> QED
      BY <2>1, <3>1, <1>1, <1>3, <1>4
  <2>2. CASE ~(i <= k)
    <3>1. i - k \in 1..n /\ i \in Nat
      BY <2>2
    <3>2. (d \o t)[i] = t[i - k]
      BY <2>2, <3>1, <1>2, <1>4
    <3>3. t[i - k] = lba + k + (i - k) - 1
      BY <3>1 DEF Holds
    <3> QED
      BY <3>1, <3>2, <3>3, <1>3
  <2> QED
    BY <2>1, <2>2
<1>6. d \o t = all
  BY <1>3, <1>4, <1>5, SeqEqual
<1> QED
  BY <1>6 DEF d, all

LEMMA DriverInit == AhciInit => DriverInv
  BY AhciAssumption DEF AhciInit, DriverInv, DriverTypeOK, FramesHeld,
     DriveFollows, AnswersAreData, Gathered, ReadsAreDisk, InCommand, InCall

\* Every step of the driver keeps the invariant.
LEMMA DriverStep == DriverInv /\ driver => DriverInv'
<1> SUFFICES ASSUME DriverInv, driver PROVE DriverInv'
  OBVIOUS
<1> USE AhciAssumption DEF DriverInv, dev_side
<1>1. CASE issue
  <2> USE <1>1 DEF issue
  <2>1. DriverTypeOK'
    BY DEF DriverTypeOK
  <2>2. FramesHeld'
    BY DEF FramesHeld, InCommand
  <2>3. DriveFollows'
    BY DEF DriveFollows, FramesHeld
  <2>4. AnswersAreData'
    BY DEF AnswersAreData, Filled, DriveFollows, DriverTypeOK
  <2>5. Gathered'
    BY DEF Gathered, InCall, InCommand
  <2>6. ReadsAreDisk'
    BY DEF ReadsAreDisk, asked
  <2> QED
    BY <2>1, <2>2, <2>3, <2>4, <2>5, <2>6
<1>2. CASE poll_again
  <2> USE <1>2 DEF poll_again
  <2>1. DriverTypeOK'
    BY DEF DriverTypeOK
  <2>2. FramesHeld'
    BY DEF FramesHeld, InCommand
  <2>3. DriveFollows'
    BY DEF DriveFollows, FramesHeld
  <2>4. AnswersAreData'
    BY DEF AnswersAreData, Filled, DriveFollows, DriverTypeOK
  <2>5. Gathered'
    BY DEF Gathered, InCall, InCommand
  <2>6. ReadsAreDisk'
    BY DEF ReadsAreDisk, asked
  <2> QED
    BY <2>1, <2>2, <2>3, <2>4, <2>5, <2>6
<1>3. CASE answered
  <2> USE <1>3 DEF answered, wait_over
  <2>1. DriverTypeOK'
    <3>1. res' \in [ok : BOOLEAN, data : Seq(Nat \cup {None})]
      OBVIOUS
    <3>2. late' \in BOOLEAN
      BY Zenon DEF DriverTypeOK
    <3> QED
      BY <3>1, <3>2 DEF DriverTypeOK
  <2>2. FramesHeld'
    BY DEF FramesHeld, InCommand
  <2>3. DriveFollows'
    BY DEF DriveFollows, FramesHeld
  <2>4. AnswersAreData'
    BY DEF AnswersAreData, Filled, DriveFollows, DriverTypeOK
  <2>5. Gathered'
    BY DEF Gathered, InCall, InCommand
  <2>6. ReadsAreDisk'
    BY DEF ReadsAreDisk, asked
  <2> QED
    BY <2>1, <2>2, <2>3, <2>4, <2>5, <2>6
<1>4. CASE give_up
  <2> USE <1>4 DEF give_up, wait_over
  <2>1. DriverTypeOK'
    <3>1. res' \in [ok : BOOLEAN, data : Seq(Nat \cup {None})]
      OBVIOUS
    <3>2. late' \in BOOLEAN
      BY Zenon DEF DriverTypeOK
    <3> QED
      BY <3>1, <3>2 DEF DriverTypeOK
  <2>2. FramesHeld'
    BY DEF FramesHeld, InCommand
  <2>3. DriveFollows'
    BY DEF DriveFollows, FramesHeld
  <2>4. AnswersAreData'
    BY DEF AnswersAreData, Filled, DriveFollows, DriverTypeOK
  <2>5. Gathered'
    BY DEF Gathered, InCall, InCommand
  <2>6. ReadsAreDisk'
    BY DEF ReadsAreDisk, asked
  <2> QED
    BY <2>1, <2>2, <2>3, <2>4, <2>5, <2>6
<1>5. CASE identified
  <2> USE <1>5 DEF identified
  <2>1. DriverTypeOK'
    BY DEF DriverTypeOK
  <2>2. FramesHeld'
    BY DEF FramesHeld, InCommand
  <2>3. DriveFollows'
    BY DEF DriveFollows, FramesHeld
  <2>4. AnswersAreData'
    BY DEF AnswersAreData, Filled, DriveFollows, DriverTypeOK
  <2>5. Gathered'
    BY DEF Gathered, InCall, InCommand
  <2>6. ReadsAreDisk'
    BY DEF ReadsAreDisk, asked
  <2> QED
    BY <2>1, <2>2, <2>3, <2>4, <2>5, <2>6
<1>6. CASE setup
  <2> USE <1>6 DEF setup, command
  <2>0. alloc_frame \in Frame /\ alloc_frame \notin used
    BY AllocFresh
  <2>a. slot' \in Command /\ slot' # None
    <3>1. rd \in Request /\ rd.left \in Nat /\ rd.at \in Nat
      BY DEF DriverTypeOK, FramesHeld, Request
    <3>2. Lesser(rd.left, MAX_SECTORS) \in 0..MAX_SECTORS
      BY <3>1 DEF Lesser
    <3>3. slot' \in Command
      BY <2>0, <3>1, <3>2 DEF Command
    <3> QED
      BY <3>3
  <2>1. DriverTypeOK'
    BY <2>0, <2>a DEF DriverTypeOK
  <2>2. FramesHeld'
    <3>1. used = {port} /\ port # None /\ rd # None
      BY DEF FramesHeld, InCommand
    <3> QED
      BY <2>0, <2>a, <3>1 DEF FramesHeld, InCommand
  <2>3. DriveFollows'
    BY DEF DriveFollows, FramesHeld
  <2>4. AnswersAreData'
    BY DEF AnswersAreData, Filled, DriveFollows, DriverTypeOK
  <2>5. Gathered'
    BY DEF Gathered, InCall, InCommand
  <2>6. ReadsAreDisk'
    BY DEF ReadsAreDisk, asked
  <2> QED
    BY <2>1, <2>2, <2>3, <2>4, <2>5, <2>6
<1>7. CASE transferred
  <2> DEFINE n == slot.n
             next == next_rd(n)
             m == mem[slot.buf]
  <2>z. /\ step = "done" /\ rd # None /\ used' = used \ {slot.buf}
        /\ rd' = IF res.ok THEN next ELSE rd
        /\ IF res.ok /\ next.left > 0
           THEN step' = "setup" /\ res' = res
           ELSE step' = "ret" /\ res' = [res EXCEPT !.data = rd'.data]
        /\ UNCHANGED <<port, slot, late, dev, running, mem, ci, tfes>>
    BY <1>7 DEF transferred, free_frame
  <2>0. /\ rd \in Request /\ slot \in Command /\ port # None
        /\ slot.buf # port /\ used = {port, slot.buf}
        /\ rd.left \in 1..rd.count /\ rd.at = rd.lba + (rd.count - rd.left)
        /\ n = Lesser(rd.left, MAX_SECTORS)
    BY <2>z DEF DriverTypeOK, FramesHeld, Gathered, InCommand, InCall
  <2>a. /\ n \in 1..MAX_SECTORS /\ n <= rd.left
        /\ m \in Seq(Nat \cup {None}) /\ Len(m) = MAX_SECTORS
    <3>1. slot.buf \in Frame /\ rd.left \in Nat
      BY <2>0 DEF Command, Request
    <3>2. m \in [Part -> Nat \cup {None}]
      BY <3>1 DEF DriverTypeOK
    <3>3. n \in 1..MAX_SECTORS /\ n <= rd.left
      BY <2>0, <3>1 DEF Lesser
    <3> QED
      BY <3>2, <3>3 DEF Part
  <2>b. /\ next.lba = rd.lba /\ next.count = rd.count /\ next.at = rd.at + n
        /\ next.left = rd.left - n /\ next.data = rd.data \o SubSeq(m, 1, n)
        /\ next \in Request
    <3>1. rd.data \o SubSeq(m, 1, n) \in Seq(Nat \cup {None})
      <4>1. rd.data \in Seq(Nat \cup {None})
        BY <2>0 DEF Request
      <4>2. SubSeq(m, 1, n) \in Seq(Nat \cup {None})
        BY <2>a
      <4> QED
        BY <4>1, <4>2, ConcatProperties
    <3>2. rd.left - n \in Nat /\ rd.at + n \in Nat
      BY <2>0, <2>a DEF Request
    <3> QED
      BY <2>0, <3>1, <3>2 DEF Request, next_rd
  <2>n. /\ rd.lba \in Nat /\ rd.count \in Nat /\ rd.left \in 1..rd.count /\ n \in 1..rd.left
        /\ rd.count - rd.left \in Nat /\ rd.at = rd.lba + (rd.count - rd.left)
    BY <2>0, <2>a DEF Request
  <2> HIDE DEF n, next, m
  <2>c. res \in [ok : BOOLEAN, data : Seq(Nat \cup {None})]
    BY <2>z DEF DriverTypeOK
  <2>e. ASSUME res.ok, ~late
        PROVE  next.data = sectors(rd.lba, rd.count - next.left)
    <3>1. Holds(m, n, rd.at)
      BY <2>e, <2>z, <2>0 DEF AnswersAreData, Filled, Gathered, InCommand, InCall, n, m
    <3>2. rd.data = sectors(rd.lba, rd.count - rd.left)
      BY <2>e, <2>z DEF Gathered, InCall
    <3> DEFINE k == rd.count - rd.left
    <3>3. n \in Nat /\ n <= Len(m) /\ rd.count - next.left = k + n
      BY <2>n, <2>a, <2>b
    <3>4. Holds(m, n, rd.lba + k)
      BY <3>1, <2>n
    <3>5. sectors(rd.lba, k) \o SubSeq(m, 1, n) = sectors(rd.lba, k + n)
      <4> DEFINE t == SubSeq(m, 1, n)
      <4>1. k \in Nat /\ rd.lba \in Nat /\ n \in Nat
        BY <2>n, <3>3
      <4>2. t \in Seq(Nat \cup {None}) /\ Len(t) = n /\ \A i \in 1..n : t[i] = m[i]
        BY <2>a, <3>3
      <4>3. Holds(t, n, rd.lba + k)
        BY <4>2, <3>4 DEF Holds
      <4> HIDE DEF k, t
      <4>4. sectors(rd.lba, k) \o t = sectors(rd.lba, k + n)
        BY ONLY <4>1, <4>2, <4>3, GatherNext, Zenon
      <4> QED
        BY <4>4 DEF t
    <3> QED
      BY <3>2, <3>3, <3>5, <2>b
  <2>1. DriverTypeOK'
    <3>1. rd' \in Request
      BY <2>0, <2>b, <2>z
    <3>2. res' \in [ok : BOOLEAN, data : Seq(Nat \cup {None})]
      BY <2>c, <2>z, <3>1 DEF Request
    <3> QED
      BY <2>0, <2>z, <3>1, <3>2 DEF DriverTypeOK
  <2>2. FramesHeld'
    <3>1. used' = {port} /\ port' = port /\ rd' # None
      BY <2>0, <2>b, <2>z
    <3>2. step' \in {"setup", "ret"}
      BY <2>z
    <3> QED
      BY <2>0, <3>1, <3>2 DEF FramesHeld, InCommand
  <2>3. DriveFollows'
    BY <2>z DEF DriveFollows
  <2>4. AnswersAreData'
    BY <2>z DEF AnswersAreData, DriverTypeOK
  <2>5. Gathered'
    <3>1. CASE res.ok /\ next.left > 0
      <4>1. rd' = next /\ step' = "setup" /\ late' = late
        BY <3>1, <2>z
      <4>2. next.left \in 1..next.count
        BY <3>1, <2>n, <2>b
      <4>3. next.at = next.lba + (next.count - next.left)
        BY <2>n, <2>b
      <4> QED
        BY <3>1, <4>1, <4>2, <4>3, <2>b, <2>e DEF Gathered, InCall, InCommand
    <3>2. CASE ~(res.ok /\ next.left > 0)
      BY <3>2, <2>z DEF Gathered, InCall
    <3> QED
      BY <3>1, <3>2
  <2>6. ReadsAreDisk'
    <3> SUFFICES ASSUME step' = "ret", res'.ok, ~late PROVE res'.data = asked'
      BY <2>z DEF ReadsAreDisk
    <3>1. res' = [res EXCEPT !.data = rd'.data] /\ res.ok
      BY <2>c, <2>z
    <3>2. rd' = next /\ next.left = 0
      BY <3>1, <2>b, <2>z DEF Request
    <3>3. res'.data = next.data
      BY <3>1, <3>2, <2>c
    <3>4. next.data = sectors(rd.lba, rd.count)
      BY <3>1, <3>2, <2>e, <2>n
    <3> QED
      BY <3>2, <3>3, <3>4, <2>b DEF asked, sectors
  <2> QED
    BY <2>1, <2>2, <2>3, <2>4, <2>5, <2>6
<1> QED
  BY <1>1, <1>2, <1>3, <1>4, <1>5, <1>6, <1>7 DEF driver

\* So does whatever the drive does, and whenever.
LEMMA DriveStep == DriverInv /\ drive => DriverInv'
<1> SUFFICES ASSUME DriverInv, drive PROVE DriverInv'
  OBVIOUS
<1> USE AhciAssumption DEF DriverInv, cpu_side
<1>1. CASE fetch
  <2> USE <1>1 DEF fetch
  <2>1. DriverTypeOK'
    BY DEF DriverTypeOK
  <2>2. FramesHeld'
    BY DEF FramesHeld, InCommand
  <2>3. DriveFollows'
    BY DEF DriveFollows, FramesHeld
  <2>4. AnswersAreData'
    BY DEF AnswersAreData, Filled, DriveFollows, DriverTypeOK
  <2>5. Gathered'
    BY DEF Gathered, InCall, InCommand
  <2>6. ReadsAreDisk'
    BY DEF ReadsAreDisk, asked
  <2> QED
    BY <2>1, <2>2, <2>3, <2>4, <2>5, <2>6
<1>2. CASE complete
  <2> USE <1>2 DEF complete
  <2>0. dev \in Command /\ dev.buf \in Frame /\ dev.lba \in Nat /\ dev.n \in 0..MAX_SECTORS
    BY DEF DriverTypeOK, Command
  <2>a. mem'[dev.buf] = [i \in Part |-> IF i <= dev.n THEN dev.lba + i - 1 ELSE mem[dev.buf][i]]
        /\ \A f \in Frame : f # dev.buf => mem'[f] = mem[f]
    BY <2>0 DEF DriverTypeOK
  <2>1. DriverTypeOK'
    <3>1. [i \in Part |-> IF i <= dev.n THEN dev.lba + i - 1 ELSE mem[dev.buf][i]]
            \in [Part -> Nat \cup {None}]
      <4>1. mem[dev.buf] \in [Part -> Nat \cup {None}]
        BY <2>0 DEF DriverTypeOK
      <4>2. \A i \in Part : dev.lba + i - 1 \in Nat
        BY <2>0 DEF Part
      <4> QED
        BY <4>1, <4>2
    <3>2. mem' \in [Frame -> [Part -> Nat \cup {None}]]
      BY <2>0, <3>1 DEF DriverTypeOK
    <3> QED
      BY <3>2 DEF DriverTypeOK
  <2>2. FramesHeld'
    BY DEF FramesHeld, InCommand
  <2>3. DriveFollows'
    BY DEF DriveFollows, FramesHeld
  <2>4. AnswersAreData'
    <3> SUFFICES ASSUME ~late PROVE AnswersAreData'
      BY DEF AnswersAreData
    <3>1. dev = slot /\ step = "poll" /\ slot' = slot
      BY DEF DriveFollows
    <3>2. Filled'
      BY <2>0, <2>a, <3>1 DEF Filled, Holds, Part
    <3> QED
      BY <3>1, <3>2 DEF AnswersAreData
  <2>5. Gathered'
    BY DEF Gathered, InCall, InCommand
  <2>6. ReadsAreDisk'
    BY DEF ReadsAreDisk, asked
  <2> QED
    BY <2>1, <2>2, <2>3, <2>4, <2>5, <2>6
<1>3. ASSUME NEW stop \in BOOLEAN, fail(stop) PROVE DriverInv'
  <2> USE <1>3 DEF fail
  <2>1. DriverTypeOK'
    BY DEF DriverTypeOK
  <2>2. FramesHeld'
    BY DEF FramesHeld, InCommand
  <2>3. DriveFollows'
    BY DEF DriveFollows, FramesHeld
  <2>4. AnswersAreData'
    BY DEF AnswersAreData, Filled, DriveFollows, DriverTypeOK
  <2>5. Gathered'
    BY DEF Gathered, InCall, InCommand
  <2>6. ReadsAreDisk'
    BY DEF ReadsAreDisk, asked
  <2> QED
    BY <2>1, <2>2, <2>3, <2>4, <2>5, <2>6
<1> QED
  BY <1>1, <1>2, <1>3 DEF drive

\* Finding the port, or none.
LEMMA PortStep ==
    ASSUME DriverInv, no_port \/ \E identify \in BOOLEAN : init_port(identify)
    PROVE  DriverInv'
<1> USE AhciAssumption DEF DriverInv, dev_side
<1>1. CASE no_port
  BY <1>1 DEF no_port, DriverTypeOK, FramesHeld, DriveFollows, AnswersAreData,
     Gathered, ReadsAreDisk, InCommand, InCall
<1>2. ASSUME NEW identify \in BOOLEAN, init_port(identify) PROVE DriverInv'
  <2> USE <1>2 DEF init_port, command
  <2>0. alloc_frame \in Frame /\ alloc_frame \notin used /\ alloc_frame # None
    BY AllocFresh
  <2>a. identify => slot' \in Command /\ slot' # None
    <3>1. identify => slot' \in Command
      BY <2>0 DEF Command
    <3> QED
      BY <3>1
  <2>1. DriverTypeOK'
    BY <2>0, <2>a DEF DriverTypeOK
  <2>2. FramesHeld'
    BY <2>0, <2>a DEF FramesHeld, InCommand
  <2>3. DriveFollows' /\ AnswersAreData' /\ ReadsAreDisk'
    BY DEF DriveFollows, AnswersAreData, ReadsAreDisk
  <2>4. Gathered'
    BY DEF Gathered, InCall
  <2> QED
    BY <2>1, <2>2, <2>3, <2>4
<1> QED
  BY <1>1, <1>2

\* What a caller of the driver can do: call it, or be done with it.
Caller == step \in {"ready", "ret"} /\ (no_read \/ \E lba, count : read_sectors(lba, count))

LEMMA CallerStep ==
    ASSUME DriverInv, Caller
    PROVE  DriverInv'
<1> USE AhciAssumption DEF DriverInv, dev_side
<1>0. step \in {"ready", "ret"}
  BY DEF Caller
<1>1. CASE no_read
  BY <1>0, <1>1 DEF no_read, DriverTypeOK, FramesHeld, DriveFollows, AnswersAreData,
     Gathered, ReadsAreDisk, InCommand, InCall
<1>2. ASSUME NEW lba, NEW count, read_sectors(lba, count) PROVE DriverInv'
  <2> USE <1>0, <1>2 DEF read_sectors
  <2>1. rd' \in Request /\ rd' # None
    <3>1. rd' \in Request
      BY DEF Request
    <3> QED
      BY <3>1
  <2>2. DriverTypeOK'
    <3>1. (step' = "ret" /\ res' = [ok |-> FALSE, data |-> << >>]) \/ step' = "setup"
      BY Zenon
    <3>2. [ok |-> FALSE, data |-> << >>] \in [ok : BOOLEAN, data : Seq(Nat \cup {None})]
      OBVIOUS
    <3> QED
      BY <2>1, <3>1, <3>2 DEF DriverTypeOK
  <2>3. FramesHeld'
    BY <2>1 DEF FramesHeld, InCommand
  <2>4. DriveFollows' /\ AnswersAreData'
    BY DEF DriveFollows, AnswersAreData
  <2>5. Gathered'
    <3> SUFFICES ASSUME InCall' PROVE Gathered'
      BY DEF Gathered
    <3>1. step' = "setup" /\ count # 0
      BY DEF InCall
    <3>2. rd'.left \in 1..rd'.count /\ rd'.at = rd'.lba + (rd'.count - rd'.left)
      BY <3>1
    <3>3. rd'.data = sectors(rd'.lba, rd'.count - rd'.left)
      BY DEF sectors
    <3> QED
      BY <3>1, <3>2, <3>3 DEF Gathered, InCommand
  <2>6. ReadsAreDisk'
    BY DEF ReadsAreDisk
  <2> QED
    BY <2>2, <2>3, <2>4, <2>5, <2>6
<1> QED
  BY <1>1, <1>2 DEF Caller

----------------------------------------------------------------------------
(* The file system above the driver *)

\* Where a call stands is a field of `op` that no step drops.
LEMMA FieldsAreKept ==
    ASSUME NEW o, NEW x, NEW y
    PROVE  /\ DOMAIN read_from(o, x, y) = DOMAIN o
           /\ DOMAIN list_from(o, x) = DOMAIN o
           /\ DOMAIN [o EXCEPT !.so_far = x] = DOMAIN o
  BY DEF read_from, list_from

\* Every step of the file system is a step of a caller of the driver, and it
\* waits for the driver only if it has called it.
LEMMA FileSystemStep ==
    ASSUME CallerInv, file_system \/ calls
    PROVE  Caller /\ CallerInv'
<1> USE DEF CallerInv, Caller
<1>1. CASE begin_init
  BY <1>1 DEF begin_init
<1>2. CASE scan_mbr
  BY <1>2 DEF scan_mbr, Reply, scanned, enter
<1>3. CASE scan_gpt
  BY <1>3 DEF scan_gpt, Reply, scanned, enter, gpt_turn
<1>4. CASE scan_entry
  BY <1>4 DEF scan_entry, Reply, scanned, enter, gpt_turn, gpt_takes
<1>5. CASE mount_super
  BY <1>5 DEF mount_super, Reply, next_candidate, enter, idle
<1>6. CASE mount_bgdt
  BY <1>6 DEF mount_bgdt, Reply, next_candidate, enter, return, idle
<1>7. CASE fetch_inode
  BY <1>7 DEF fetch_inode, Reply, opened, list_from, read_from, idle, no_read
<1>8. CASE turn
  <2>1. step = "ready"
    BY <1>8 DEF turn
  <2>2. ASSUME NEW b, NEW path, resolve(b, path) PROVE Caller /\ CallerInv'
    BY <2>1, <2>2 DEF resolve, no_read, read_block
  <2> QED
    BY <1>8, <2>1, <2>2 DEF turn, no_read
<1>9. CASE block_read
  <2>1. step = "ret"
    BY <1>9 DEF block_read, Reply
  <2>2. ASSUME NEW b, NEW path, resolve(b, path) PROVE Caller /\ CallerInv'
    BY <2>1, <2>2 DEF resolve, no_read, read_block
  <2>3. ASSUME NEW block, no_read,
               op' = [IF op.what = "list" THEN listed(op, block) ELSE copied(op, block)
                        EXCEPT !.at = "turn"]
        PROVE  Caller /\ CallerInv'
    BY <2>1, <2>3 DEF no_read, listed, copied
  <2> QED
    BY <1>9, <2>2, <2>3 DEF block_read
<1>10. CASE whole_turn
  <2>1. no_read /\ step = "ready"
    BY <1>10 DEF whole_turn, return
  <2> DEFINE so_far == op.so_far \o op.data
             o == [op EXCEPT !.so_far = so_far]
  <2>2. \/ op' = idle
        \/ op' = read_from(o, Len(so_far), op.di.i_size - Len(so_far))
    BY <1>10 DEF whole_turn, return
  <2>4. DOMAIN o = DOMAIN op
    BY FieldsAreKept
  <2> HIDE DEF o, so_far
  <2>3. "at" \in DOMAIN op'
    BY <2>2, <2>4, FieldsAreKept DEF idle
  <2> QED
    BY <2>1, <2>3 DEF no_read
<1>11. CASE list_turn
  <2>1. no_read /\ step = "ready"
    BY <1>11 DEF list_turn, return
  <2>2. \/ op' = idle
        \/ op' = list_from([op EXCEPT !.so_far = @ \o op.page.out],
                           op.offset + op.page.written)
    BY <1>11 DEF list_turn, return
  <2>3. "at" \in DOMAIN op'
    BY <2>2, FieldsAreKept DEF idle
  <2> QED
    BY <2>1, <2>3 DEF no_read
<1>12. CASE read_returns
  BY <1>12 DEF read_returns, return, no_read, idle
<1>13. CASE garbage
  BY <1>13 DEF garbage, no_read, idle
<1>14. ASSUME NEW ino, NEW what, NEW offset, NEW count, begin(ino, what, offset, count)
       PROVE  Caller /\ CallerInv'
  BY <1>14 DEF begin, read_block
<1> QED
  BY <1>1, <1>2, <1>3, <1>4, <1>5, <1>6, <1>7, <1>8, <1>9, <1>10, <1>11, <1>12,
     <1>13, <1>14 DEF file_system, calls

\* The driver is busy only during a call, and stays ready until the next one.
LEMMA ReadyIsStable ==
    ASSUME step = "ready",
           \/ no_port \/ \E identify \in BOOLEAN : init_port(identify)
           \/ driver \/ drive
    PROVE  step' = "ready"
  BY DEF no_port, init_port, driver, drive, issue, poll_again, answered, give_up,
     identified, setup, transferred, fetch, complete, fail, cpu_side

LEMMA StorageInit == Init => StorageInv
  BY DriverInit DEF Init, StorageInv, CallerInv

LEMMA StorageStep == StorageInv /\ [Next]_vars => StorageInv'
<1> SUFFICES ASSUME StorageInv, [Next]_vars PROVE StorageInv'
  OBVIOUS
<1> USE DEF StorageInv
<1>1. CASE (no_port \/ \E identify \in BOOLEAN : init_port(identify)) /\ UNCHANGED fsVars
  BY <1>1, PortStep, ReadyIsStable DEF CallerInv, fsVars
<1>2. CASE driver /\ UNCHANGED fsVars
  BY <1>2, DriverStep, ReadyIsStable DEF CallerInv, fsVars
<1>3. CASE drive /\ UNCHANGED fsVars
  BY <1>3, DriveStep, ReadyIsStable DEF CallerInv, fsVars
<1>4. CASE file_system \/ calls
  BY <1>4, FileSystemStep, CallerStep
<1>5. CASE UNCHANGED vars
  BY <1>5 DEF vars, ahciVars, fsVars, cpu_side, dev_side, DriverInv, DriverTypeOK,
     FramesHeld, DriveFollows, AnswersAreData, Gathered, ReadsAreDisk, InCommand,
     InCall, Filled, asked, CallerInv
<1> QED
  BY <1>1, <1>2, <1>3, <1>4, <1>5 DEF Next

\* Whatever file system calls run above it, read_sectors() and the drive keep
\* request, command, bounce frame and answer in agreement at every poll.
THEOREM StorageInvariant == Spec => []StorageInv
  BY StorageInit, StorageStep, PTL DEF Spec

\* A read_sectors() that returns true has delivered exactly the sectors asked
\* for, in order, through any number of commands, failures and timeouts, unless
\* a command has outlived its wait: that the drive may then write late is the
\* one thing the driver does not exclude.
THEOREM ReadSafety == Spec => []ReadsAreDisk
<1>1. StorageInv => ReadsAreDisk
  BY DEF StorageInv, DriverInv
<1> QED
  BY <1>1, StorageInvariant, PTL

\* The bounce frame is freed on every path out of read_sectors(), and the drive
\* writes only into frames that the driver holds.
THEOREM BounceSafety == Spec => []BounceIsHeld
<1>1. StorageInv => BounceIsHeld
  BY DEF StorageInv, DriverInv, FramesHeld, DriveFollows, BounceIsHeld, InCommand
<1> QED
  BY <1>1, StorageInvariant, PTL

----------------------------------------------------------------------------
(* The root file system *)

\* The driver works on read_sectors(lba, n), or has returned from it.
InProgress == step \in {"setup", "issue", "poll", "done", "ret"} /\ rd # None
Calling(lba, n) == InProgress /\ rd.lba = lba /\ rd.count = n

\* `starts` is the beginning of the list of candidates.
Begins(d, starts) ==
    /\ Len(starts) \in 0..Len(d.candidates) /\ Len(starts) <= MAX_PARTS
    /\ starts = SubSeq(d.candidates, 1, Len(starts))

\* The GPT entries before entry i are those of the first n candidates.
Numbered(d, where) ==
    where \in [DOMAIN d.candidates -> 0..(sector(d, 1).num_entries - 1)]
Divides(d, where, i, n) == \A k \in DOMAIN d.candidates : where[k] < i <=> k <= n
Passed(d, i, n) ==
    \E where : Numbered(d, where) /\ ListsEntries(d, where) /\ Divides(d, where, i, n)

ProtectiveMbr(d) == sector(d, 0).signature /\ is_gpt(sector(d, 0))

\* No file system is at the places before the k-th.
Tried(d, ps, k) == \A j \in 1..(k - 1) : Append(ps, 0)[j] \notin d.good

ScanOK ==
    /\ op.at \in {"off", "mbr", "gpt", "entry"} =>
         root = None /\ result = None /\ failed = FALSE
    /\ op.at = "mbr" => Calling(0, 1)
    /\ op.at = "gpt" => Calling(1, 1) /\ ProtectiveMbr(disk)
    /\ op.at = "entry" =>
         /\ op.gpt = sector(disk, 1) /\ op.gpt.signature /\ ProtectiveMbr(disk)
         /\ op.i \in 0..(op.gpt.num_entries - 1)
         /\ Begins(disk, op.starts) /\ Len(op.starts) < MAX_PARTS
         /\ Passed(disk, op.i, Len(op.starts))
         /\ Calling(op.gpt.entry_lba + op.i \div op.gpt.per_sector, 1)

MountOK ==
    op.at \in {"super", "bgdt"} =>
        /\ root = None /\ result = None
        /\ Begins(disk, parts) /\ (~failed => parts = first_parts(disk.candidates))
        /\ op.k \in 1..(Len(parts) + 1) /\ base = Append(parts, 0)[op.k]
        /\ ~failed => Tried(disk, parts, op.k)
        /\ op.at = "super" => Calling(base + 2, 2)
        /\ op.at = "bgdt" =>
             /\ op.sb = sector(disk, base + 2) /\ base \in disk.good
             /\ Calling(base + bgdt_lba(op.sb), num_groups(op.sb))

RootOK ==
    /\ disk \in Image /\ failed \in BOOLEAN /\ "at" \in DOMAIN op
    /\ op.at \in {"off", "mbr", "gpt", "entry", "super", "bgdt"} \/ op = idle \/ root # None
    /\ root # None => root = file_system_at(disk, base)
    /\ result # None => op = idle
    /\ RootIsFirstMountable

RootInv == RootOK /\ ScanOK /\ MountOK

\* Driver, drive and port do not touch the call they work for.
LEMMA CallStands ==
    ASSUME DriverInv,
           \/ no_port \/ \E identify \in BOOLEAN : init_port(identify)
           \/ driver \/ drive
    PROVE  /\ late => late'
           /\ InProgress => InProgress' /\ rd'.lba = rd.lba /\ rd'.count = rd.count
<1>1. CASE no_port \/ \E identify \in BOOLEAN : init_port(identify)
  BY <1>1 DEF no_port, init_port, InProgress
<1>2. CASE drive
  BY <1>2 DEF drive, fetch, complete, fail, cpu_side, InProgress
<1>3. CASE issue \/ poll_again \/ answered \/ give_up \/ identified \/ setup
  <2>1. rd' = rd
    BY <1>3 DEF issue, poll_again, answered, give_up, wait_over, identified, setup
  <2>3. late' = late \/ late' = (late \/ (ci /\ ~tfes))
    BY <1>3 DEF issue, poll_again, answered, give_up, wait_over, identified, setup
  <2>4. late => late'
    BY <2>3
  <2>2. (step' = "ready" /\ rd = None) \/ step' \in {"poll", "done", "issue"}
    BY <1>3 DEF issue, poll_again, answered, give_up, wait_over, identified, setup
  <2> QED
    BY <2>1, <2>2, <2>4 DEF InProgress
<1>4. CASE transferred
  <2>1. /\ step = "done" /\ rd # None /\ late' = late /\ step' \in {"setup", "ret"}
        /\ rd' = rd \/ rd' = next_rd(slot.n)
    BY <1>4 DEF transferred
  <2>2. rd \in Request
    BY <2>1 DEF DriverInv, DriverTypeOK
  <2> DEFINE next == next_rd(slot.n)
  <2>3. /\ next.lba = rd.lba /\ next.count = rd.count
    BY <2>2 DEF next_rd, Request
  <2>5. rd' # None
    <3>1. DriverInv'
      BY <1>4, DriverStep DEF driver
    <3> QED
      BY <2>1, <3>1 DEF DriverInv, FramesHeld
  <2> QED
    BY <2>1, <2>3, <2>5 DEF InProgress
<1> QED
  BY <1>1, <1>2, <1>3, <1>4 DEF driver

\* A call of read_sectors() is made, and answered.
LEMMA CallBegins ==
    ASSUME NEW lba, NEW n, read_sectors(lba, n)
    PROVE  InProgress' /\ rd'.lba = lba /\ rd'.count = n /\ late' = late
<1>1. rd' \in Request
  BY EmptySeq DEF read_sectors, Request
<1> QED
  BY <1>1, AhciAssumption DEF read_sectors, InProgress

Answers(lba, n) ==
    /\ res.data = sectors(lba, n) /\ DOMAIN res.data = 1..n
    /\ \A i \in 1..n : got(i) = sector(disk, lba + i - 1)

LEMMA Answer ==
    ASSUME DriverInv, step = "ret", Truthful, res.ok, NEW lba, NEW n, Calling(lba, n)
    PROVE  lba \in Nat /\ n \in Nat /\ Answers(lba, n)
<1>1. rd \in Request /\ rd.lba = lba /\ rd.count = n
  BY DEF Calling, InProgress, DriverInv, DriverTypeOK
<1>2. lba \in Nat /\ n \in Nat
  BY <1>1 DEF Request
<1>3. res.data = sectors(lba, n)
  BY <1>1 DEF Truthful, asked, sectors
<1> QED
  BY <1>2, <1>3 DEF sectors, got, Answers

\* The disk is one of those assumed.
LEMMA DiskIs ==
    ASSUME RootInv
    PROVE  /\ WellMade(disk) /\ disk.candidates \in Seq(Nat)
           /\ \A s \in disk.good : s \in Nat /\ file_system_at(disk, s) # None
<1>1. WellMade(disk) /\ disk \in Image
  BY ImageAssumption DEF RootInv, RootOK
<1>2. disk.candidates \in Seq(Nat)
  BY <1>1 DEF WellMade, ListsPartitions
<1>3. Range(disk.candidates) \subseteq Nat
  BY <1>2 DEF Range
<1>4. disk.good \subseteq Nat
  BY <1>1, <1>3 DEF WellMade
<1> QED
  BY <1>1, <1>2, <1>4, NoneAssumption

\* A place is good if its superblock says so.
LEMMA GoodIs ==
    ASSUME RootInv, Begins(disk, parts), NEW k \in 1..(Len(parts) + 1)
    PROVE  LET s == Append(parts, 0)[k]
           IN  s \in Nat /\ (s \in disk.good <=> mountable(sector(disk, s + 2)))
<1> DEFINE c == disk.candidates
           s == Append(parts, 0)[k]
<1>1. WellMade(disk) /\ c \in Seq(Nat)
  BY DiskIs
<1>2. /\ parts \in Seq(Nat) /\ Len(parts) \in 0..Len(c)
      /\ \A i \in 1..Len(parts) : parts[i] = c[i]
  BY <1>1, Prefix DEF Begins
<1>3. s = IF k <= Len(parts) THEN parts[k] ELSE 0
  BY <1>2, AppendProperties
<1>4. s \in Range(c) \cup {0}
  <2>1. CASE k <= Len(parts)
    <3>1. k \in 1..Len(parts) /\ k \in DOMAIN c
      BY <1>1, <1>2, <2>1
    <3>2. s = c[k]
      BY <1>2, <1>3, <2>1, <3>1
    <3> QED
      BY <3>1, <3>2 DEF Range
  <2>2. CASE ~(k <= Len(parts))
    BY <1>3, <2>2
  <2> QED
    BY <2>1, <2>2
<1>5. s \in Nat
  BY <1>1, <1>4 DEF Range
<1> HIDE DEF s, c
<1>6. s \in disk.good <=> mountable(sector(disk, s + 2))
  BY <1>1, <1>4 DEF WellMade, c
<1> QED
  BY <1>5, <1>6 DEF s

\* What vfs::init() takes of the candidates.
LEMMA FirstParts ==
    ASSUME NEW d, d.candidates \in Seq(Nat)
    PROVE  /\ Begins(d, first_parts(d.candidates)) /\ Begins(d, << >>)
           /\ \A s : /\ Begins(d, s)
                     /\ Len(s) = Len(d.candidates) \/ Len(s) = MAX_PARTS
                     => s = first_parts(d.candidates)
           /\ d.candidates = << >> => first_parts(d.candidates) = << >>
<1> DEFINE c == d.candidates
           n == Min({Len(c), MAX_PARTS})
<1>1. Len(c) \in Nat /\ MAX_PARTS \in Nat
  BY Ext2Assumption
<1>2. n \in {Len(c), MAX_PARTS} /\ n <= Len(c) /\ n <= MAX_PARTS
  <2>1. {Len(c), MAX_PARTS} \subseteq Nat /\ {Len(c), MAX_PARTS} # {}
    BY <1>1
  <2> HIDE DEF c
  <2> QED
    BY <2>1, MinIsLeast
<1>3. first_parts(c) = SubSeq(c, 1, n)
  BY DEF first_parts
<1> HIDE DEF n
<1>4. n \in 0..Len(c)
  BY <1>1, <1>2
<1>5. Len(SubSeq(c, 1, n)) = n
  BY <1>4, Prefix
<1>6. Begins(d, first_parts(c))
  BY <1>2, <1>3, <1>4, <1>5 DEF Begins
<1>7. ASSUME NEW s, Begins(d, s), Len(s) = Len(c) \/ Len(s) = MAX_PARTS
      PROVE  s = first_parts(c)
  <2> DEFINE w == Len(c)
             v == Len(s)
  <2>0. v \in 0..w /\ v <= MAX_PARTS
    BY ONLY <1>7 DEF Begins
  <2>3. n \in {w, MAX_PARTS} /\ n <= w /\ n <= MAX_PARTS
    BY ONLY <1>2
  <2>5. v = w \/ v = MAX_PARTS
    BY ONLY <1>7
  <2>6. w \in Nat /\ MAX_PARTS \in Nat
    BY ONLY <1>1
  <2> HIDE DEF w, v
  <2>4. v = n
    BY ONLY <2>0, <2>3, <2>5, <2>6
  <2>1. Len(s) = n
    BY <2>4 DEF v
  <2>2. s = SubSeq(c, 1, Len(s))
    BY <1>7 DEF Begins
  <2>7. s = SubSeq(c, 1, n)
    BY ONLY <2>1, <2>2
  <2> QED
    BY ONLY <1>3, <2>7
<1>0. SubSeq(c, 1, 0) = << >>
  <2>1. 0 \in 0..Len(c)
    BY <1>1
  <2>2. SubSeq(c, 1, 0) \in Seq(Nat) /\ Len(SubSeq(c, 1, 0)) = 0
    BY <2>1, Prefix
  <2> QED
    BY <2>2, EmptySeq
<1>8. Begins(d, << >>)
  BY <1>0, <1>1 DEF Begins
<1>9. c = << >> => first_parts(c) = << >>
  <2>1. SUFFICES ASSUME c = << >> PROVE n = 0
    BY <1>0, <1>3
  <2> QED
    BY <1>2, <1>1, <2>1
<1> QED
  BY <1>6, <1>7, <1>8, <1>9

\* vfs::mount() of the next place.
LEMMA Entering ==
    ASSUME RootInv, UNCHANGED <<disk, root, result>>, root = None, result = None,
           NEW ps, parts' = ps, Begins(disk, ps), NEW k \in 1..(Len(ps) + 1),
           enter(k, ps), failed' \in BOOLEAN,
           ~failed' => ps = first_parts(disk.candidates) /\ Tried(disk, ps, k)
    PROVE  RootInv'
<1>1. /\ op' = [at |-> "super", k |-> k] /\ base' = Append(ps, 0)[k]
      /\ read_sectors(base' + 2, 2)
  BY DEF enter
<1>2. InProgress' /\ rd'.lba = base' + 2 /\ rd'.count = 2
  BY <1>1, CallBegins
<1>3. op'.at = "super" /\ "at" \in DOMAIN op' /\ op'.k = k /\ op' # idle
  BY <1>1 DEF idle
<1>4. RootIsFirstMountable'
  BY <1>3, NoneAssumption DEF RootIsFirstMountable
<1>5. RootOK'
  BY <1>3, <1>4 DEF RootOK, RootInv
<1>6. ScanOK'
  BY <1>3 DEF ScanOK
<1>7. MountOK'
  <2>1. Calling(base + 2, 2)'
    BY <1>2 DEF Calling
  <2>2. op'.at # "bgdt"
    BY <1>3
  <2> QED
    BY <1>1, <1>3, <2>1, <2>2 DEF MountOK
<1> QED
  BY <1>5, <1>6, <1>7 DEF RootInv

\* No place is left.
LEMMA NextCandidate ==
    ASSUME RootInv, op.at \in {"super", "bgdt"}, next_candidate,
           UNCHANGED <<disk, parts, root, result>>, failed' \in BOOLEAN, failed => failed',
           ~failed' => base \notin disk.good
    PROVE  RootInv'
<1> DEFINE n == Len(parts)
<1>1. /\ root = None /\ result = None /\ Begins(disk, parts)
      /\ ~failed => parts = first_parts(disk.candidates) /\ Tried(disk, parts, op.k)
      /\ op.k \in 1..(n + 1) /\ base = Append(parts, 0)[op.k]
  BY DEF RootInv, MountOK
<1>2. n \in Nat /\ op.k \in Nat
  BY <1>1 DEF Begins
<1>3. ~failed' => Tried(disk, parts, op.k + 1)
  <2> SUFFICES ASSUME ~failed' PROVE Tried(disk, parts, op.k + 1)
    OBVIOUS
  <2> SUFFICES ASSUME NEW j \in 1..((op.k + 1) - 1)
               PROVE  Append(parts, 0)[j] \notin disk.good
    BY Zenon DEF Tried
  <2>1. ~failed /\ Tried(disk, parts, op.k)
    BY <1>1
  <2>2. j = op.k \/ j \in 1..(op.k - 1)
    BY <1>2
  <2>3. CASE j = op.k
    <3>1. Append(parts, 0)[j] = base
      BY ONLY <1>1, <2>3
    <3> QED
      BY <3>1
  <2>4. CASE j \in 1..(op.k - 1)
    BY ONLY <2>1, <2>4 DEF Tried
  <2> QED
    BY <2>2, <2>3, <2>4
<1>4. ~failed' => parts = first_parts(disk.candidates)
  BY <1>1
<1>5. CASE op.k <= n
  <2>1. enter(op.k + 1, parts) /\ op.k + 1 \in 1..(n + 1)
    BY <1>2, <1>5 DEF next_candidate
  <2> QED
    BY <1>1, <1>3, <1>4, <2>1, Entering
<1>6. CASE ~(op.k <= n)
  <2>1. op' = idle /\ base' = base /\ op.k = n + 1
    BY <1>1, <1>2, <1>6 DEF next_candidate
  <2>2. op'.at = "idle" /\ "at" \in DOMAIN op'
    BY <2>1 DEF idle
  <2>3. RootIsFirstMountable'
    <3>1. ASSUME ~failed', NEW i \in DOMAIN places PROVE places[i] \notin disk.good
      <4>1. places = Append(parts, 0) /\ Tried(disk, parts, n + 2)
        BY <1>2, <1>3, <1>4, <2>1, <3>1 DEF places
      <4>2. parts \in Seq(Nat)
        BY <1>1, DiskIs, Prefix DEF Begins
      <4>3. i \in 1..(n + 1)
        BY <4>1, <4>2, <3>1, AppendProperties
      <4>4. i \in 1..(n + 2 - 1)
        BY <1>2, <4>3
      <4> QED
        BY <4>1, <4>4 DEF Tried
    <3>2. places' = places
      BY DEF places
    <3> QED
      BY <1>1, <3>1, <3>2, NoneAssumption DEF RootIsFirstMountable
  <2> QED
    BY <1>1, <2>1, <2>2, <2>3 DEF RootInv, RootOK, ScanOK, MountOK
<1> QED
  BY <1>5, <1>6

\* A turn of the loop over the GPT.
LEMMA GptTurn ==
    ASSUME RootInv, UNCHANGED <<disk, root, result>>, root = None, result = None,
           failed' = FALSE, ProtectiveMbr(disk), sector(disk, 1).signature,
           NEW i \in 0..sector(disk, 1).num_entries, NEW starts, Begins(disk, starts),
           Passed(disk, i, Len(starts)), gpt_turn(sector(disk, 1), i, starts)
    PROVE  RootInv'
<1> DEFINE gpt == sector(disk, 1)
           c == disk.candidates
           n == Len(starts)
<1>0. gpt.num_entries \in Nat /\ c \in Seq(Nat) /\ Len(c) \in Nat /\ n \in 0..Len(c)
  BY DiskIs DEF WellMade, ListsPartitions, ProtectiveMbr, Begins
<1>1. MAX_PARTS \in Nat /\ n \in Nat /\ n <= MAX_PARTS
  BY <1>0, Ext2Assumption DEF Begins
<1>2. CASE i < gpt.num_entries /\ n < MAX_PARTS
  <2>1. /\ op' = [at |-> "entry", gpt |-> gpt, i |-> i, starts |-> starts]
        /\ read_sectors(gpt.entry_lba + i \div gpt.per_sector, 1)
        /\ UNCHANGED <<base, parts>>
    BY <1>2 DEF gpt_turn
  <2>2. /\ InProgress' /\ rd'.lba = gpt.entry_lba + i \div gpt.per_sector /\ rd'.count = 1
    BY <2>1, CallBegins
  <2>3. /\ op'.at = "entry" /\ op'.gpt = gpt /\ op'.i = i /\ op'.starts = starts
        /\ "at" \in DOMAIN op' /\ op' # idle
    BY <2>1 DEF idle
  <2>4. i \in 0..(gpt.num_entries - 1)
    BY <1>0, <1>2
  <2>5. RootIsFirstMountable'
    BY <2>3, NoneAssumption DEF RootIsFirstMountable
  <2>6. RootOK'
    BY <2>3, <2>5 DEF RootInv, RootOK
  <2> HIDE DEF gpt
  <2>7. Calling(op.gpt.entry_lba + op.i \div op.gpt.per_sector, 1)'
    BY <2>2, <2>3 DEF Calling
  <2>8. (Begins(disk, op.starts) /\ Len(op.starts) < MAX_PARTS
           /\ Passed(disk, op.i, Len(op.starts)))'
    BY <1>2, <2>3
  <2>9. ScanOK'
    BY <2>3, <2>4, <2>7, <2>8 DEF ScanOK, gpt
  <2>10. MountOK'
    BY <2>3 DEF MountOK
  <2> QED
    BY <2>6, <2>9, <2>10 DEF RootInv
<1>3. CASE ~(i < gpt.num_entries /\ n < MAX_PARTS)
  <2>1. parts' = starts /\ enter(1, starts)
    BY <1>3 DEF gpt_turn, scanned
  <2>2. n = Len(c) \/ n = MAX_PARTS
    <3> SUFFICES ASSUME n # MAX_PARTS, n # Len(c) PROVE FALSE
      OBVIOUS
    <3>1. i = gpt.num_entries
      BY <1>0, <1>1, <1>3
    <3>2. PICK where : Numbered(disk, where) /\ Divides(disk, where, i, n)
      BY DEF Passed
    <3>3. n + 1 \in 1..Len(c) /\ DOMAIN c = 1..Len(c)
      BY <1>0
    <3>4. where[n + 1] \in 0..(gpt.num_entries - 1)
      BY <3>2, <3>3 DEF Numbered
    <3>5. where[n + 1] < i <=> n + 1 <= n
      BY <3>2, <3>3 DEF Divides
    <3> QED
      BY <1>0, <1>1, <3>1, <3>4, <3>5
  <2>3. starts = first_parts(c)
    BY <1>0, <2>2, FirstParts
  <2>4. 1 \in 1..(n + 1)
    BY <1>1
  <2>5. Tried(disk, starts, 1)
    BY DEF Tried
  <2> QED
    BY <2>1, <2>3, <2>4, <2>5, Entering
<1> QED
  BY <1>2, <1>3

\* Nothing was found by the scan, or its list ends early.
LEMMA Scanned ==
    ASSUME RootInv, UNCHANGED <<disk, root, result>>, root = None, result = None,
           NEW starts, Begins(disk, starts), scanned(starts), failed' \in BOOLEAN,
           ~failed' => starts = first_parts(disk.candidates)
    PROVE  RootInv'
<1>1. parts' = starts /\ enter(1, starts) /\ 1 \in 1..(Len(starts) + 1)
  BY DEF scanned, Begins
<1>2. Tried(disk, starts, 1)
  BY DEF Tried
<1> QED
  BY <1>1, <1>2, Entering

LEMMA ScanMbr ==
    ASSUME DriverInv, RootInv, scan_mbr
    PROVE  RootInv'
<1> DEFINE mbr == sector(disk, 0)
           c == disk.candidates
<1>1. /\ step = "ret" /\ op.at = "mbr" /\ Truthful /\ UNCHANGED <<disk, root, result>>
      /\ failed' = ~res.ok
  BY DEF scan_mbr, Reply
<1>2. root = None /\ result = None /\ Calling(0, 1) /\ res.ok \in BOOLEAN
  BY <1>1 DEF RootInv, ScanOK, DriverInv, DriverTypeOK
<1>3. WellMade(disk) /\ c \in Seq(Nat)
  BY DiskIs
<1>4. res.ok => got(1) = mbr
  <2> SUFFICES ASSUME res.ok PROVE got(1) = mbr
    OBVIOUS
  <2>1. Answers(0, 1)
    BY <1>1, <1>2, Answer
  <2> QED
    BY <2>1 DEF Answers
<1>5. Begins(disk, << >>) /\ Begins(disk, first_parts(c))
  BY <1>3, FirstParts
<1>6. CASE ~res.ok
  <2>1. scanned(<< >>) /\ failed' = TRUE
    BY <1>1, <1>6 DEF scan_mbr
  <2> QED
    BY <1>1, <1>2, <1>5, <2>1, Scanned
<1>7. CASE res.ok /\ ~mbr.signature
  <2>1. scanned(<< >>)
    BY <1>4, <1>7 DEF scan_mbr
  <2>2. << >> = first_parts(c)
    BY <1>3, <1>7, FirstParts DEF WellMade, ListsPartitions
  <2> QED
    BY <1>1, <1>2, <1>5, <2>1, <2>2, Scanned
<1>8. CASE res.ok /\ mbr.signature /\ ~is_gpt(mbr)
  <2>1. scanned(mbr_parts(mbr))
    BY <1>4, <1>8 DEF scan_mbr
  <2>2. mbr_parts(mbr) = first_parts(c)
    BY <1>3, <1>8 DEF WellMade, ListsPartitions, mbr_parts
  <2> QED
    BY <1>1, <1>2, <1>5, <2>1, <2>2, Scanned
<1>9. CASE res.ok /\ mbr.signature /\ is_gpt(mbr)
  <2>1. op' = [at |-> "gpt"] /\ read_sectors(1, 1) /\ UNCHANGED <<base, parts>>
    BY <1>4, <1>9 DEF scan_mbr
  <2>2. op'.at = "gpt" /\ "at" \in DOMAIN op' /\ op' # idle
    BY <2>1 DEF idle
  <2>3. Calling(1, 1)'
    BY <2>1, CallBegins DEF Calling
  <2>4. failed' = FALSE /\ ProtectiveMbr(disk)
    BY <1>1, <1>9 DEF ProtectiveMbr
  <2>5. RootIsFirstMountable'
    BY <1>1, <1>2, <2>2, NoneAssumption DEF RootIsFirstMountable
  <2>6. RootOK'
    BY <1>1, <1>2, <2>2, <2>4, <2>5 DEF RootInv, RootOK
  <2>7. ScanOK'
    BY <1>1, <1>2, <2>2, <2>3, <2>4 DEF ScanOK
  <2>8. MountOK'
    BY <2>2 DEF MountOK
  <2> QED
    BY <2>6, <2>7, <2>8 DEF RootInv
<1> QED
  BY <1>2, <1>6, <1>7, <1>8, <1>9

LEMMA ScanGpt ==
    ASSUME DriverInv, RootInv, scan_gpt
    PROVE  RootInv'
<1> DEFINE gpt == sector(disk, 1)
           c == disk.candidates
<1>1. /\ step = "ret" /\ op.at = "gpt" /\ Truthful /\ UNCHANGED <<disk, root, result>>
      /\ failed' = ~res.ok
  BY DEF scan_gpt, Reply
<1>2. /\ root = None /\ result = None /\ Calling(1, 1) /\ res.ok \in BOOLEAN
      /\ ProtectiveMbr(disk)
  BY <1>1 DEF RootInv, ScanOK, DriverInv, DriverTypeOK
<1>3. WellMade(disk) /\ c \in Seq(Nat)
  BY DiskIs
<1>4. res.ok => got(1) = gpt
  <2> SUFFICES ASSUME res.ok PROVE got(1) = gpt
    OBVIOUS
  <2>1. Answers(1, 1)
    BY <1>1, <1>2, Answer
  <2> QED
    BY <2>1 DEF Answers
<1>5. Begins(disk, << >>)
  BY <1>3, FirstParts
<1>6. CASE ~res.ok
  <2>1. scanned(<< >>) /\ failed' = TRUE
    BY <1>1, <1>6 DEF scan_gpt
  <2> QED
    BY <1>1, <1>2, <1>5, <2>1, Scanned
<1>7. CASE res.ok /\ ~gpt.signature
  <2>1. scanned(<< >>)
    BY <1>4, <1>7 DEF scan_gpt
  <2>2. << >> = first_parts(c)
    BY <1>2, <1>3, <1>7, FirstParts DEF WellMade, ListsPartitions, ProtectiveMbr
  <2> QED
    BY <1>1, <1>2, <1>5, <2>1, <2>2, Scanned
<1>8. CASE res.ok /\ gpt.signature
  <2>1. gpt_turn(gpt, 0, << >>) /\ failed' = FALSE
    BY <1>1, <1>4, <1>8 DEF scan_gpt
  <2>2. /\ gpt.num_entries \in Nat
        /\ \E where \in [DOMAIN c -> 0..(gpt.num_entries - 1)] : ListsEntries(disk, where)
    BY <1>2, <1>3, <1>8 DEF WellMade, ListsPartitions, ProtectiveMbr
  <2>3. PICK where : Numbered(disk, where) /\ ListsEntries(disk, where)
    BY <2>2 DEF Numbered
  <2>4. Divides(disk, where, 0, 0)
    <3>1. \A k \in DOMAIN c : where[k] \in 0..(gpt.num_entries - 1) /\ k \in 1..Len(c)
      BY <1>3, <2>3 DEF Numbered
    <3> QED
      BY <1>3, <2>2, <3>1 DEF Divides
  <2>5. Passed(disk, 0, Len(<< >>))
    BY <2>3, <2>4 DEF Passed
  <2>6. 0 \in 0..gpt.num_entries
    BY <2>2
  <2> QED
    BY <1>1, <1>2, <1>5, <1>8, <2>1, <2>5, <2>6, GptTurn
<1> QED
  BY <1>2, <1>6, <1>7, <1>8

\* An unused entry is passed over, a used one is the next candidate.
LEMMA EntryPassed ==
    ASSUME NEW d, d.candidates \in Seq(Nat), sector(d, 1).num_entries \in Nat,
           NEW i \in 0..(sector(d, 1).num_entries - 1), NEW starts, Begins(d, starts),
           Passed(d, i, Len(starts))
    PROVE  /\ gpt_entry(d, i).type = "empty" => Passed(d, i + 1, Len(starts))
           /\ gpt_entry(d, i).type # "empty" =>
                /\ Len(starts) + 1 <= Len(d.candidates)
                /\ gpt_entry(d, i).first_lba = d.candidates[Len(starts) + 1]
                /\ Passed(d, i + 1, Len(starts) + 1)
<1> DEFINE c == d.candidates
           n == Len(starts)
           N == sector(d, 1).num_entries
           e(j) == gpt_entry(d, j)
<1>0. n \in 0..Len(c) /\ DOMAIN c = 1..Len(c) /\ Len(c) \in Nat /\ n \in Nat
  BY DEF Begins
<1>1. PICK where : Numbered(d, where) /\ ListsEntries(d, where) /\ Divides(d, where, i, n)
  BY DEF Passed
<1>2. /\ \A k \in 1..Len(c) : where[k] \in 0..(N - 1) /\ (where[k] < i <=> k <= n)
      /\ \A j, k \in 1..Len(c) : j < k => where[j] < where[k]
      /\ {where[k] : k \in 1..Len(c)} = {j \in 0..(N - 1) : e(j).type # "empty"}
      /\ \A k \in 1..Len(c) : c[k] = e(where[k]).first_lba
  BY <1>0, <1>1 DEF Numbered, Divides, ListsEntries
<1> HIDE DEF e, c, N, n
<1>3. ASSUME e(i).type = "empty" PROVE Passed(d, i + 1, n)
  <2>1. i \notin {where[k] : k \in 1..Len(c)}
    BY <1>2, <1>3
  <2>2. \A k \in 1..Len(c) : where[k] # i
    BY <2>1
  <2>3. \A k \in 1..Len(c) : where[k] < i + 1 <=> k <= n
    BY <1>2, <2>2 DEF N
  <2>4. Divides(d, where, i + 1, n)
    BY <1>0, <2>3 DEF Divides, c
  <2> QED
    BY <1>1, <2>4 DEF Passed
<1>4. ASSUME e(i).type # "empty"
      PROVE  n + 1 <= Len(c) /\ e(i).first_lba = c[n + 1] /\ Passed(d, i + 1, n + 1)
  <2>1. i \in {where[k] : k \in 1..Len(c)}
    BY <1>2, <1>4 DEF N
  <2>2. PICK k \in 1..Len(c) : where[k] = i
    BY <2>1
  <2>3. ~(k <= n) /\ n + 1 \in 1..Len(c)
    BY <1>0, <1>2, <2>2 DEF N
  <2>4. k = n + 1
    <3> SUFFICES ASSUME n + 1 < k PROVE FALSE
      BY <1>0, <2>2, <2>3
    <3>1. where[n + 1] < where[k]
      BY <1>2, <2>2, <2>3
    <3>2. ~(where[n + 1] < i)
      <4>1. where[n + 1] < i <=> n + 1 <= n
        BY <1>2, <2>3
      <4> QED
        BY <1>0, <4>1
    <3> QED
      BY <2>2, <3>1, <3>2
  <2>5. \A j \in 1..Len(c) : where[j] < i + 1 <=> j <= n + 1
    <3> SUFFICES ASSUME NEW j \in 1..Len(c) PROVE where[j] < i + 1 <=> j <= n + 1
      OBVIOUS
    <3>0. where[j] \in 0..(N - 1) /\ (where[j] < i <=> j <= n)
      BY <1>2
    <3>1. CASE j = n + 1
      BY <1>0, <2>2, <2>4, <3>1 DEF N
    <3>2. CASE j < n + 1
      BY <1>0, <3>0, <3>2 DEF N
    <3>3. CASE n + 1 < j
      <4>1. where[n + 1] < where[j]
        BY <1>2, <2>3, <3>3
      <4> QED
        BY <1>0, <2>2, <2>4, <3>0, <3>3, <4>1 DEF N
    <3> QED
      BY <1>0, <3>1, <3>2, <3>3
  <2>6. Divides(d, where, i + 1, n + 1)
    BY <1>0, <2>5 DEF Divides, c
  <2>7. Passed(d, i + 1, n + 1)
    BY <1>1, <2>6 DEF Passed
  <2>8. n + 1 <= Len(c)
    BY <1>0, <2>3
  <2> QED
    BY <1>2, <2>2, <2>3, <2>4, <2>7, <2>8
<1> QED
  BY <1>3, <1>4 DEF e, c, n

LEMMA ScanEntry ==
    ASSUME DriverInv, RootInv, scan_entry
    PROVE  RootInv'
<1> DEFINE gpt == sector(disk, 1)
           c == disk.candidates
           i == op.i
           starts == op.starts
           e == gpt_entry(disk, i)
<1>1. /\ step = "ret" /\ op.at = "entry" /\ Truthful /\ UNCHANGED <<disk, root, result>>
      /\ failed' = (failed \/ ~res.ok)
  BY DEF scan_entry, Reply
<1>2. /\ root = None /\ result = None /\ res.ok \in BOOLEAN /\ failed = FALSE
      /\ ProtectiveMbr(disk) /\ gpt.signature /\ op.gpt = gpt
      /\ Calling(gpt.entry_lba + i \div gpt.per_sector, 1)
      /\ i \in 0..(gpt.num_entries - 1) /\ Begins(disk, starts) /\ Len(starts) < MAX_PARTS
      /\ Passed(disk, i, Len(starts))
  BY <1>1 DEF RootInv, ScanOK, DriverInv, DriverTypeOK
<1>3. c \in Seq(Nat) /\ gpt.num_entries \in Nat
  BY <1>2, DiskIs DEF WellMade, ListsPartitions, ProtectiveMbr
<1>4. CASE ~res.ok
  <2>1. scanned(starts) /\ failed' = TRUE
    BY <1>1, <1>4 DEF scan_entry
  <2> QED
    BY <1>1, <1>2, <2>1, Scanned
<1>5. CASE res.ok
  <2>1. got(1).entries[(i % gpt.per_sector) + 1] = e
    <3> DEFINE lba == gpt.entry_lba + i \div gpt.per_sector
    <3>1. lba \in Nat /\ Answers(lba, 1)
      BY <1>1, <1>2, <1>5, Answer
    <3> HIDE DEF lba
    <3>2. got(1) = sector(disk, lba)
      BY <3>1 DEF Answers
    <3> QED
      BY <3>2 DEF gpt_entry, lba
  <2>2. gpt_takes(e, starts) /\ failed' = FALSE
    BY <1>1, <1>2, <1>5, <2>1 DEF scan_entry
  <2>3. i + 1 \in 0..gpt.num_entries
    BY <1>2, <1>3
  <2>4. CASE e.type = "empty"
    <3>1. gpt_turn(gpt, i + 1, starts) /\ Passed(disk, i + 1, Len(starts))
      BY <1>2, <1>3, <2>2, <2>4, EntryPassed DEF gpt_takes
    <3> QED
      BY <1>1, <1>2, <2>2, <2>3, <3>1, GptTurn
  <2>5. CASE e.type # "empty"
    <3> DEFINE more_ == Append(starts, e.first_lba)
               n == Len(starts)
    <3>1. gpt_turn(gpt, i + 1, more_)
      BY <1>2, <2>2, <2>5 DEF gpt_takes
    <3>2. n + 1 <= Len(c) /\ e.first_lba = c[n + 1] /\ Passed(disk, i + 1, n + 1)
      BY <1>2, <1>3, <2>5, EntryPassed
    <3>3. n \in Nat /\ Len(c) \in Nat /\ starts = SubSeq(c, 1, n)
      BY <1>2, <1>3 DEF Begins
    <3>4. SubSeq(c, 1, n + 1) = Append(SubSeq(c, 1, n), c[n + 1])
      BY <1>3, <3>2, <3>3, PrefixGrows
    <3>5. more_ = SubSeq(c, 1, n + 1)
      BY <3>2, <3>3, <3>4
    <3>6. n + 1 \in 0..Len(c) /\ n + 1 <= MAX_PARTS
      BY <1>2, <3>2, <3>3, Ext2Assumption
    <3>7. Len(SubSeq(c, 1, n + 1)) = n + 1
      BY <1>3, <3>6, Prefix
    <3> HIDE DEF more_
    <3>8. Len(more_) = n + 1
      BY <3>5, <3>7
    <3>9. Begins(disk, more_) /\ Passed(disk, i + 1, Len(more_))
      BY <3>2, <3>5, <3>6, <3>8 DEF Begins
    <3> QED
      BY <1>1, <1>2, <2>2, <2>3, <3>1, <3>9, GptTurn
  <2> QED
    BY <2>4, <2>5
<1> QED
  BY <1>2, <1>4, <1>5

LEMMA MountSuper ==
    ASSUME DriverInv, RootInv, mount_super
    PROVE  RootInv'
<1> DEFINE sb == sector(disk, base + 2)
<1>1. /\ step = "ret" /\ op.at = "super" /\ Truthful /\ UNCHANGED <<disk, parts, root, result>>
      /\ failed' = (failed \/ ~res.ok)
  BY DEF mount_super, Reply
<1>2. /\ root = None /\ result = None /\ res.ok \in BOOLEAN /\ failed \in BOOLEAN
      /\ Begins(disk, parts) /\ (~failed => parts = first_parts(disk.candidates))
      /\ op.k \in 1..(Len(parts) + 1) /\ base = Append(parts, 0)[op.k]
      /\ ~failed => Tried(disk, parts, op.k)
      /\ Calling(base + 2, 2)
  BY <1>1 DEF RootInv, RootOK, MountOK, DriverInv, DriverTypeOK
<1>3. base \in Nat /\ (base \in disk.good <=> mountable(sb))
  BY <1>2, GoodIs
<1>4. res.ok => got(1) = sb
  <2> SUFFICES ASSUME res.ok PROVE got(1) = sb
    OBVIOUS
  <2>1. Answers(base + 2, 2)
    BY <1>1, <1>2, Answer
  <2>2. got(1) = sector(disk, base + 2 + 1 - 1)
    BY <2>1 DEF Answers
  <2>3. base + 2 + 1 - 1 = base + 2
    BY <1>3
  <2> QED
    BY <2>2, <2>3
<1>5. failed' \in BOOLEAN /\ (failed => failed') /\ (~failed' => ~failed /\ res.ok)
  BY <1>1, <1>2
<1> HIDE DEF sb
<1>6. CASE ~(res.ok /\ mountable(sb))
  <2>1. next_candidate
    BY <1>4, <1>6 DEF mount_super
  <2>2. ~failed' => base \notin disk.good
    BY <1>3, <1>5, <1>6
  <2> QED
    BY <1>1, <1>5, <2>1, <2>2, NextCandidate
<1>7. CASE res.ok /\ mountable(sb)
  <2>1. /\ op' = [at |-> "bgdt", k |-> op.k, sb |-> sb] /\ base' = base
        /\ read_sectors(base + bgdt_lba(sb), num_groups(sb))
    BY <1>4, <1>7 DEF mount_super
  <2>2. InProgress' /\ rd'.lba = base + bgdt_lba(sb) /\ rd'.count = num_groups(sb)
    BY <2>1, CallBegins
  <2>3. /\ op'.at = "bgdt" /\ op'.k = op.k /\ op'.sb = sb /\ "at" \in DOMAIN op'
        /\ op' # idle
    BY <2>1 DEF idle
  <2>4. RootIsFirstMountable'
    BY <1>1, <1>2, <2>3, NoneAssumption DEF RootIsFirstMountable
  <2>5. RootOK'
    BY <1>1, <1>2, <1>5, <2>1, <2>3, <2>4 DEF RootInv, RootOK
  <2>6. ScanOK'
    BY <2>3 DEF ScanOK
  <2>7. Calling(base + bgdt_lba(op.sb), num_groups(op.sb))'
    BY <2>1, <2>2, <2>3 DEF Calling
  <2>8. (op.sb = sector(disk, base + 2))' /\ base' \in disk'.good
    BY <1>1, <1>3, <1>7, <2>1, <2>3 DEF sb
  <2>9. MountOK'
    BY <1>1, <1>2, <1>5, <2>1, <2>3, <2>7, <2>8 DEF MountOK
  <2> QED
    BY <2>5, <2>6, <2>9 DEF RootInv
<1> QED
  BY <1>6, <1>7

LEMMA MountBgdt ==
    ASSUME DriverInv, RootInv, mount_bgdt
    PROVE  RootInv'
<1> DEFINE sb == sector(disk, base + 2)
<1>1. /\ step = "ret" /\ op.at = "bgdt" /\ Truthful /\ UNCHANGED <<disk, parts>>
      /\ failed' = (failed \/ ~res.ok)
  BY DEF mount_bgdt, Reply
<1>2. /\ root = None /\ result = None /\ res.ok \in BOOLEAN /\ failed \in BOOLEAN
      /\ Begins(disk, parts) /\ (~failed => parts = first_parts(disk.candidates))
      /\ op.k \in 1..(Len(parts) + 1) /\ base = Append(parts, 0)[op.k]
      /\ ~failed => Tried(disk, parts, op.k)
      /\ op.sb = sb /\ base \in disk.good
      /\ Calling(base + bgdt_lba(sb), num_groups(sb))
  BY <1>1 DEF RootInv, RootOK, MountOK, DriverInv, DriverTypeOK
<1>5. failed' \in BOOLEAN /\ (failed => failed') /\ (~failed' => ~failed /\ res.ok)
  BY <1>1, <1>2
<1>6. CASE ~res.ok
  <2>1. next_candidate /\ UNCHANGED <<root, result>>
    BY <1>6 DEF mount_bgdt
  <2> QED
    BY <1>1, <1>5, <1>6, <2>1, NextCandidate
<1>7. CASE res.ok
  <2>1. /\ root' = mounted(op.sb, [i \in DOMAIN res.data |-> got(i)]) /\ base' = base
        /\ op' = idle /\ result' = [kind |-> "mounted"]
    BY <1>7 DEF mount_bgdt, return
  <2>2. root' = file_system_at(disk, base)
    <3> DEFINE lba == base + bgdt_lba(sb)
               n == num_groups(sb)
    <3>1. Answers(lba, n)
      BY <1>1, <1>2, <1>7, Answer
    <3>2. root' = mounted(sb, [i \in DOMAIN res.data |-> got(i)])
      BY <1>2, <2>1
    <3> HIDE DEF lba, n, sb
    <3>3. [i \in DOMAIN res.data |-> got(i)] = [i \in 1..n |-> sector(disk, lba + i - 1)]
      BY <3>1 DEF Answers
    <3>4. root' = mounted(sb, [i \in 1..n |-> sector(disk, lba + i - 1)])
      BY <3>2, <3>3
    <3> QED
      BY <3>4 DEF file_system_at, lba, n, sb
  <2>3. op'.at = "idle" /\ "at" \in DOMAIN op'
    BY <2>1 DEF idle
  <2>4. root' # None
    BY <1>2, <2>2, DiskIs
  <2>5. RootIsFirstMountable'
    <3>1. ASSUME ~failed'
          PROVE  \E i \in DOMAIN places :
                   places[i] = base /\ \A j \in 1..(i - 1) : places[j] \notin disk.good
      <4>1. places = Append(parts, 0) /\ Tried(disk, parts, op.k)
        BY <1>2, <1>5, <3>1 DEF places
      <4>2. parts \in Seq(Nat)
        BY <1>2, DiskIs, Prefix DEF Begins
      <4>3. op.k \in DOMAIN places
        BY <1>2, <4>1, <4>2, AppendProperties
      <4>4. places[op.k] = base /\ \A j \in 1..(op.k - 1) : places[j] \notin disk.good
        BY <1>2, <4>1 DEF Tried
      <4> QED
        BY <4>3, <4>4
    <3>2. places' = places /\ disk' = disk /\ base' = base
      BY <1>1, <2>1 DEF places
    <3> QED
      BY <1>2, <2>4, <3>1, <3>2 DEF RootIsFirstMountable
  <2>6. RootOK'
    BY <1>1, <1>2, <1>5, <2>1, <2>2, <2>3, <2>5 DEF RootInv, RootOK
  <2>7. ScanOK' /\ MountOK'
    BY <2>3 DEF ScanOK, MountOK
  <2> QED
    BY <2>6, <2>7 DEF RootInv
<1> QED
  BY <1>2, <1>6, <1>7

\* Once mounted, the file system stays where it is.
LEMMA RootStays ==
    ASSUME RootInv, root # None, UNCHANGED <<disk, base, parts, root>>, "at" \in DOMAIN op',
           op'.at \notin {"off", "mbr", "gpt", "entry", "super", "bgdt"},
           failed' \in BOOLEAN, result' # None => op' = idle,
           (result' = result /\ failed' = failed) \/ result' # [kind |-> "mounted"]
    PROVE  RootInv'
<1>1. places' = places
  BY DEF places
<1>2. RootIsFirstMountable'
  BY <1>1 DEF RootInv, RootOK, RootIsFirstMountable
<1> QED
  BY <1>2 DEF RootInv, RootOK, ScanOK, MountOK

\* Where a call is once it has begun a read or a page.
LEMMA TurnsAreTurns ==
    ASSUME NEW o, NEW x, NEW y, "at" \in DOMAIN o
    PROVE  read_from(o, x, y).at = "turn" /\ list_from(o, x).at = "turn"
  BY DEF read_from, list_from

\* The steps of calls after the mount.
Using == \/ fetch_inode \/ turn \/ block_read \/ whole_turn \/ list_turn \/ read_returns
         \/ calls
Reader_at == {"idle", "inode", "turn", "block", "returned"}

LEMMA UsingIs ==
    ASSUME RootInv, StorageInv, Using
    PROVE  /\ root # None /\ UNCHANGED <<disk, base, parts, root>>
           /\ op'.at \in Reader_at
           /\ result' # None => op' = idle
           /\ result' = None \/ result'.kind \in {"whole", "list", "read"}
<1>0. "at" \in DOMAIN op /\ (result # None => op = idle)
  BY DEF RootInv, RootOK
<1>1. op.at \in {"inode", "turn", "block", "returned"} => root # None /\ result = None
  BY DEF RootInv, RootOK, idle
<1>2. CASE fetch_inode
  <2>1. op' = idle \/ \E di : op' = opened(di)
    BY <1>2 DEF fetch_inode
  <2>2. ASSUME NEW di, op' = opened(di) PROVE op'.at = "turn"
    <3> DEFINE o == [at |-> "turn", what |-> op.what, ino |-> op.ino, di |-> di,
              offset |-> 0, count |-> 0, data |-> << >>, so_far |-> << >>,
              blk_start |-> 0, page |-> new_page, path |-> << >>]
    <3>1. "at" \in DOMAIN o
      OBVIOUS
    <3>2. \/ op' = list_from(o, 0) \/ op' = read_from(o, 0, di.i_size)
          \/ op' = read_from(o, op.offset, op.count)
      BY <2>2 DEF opened
    <3> HIDE DEF o
    <3> QED
      BY <3>1, <3>2, TurnsAreTurns
  <2>3. op'.at \in Reader_at
    BY <2>1, <2>2 DEF idle, Reader_at
  <2> QED
    BY <1>1, <1>2, <2>3 DEF fetch_inode, Reply
<1>3. ASSUME NEW b, NEW path, resolve(b, path) PROVE op'.at \in Reader_at
  BY <1>0, <1>3 DEF resolve, Reader_at
<1>4. CASE turn
  <2>1. op'.at \in Reader_at
    BY <1>0, <1>3, <1>4 DEF turn, Reader_at
  <2> QED
    BY <1>1, <1>4, <2>1 DEF turn
<1>5. CASE block_read
  <2>1. ASSUME NEW block,
               op' = [IF op.what = "list" THEN listed(op, block) ELSE copied(op, block)
                        EXCEPT !.at = "turn"]
        PROVE  op'.at = "turn"
    BY <1>0, <2>1 DEF listed, copied
  <2>2. op'.at \in Reader_at
    BY <1>3, <1>5, <2>1 DEF block_read, Reader_at
  <2> QED
    BY <1>1, <1>5, <2>2 DEF block_read, Reply
<1>6. CASE whole_turn
  <2>1. op.at = "returned" /\ UNCHANGED <<disk, base, parts, root>>
    BY <1>6 DEF whole_turn
  <2>2. CASE op' = idle /\ result'.kind = "whole"
    BY <1>1, <2>1, <2>2 DEF idle, Reader_at
  <2>3. CASE ~(op' = idle /\ result'.kind = "whole")
    <3> DEFINE so_far == op.so_far \o op.data
               o == [op EXCEPT !.so_far = so_far]
    <3>0. \/ return([kind |-> "whole", ino |-> op.ino, value |-> op.so_far \o op.data])
          \/ return([kind |-> "whole", ino |-> op.ino, value |-> None])
          \/ op' = read_from(o, Len(so_far), op.di.i_size - Len(so_far)) /\ result' = result
      BY <1>6, Zenon DEF whole_turn
    <3>4. ASSUME NEW v, return([kind |-> "whole", ino |-> op.ino, value |-> v])
          PROVE  op' = idle /\ result'.kind = "whole"
      BY ONLY <3>4 DEF return
    <3>1. op' = read_from(o, Len(so_far), op.di.i_size - Len(so_far)) /\ result' = result
      BY ONLY <2>3, <3>0, <3>4, Zenon
    <3>2. "at" \in DOMAIN o
      BY <1>0, FieldsAreKept
    <3> HIDE DEF o, so_far
    <3>3. op'.at = "turn"
      BY <3>1, <3>2, TurnsAreTurns
    <3> QED
      BY <1>1, <2>1, <3>1, <3>3 DEF Reader_at
  <2> QED
    BY <2>2, <2>3
<1>7. CASE list_turn
  <2>1. op.at = "returned" /\ UNCHANGED <<disk, base, parts, root>>
    BY <1>7 DEF list_turn
  <2>2. CASE op' = idle /\ result'.kind = "list"
    BY <1>1, <2>1, <2>2 DEF idle, Reader_at
  <2>3. CASE ~(op' = idle /\ result'.kind = "list")
    <3> DEFINE so_far == op.so_far \o op.page.out
               o == [op EXCEPT !.so_far = so_far]
    <3>1. op' = list_from(o, op.offset + op.page.written) /\ result' = result
      BY <1>7, <2>3 DEF list_turn, return
    <3>2. "at" \in DOMAIN o
      BY <1>0, FieldsAreKept
    <3> HIDE DEF o, so_far
    <3>3. op'.at = "turn"
      BY <3>1, <3>2, TurnsAreTurns
    <3> QED
      BY <1>1, <2>1, <3>1, <3>3 DEF Reader_at
  <2> QED
    BY <2>2, <2>3
<1>8. CASE read_returns
  <2>1. op' = idle /\ result'.kind = "read" /\ op.at = "returned"
    BY <1>8 DEF read_returns, return
  <2> QED
    BY <1>1, <1>8, <2>1 DEF read_returns, idle, Reader_at
<1>9. CASE calls
  <2>1. ASSUME NEW ino, NEW what, NEW offset, NEW count, begin(ino, what, offset, count)
        PROVE  op'.at = "inode" /\ result' = None /\ root # None
               /\ UNCHANGED <<disk, base, parts, root>>
    BY <2>1 DEF begin
  <2> QED
    BY <1>9, <2>1 DEF calls, Reader_at
<1> QED
  BY <1>2, <1>4, <1>5, <1>6, <1>7, <1>8, <1>9 DEF Using

\* `failed` is a Boolean.
LEMMA FailedIs ==
    ASSUME RootInv, DriverInv, Using
    PROVE  failed' \in BOOLEAN
<1>1. failed \in BOOLEAN
  BY DEF RootInv, RootOK
<1>2. step = "ret" => res.ok \in BOOLEAN
  BY DEF DriverInv, DriverTypeOK
<1>3. CASE fetch_inode
  BY <1>2, <1>3 DEF fetch_inode, Reply
<1>4. CASE turn \/ block_read
  BY <1>1, <1>4 DEF turn, block_read, resolve
<1>5. CASE whole_turn \/ list_turn \/ read_returns
  BY <1>1, <1>5 DEF whole_turn, list_turn, read_returns
<1>6. CASE calls
  BY <1>6 DEF calls, begin
<1> QED
  BY <1>3, <1>4, <1>5, <1>6 DEF Using

LEMMA RootStep ==
    ASSUME StorageInv, RootInv, [Next]_vars
    PROVE  RootInv'
<1>0. DriverInv
  BY DEF StorageInv
<1>1. CASE \/ (no_port \/ \E identify \in BOOLEAN : init_port(identify)) /\ UNCHANGED fsVars
           \/ (driver \/ drive) /\ UNCHANGED fsVars
  <2>1. UNCHANGED fsVars /\ (late => late')
        /\ (InProgress => InProgress' /\ rd'.lba = rd.lba /\ rd'.count = rd.count)
    BY <1>0, <1>1, CallStands
  <2>2. places' = places
    BY <2>1 DEF places, fsVars
  <2>3. RootIsFirstMountable'
    BY <2>1, <2>2 DEF RootInv, RootOK, RootIsFirstMountable, fsVars
  <2>4. RootOK'
    BY <2>1, <2>3 DEF RootInv, RootOK, fsVars
  <2>5. ScanOK'
    BY <2>1 DEF RootInv, ScanOK, fsVars, Calling
  <2>6. MountOK'
    BY <2>1 DEF RootInv, MountOK, fsVars, Calling
  <2> QED
    BY <2>4, <2>5, <2>6 DEF RootInv
<1>2. CASE begin_init
  <2>1. /\ op.at = "off" /\ op' = [at |-> "mbr"] /\ read_sectors(0, 1)
        /\ UNCHANGED <<disk, base, parts, root, failed, result>>
    BY <1>2 DEF begin_init
  <2>2. op'.at = "mbr" /\ "at" \in DOMAIN op' /\ op' # idle
    BY <2>1 DEF idle
  <2>3. root = None /\ result = None /\ failed = FALSE
    BY <2>1 DEF RootInv, ScanOK
  <2>4. Calling(0, 1)'
    BY <2>1, CallBegins DEF Calling
  <2>5. RootIsFirstMountable'
    BY <2>1, <2>2, <2>3, NoneAssumption DEF RootIsFirstMountable
  <2>6. RootOK'
    BY <2>1, <2>2, <2>3, <2>5 DEF RootInv, RootOK
  <2>7. ScanOK' /\ MountOK'
    BY <2>1, <2>2, <2>3, <2>4 DEF ScanOK, MountOK
  <2> QED
    BY <2>6, <2>7 DEF RootInv
<1>3. CASE scan_mbr \/ scan_gpt \/ scan_entry \/ mount_super \/ mount_bgdt
  BY <1>0, <1>3, ScanMbr, ScanGpt, ScanEntry, MountSuper, MountBgdt
<1>4. CASE Using
  <2>1. /\ root # None /\ UNCHANGED <<disk, base, parts, root>>
        /\ op'.at \in Reader_at /\ (result' # None => op' = idle)
        /\ result' = None \/ result'.kind \in {"whole", "list", "read"}
    BY <1>4, UsingIs
  <2>2. failed' \in BOOLEAN
    BY <1>0, <1>4, FailedIs
  <2>3. "at" \in DOMAIN op'
    BY <1>4, FileSystemStep DEF StorageInv, CallerInv, Using, file_system
  <2>4. result' # [kind |-> "mounted"]
    BY <2>1, NoneAssumption
  <2>5. op'.at \notin {"off", "mbr", "gpt", "entry", "super", "bgdt"}
    BY <2>1 DEF Reader_at
  <2> QED
    BY <2>1, <2>2, <2>3, <2>4, <2>5, RootStays
<1>5. CASE garbage
  <2>1. op' = idle /\ UNCHANGED <<disk, base, parts, root, failed, result>> /\ late'
    BY <1>5 DEF garbage, no_read
  <2>2. op'.at = "idle" /\ "at" \in DOMAIN op'
    BY <2>1 DEF idle
  <2>3. places' = places
    BY <2>1 DEF places
  <2>4. RootIsFirstMountable'
    BY <2>1, <2>3 DEF RootInv, RootOK, RootIsFirstMountable
  <2> QED
    BY <2>1, <2>2, <2>4 DEF RootInv, RootOK, ScanOK, MountOK
<1>6. CASE UNCHANGED vars
  <2>1. places' = places
    BY <1>6 DEF places, vars, fsVars
  <2>2. RootIsFirstMountable'
    BY <1>6, <2>1 DEF RootInv, RootOK, RootIsFirstMountable, vars, fsVars, ahciVars, cpu_side
  <2> QED
    BY <1>6, <2>2 DEF RootInv, RootOK, ScanOK, MountOK, vars, fsVars, ahciVars, cpu_side,
       Calling, InProgress
<1> QED
  BY <1>1, <1>2, <1>3, <1>4, <1>5, <1>6 DEF Next, file_system, Using

LEMMA RootInit == Init => RootInv
<1> SUFFICES ASSUME Init PROVE RootInv
  OBVIOUS
<1>1. op.at = "off" /\ "at" \in DOMAIN op /\ op # idle
  BY DEF Init, idle
<1>2. RootIsFirstMountable
  BY <1>1, NoneAssumption DEF Init, RootIsFirstMountable
<1> QED
  BY <1>1, <1>2 DEF Init, RootInv, RootOK, ScanOK, MountOK

\* RootIsFirstMountable (vfs::init(), partition::scan(), ext2::mount()): whatever
\* tables a disk has and whichever reads fail, the root file system is the first
\* place that holds one, and the partition context stays on it.
THEOREM RootSafety == Spec => []RootIsFirstMountable
<1> DEFINE Inv == StorageInv /\ RootInv
<1>1. Init => Inv
  BY StorageInit, RootInit
<1>2. Inv /\ [Next]_vars => Inv'
  BY StorageStep, RootStep
<1>3. Inv => RootIsFirstMountable
  BY DEF RootInv, RootOK
<1> QED
  BY <1>1, <1>2, <1>3, PTL DEF Spec

----------------------------------------------------------------------------
(* Files *)

\* Following `path` from block b leads to block l of the file f.
Leads(d, s, P, f, l, b, path) ==
    LET at(x, i) == pointer(d, s, P, x, i)
        I == 0..(P - 1)
    IN  \/ path = << >> /\ HoldsPart(d, s, P, f, l, b)
        \/ \E i \in I : path = <<i>> /\ HoldsPart(d, s, P, f, l, at(b, i))
        \/ \E i, j \in I : path = <<i, j>> /\ HoldsPart(d, s, P, f, l, at(at(b, i), j))
        \/ \E i, j, k \in I :
             path = <<i, j, k>> /\ HoldsPart(d, s, P, f, l, at(at(at(b, i), j), k))

\* Division of a block number by the pointers per block.
LEMMA SplitTwo ==
    ASSUME NEW P \in Nat \ {0}, NEW m \in Nat, m < P * P
    PROVE  m \div P \in 0..(P - 1) /\ m % P \in 0..(P - 1) /\ m = (m \div P) * P + (m % P)
<1> DEFINE q == m \div P
           r == m % P
<1>1. q \in Nat /\ r \in 0..(P - 1) /\ m = P * q + r
  BY DivMod
<1> HIDE DEF q, r
<1>2. q < P
  <2> SUFFICES ASSUME P <= q PROVE FALSE
    BY <1>1
  <2>1. P * P <= P * q
    BY <1>1, MultOrder
  <2>2. P * P \in Nat /\ P * q \in Nat
    BY <1>1
  <2> QED
    BY <1>1, <2>1, <2>2
<1>3. P * q = q * P
  BY <1>1
<1>4. q \in 0..(P - 1) /\ r \in 0..(P - 1) /\ m = q * P + r
  BY <1>1, <1>2, <1>3
<1> QED
  BY ONLY <1>4 DEF q, r

LEMMA SplitThree ==
    ASSUME NEW P \in Nat \ {0}, NEW m \in Nat, m < P * P * P
    PROVE  LET i == m \div (P * P)
               j == (m % (P * P)) \div P
               k == m % P
               k2 == (m % (P * P)) % P
           IN  /\ i \in 0..(P - 1) /\ j \in 0..(P - 1) /\ k2 \in 0..(P - 1)
               /\ m = (i * P + j) * P + k2 /\ k2 = k
<1> DEFINE Q == P * P
           i == m \div Q
           n == m % Q
           j == n \div P
           k2 == n % P
<1>0. Q \in Nat \ {0}
  OBVIOUS
<1> HIDE DEF Q
<1>1. i \in Nat /\ n \in 0..(Q - 1) /\ m = Q * i + n
  BY <1>0, DivMod
<1> HIDE DEF i, n
<1>2. n \in Nat /\ n < P * P
  BY <1>0, <1>1 DEF Q
<1>3. j \in 0..(P - 1) /\ k2 \in 0..(P - 1) /\ n = j * P + k2
  BY <1>2, SplitTwo
<1> HIDE DEF j, k2
<1>4. i < P
  <2> SUFFICES ASSUME P <= i PROVE FALSE
    BY <1>1
  <2>1. Q * P <= Q * i
    BY <1>0, <1>1, MultOrder
  <2>2. Q * P \in Nat /\ Q * i \in Nat /\ m < Q * P
    BY <1>0, <1>1 DEF Q
  <2> QED
    BY <1>1, <2>1, <2>2
<1>5. m = (i * P + j) * P + k2
  <2>1. Q * i = i * P * P
    BY <1>1 DEF Q
  <2>2. (i * P + j) * P = i * P * P + j * P
    BY <1>1, <1>3
  <2> QED
    BY <1>0, <1>1, <1>3, <2>1, <2>2
<1>6. k2 = m % P
  <2> DEFINE u == i * P + j
  <2>1. u \in Nat /\ m = P * u + k2
    BY <1>1, <1>3, <1>5
  <2> HIDE DEF u
  <2> QED
    BY <1>3, <2>1, DivIs
<1> QED
  BY <1>1, <1>3, <1>4, <1>5, <1>6 DEF i, n, j, k2, Q

\* resolve_block() takes the path on which the file's block lies.
LEMMA PathLeads ==
    ASSUME NEW d, NEW s, NEW st, st.spb \in Nat \ {0}, NEW di, NEW f,
           HoldsFile(d, s, st.spb, di, f), NEW l \in Nat, block_path(st, l) # << >>
    PROVE  Leads(d, s, st.spb, f, l, di.i_block[block_path(st, l)[1]],
                 Tail(block_path(st, l)))
<1> DEFINE P == st.spb
           p == block_path(st, l)
           at(x, i) == pointer(d, s, P, x, i)
           part(x, b) == HoldsPart(d, s, P, f, x, b)
           I == 0..(P - 1)
           l1 == l - NDIRECT
           l2 == l1 - P
           l3 == l2 - P * P
<1>0. /\ \A i \in 0..(NDIRECT - 1) : part(i, di.i_block[i])
      /\ \A i \in I : part(NDIRECT + i, at(di.i_block[NDIRECT], i))
      /\ \A i, j \in I :
           part(NDIRECT + P + i * P + j, at(at(di.i_block[NDIRECT + 1], i), j))
      /\ \A i, j, k \in I :
           part(NDIRECT + P + P * P + (i * P + j) * P + k,
                at(at(at(di.i_block[NDIRECT + 2], i), j), k))
  BY DEF HoldsFile
<1>1. NDIRECT \in Nat /\ P \in Nat \ {0} /\ P * P \in Nat /\ P * P * P \in Nat
  BY Ext2Assumption
<1>2. \/ l < NDIRECT /\ p = <<l>>
      \/ l >= NDIRECT /\ l1 < P /\ p = <<NDIRECT, l1>>
      \/ l1 >= P /\ l2 < P * P /\ p = <<NDIRECT + 1, l2 \div P, l2 % P>>
      \/ l2 >= P * P /\ l3 < P * P * P
           /\ p = <<NDIRECT + 2, l3 \div (P * P), (l3 % (P * P)) \div P, l3 % P>>
  BY DEF block_path
<1> HIDE DEF P, p, at, part
<1> DEFINE G(b, path) == Leads(d, s, P, f, l, b, path)
<1>3. /\ \A b : part(l, b) => G(b, << >>)
      /\ \A b : \A i \in I : part(l, at(b, i)) => G(b, <<i>>)
      /\ \A b : \A i, j \in I : part(l, at(at(b, i), j)) => G(b, <<i, j>>)
      /\ \A b : \A i, j, k \in I : part(l, at(at(at(b, i), j), k)) => G(b, <<i, j, k>>)
  BY DEF Leads, part, at
<1> HIDE DEF G
<1> SUFFICES G(di.i_block[p[1]], Tail(p))
  BY DEF G, P, p
<1>4. CASE l < NDIRECT /\ p = <<l>>
  <2>1. l \in 0..(NDIRECT - 1) /\ p[1] = l /\ Tail(p) = << >>
    BY <1>1, <1>4
  <2> QED
    BY <1>0, <1>3, <2>1
<1>5. CASE l >= NDIRECT /\ l1 < P /\ p = <<NDIRECT, l1>>
  <2>1. l1 \in I /\ l = NDIRECT + l1
    BY <1>1, <1>5
  <2> HIDE DEF l1
  <2>2. p[1] = NDIRECT /\ Tail(p) = <<l1>>
    BY <1>5
  <2>3. part(l, at(di.i_block[NDIRECT], l1))
    BY <1>0, <2>1
  <2> QED
    BY <1>3, <2>1, <2>2, <2>3
<1>6. CASE l1 >= P /\ l2 < P * P /\ p = <<NDIRECT + 1, l2 \div P, l2 % P>>
  <2> DEFINE i == l2 \div P
             j == l2 % P
  <2>1. l2 \in Nat /\ l = NDIRECT + P + l2
    BY <1>1, <1>6
  <2>2. i \in I /\ j \in I /\ l2 = i * P + j
    BY <1>1, <1>6, <2>1, SplitTwo
  <2> HIDE DEF i, j, l2
  <2>3. p[1] = NDIRECT + 1 /\ Tail(p) = <<i, j>>
    BY <1>6 DEF i, j
  <2>4. l = NDIRECT + P + i * P + j
    BY <1>1, <2>1, <2>2
  <2>5. part(l, at(at(di.i_block[NDIRECT + 1], i), j))
    BY <1>0, <2>2, <2>4
  <2> QED
    BY <1>3, <2>2, <2>3, <2>5
<1>7. CASE l2 >= P * P /\ l3 < P * P * P
           /\ p = <<NDIRECT + 2, l3 \div (P * P), (l3 % (P * P)) \div P, l3 % P>>
  <2> DEFINE i == l3 \div (P * P)
             j == (l3 % (P * P)) \div P
             k == l3 % P
  <2>1. l3 \in Nat /\ l = NDIRECT + P + P * P + l3
    BY <1>1, <1>7
  <2>2. i \in I /\ j \in I /\ k \in I /\ l3 = (i * P + j) * P + k
    BY <1>1, <1>7, <2>1, SplitThree
  <2> HIDE DEF i, j, k, l3
  <2>3. p[1] = NDIRECT + 2 /\ Tail(p) = <<i, j, k>>
    BY <1>7 DEF i, j, k
  <2>4. l = NDIRECT + P + P * P + (i * P + j) * P + k
    BY <1>1, <2>1, <2>2
  <2>5. part(l, at(at(at(di.i_block[NDIRECT + 2], i), j), k))
    BY <1>0, <2>2, <2>4
  <2> QED
    BY <1>3, <2>2, <2>3, <2>5
<1> QED
  BY <1>2, <1>4, <1>5, <1>6, <1>7

\* A pointer block that has been read shows the way on.
LEMMA LeadsOn ==
    ASSUME NEW d, NEW s, NEW P \in Nat \ {0}, NEW f, NEW l, NEW b, NEW path,
           Leads(d, s, P, f, l, b, path), path # << >>
    PROVE  /\ path[1] \in 0..(P - 1)
           /\ Leads(d, s, P, f, l, pointer(d, s, P, b, path[1]), Tail(path))
<1> DEFINE at(x, i) == pointer(d, s, P, x, i)
           part(x) == HoldsPart(d, s, P, f, l, x)
           I == 0..(P - 1)
           G(x, t) == Leads(d, s, P, f, l, x, t)
<1>1. \/ \E i \in I : path = <<i>> /\ part(at(b, i))
      \/ \E i, j \in I : path = <<i, j>> /\ part(at(at(b, i), j))
      \/ \E i, j, k \in I : path = <<i, j, k>> /\ part(at(at(at(b, i), j), k))
  BY DEF Leads
<1>2. /\ \A x : part(x) => G(x, << >>)
      /\ \A x : \A i \in I : part(at(x, i)) => G(x, <<i>>)
      /\ \A x : \A i, j \in I : part(at(at(x, i), j)) => G(x, <<i, j>>)
  BY DEF Leads
<1> HIDE DEF at, part, G
<1>3. ASSUME NEW i \in I, path = <<i>>, part(at(b, i))
      PROVE  path[1] \in I /\ G(at(b, path[1]), Tail(path))
  BY <1>2, <1>3
<1>4. ASSUME NEW i \in I, NEW j \in I, path = <<i, j>>, part(at(at(b, i), j))
      PROVE  path[1] \in I /\ G(at(b, path[1]), Tail(path))
  <2>1. path[1] = i /\ Tail(path) = <<j>>
    BY <1>4
  <2> QED
    BY <1>2, <1>4, <2>1
<1>5. ASSUME NEW i \in I, NEW j \in I, NEW k \in I, path = <<i, j, k>>,
             part(at(at(at(b, i), j), k))
      PROVE  path[1] \in I /\ G(at(b, path[1]), Tail(path))
  <2>1. path[1] = i /\ Tail(path) = <<j, k>>
    BY <1>5
  <2> QED
    BY <1>2, <1>5, <2>1
<1>6. path[1] \in I /\ G(at(b, path[1]), Tail(path))
  BY <1>1, <1>3, <1>4, <1>5
<1> QED
  BY <1>6 DEF G, at

\* Bytes of f from an offset on.
left_from(f, offset) == IF offset >= Len(f) THEN 0 ELSE Len(f) - offset

Fields == {"at", "what", "ino", "di", "offset", "count", "data", "so_far", "blk_start",
           "page", "path"}

\* The call o reads the file f: what it has is what the file has from its offset
\* on, and read_whole_file() goes on where it stopped.
FileRead(d, s, P, o, f) ==
    /\ HoldsFile(d, s, P, o.di, f)
    /\ o.offset \in Nat /\ o.count \in 0..left_from(f, o.offset)
    /\ Len(o.data) \in 0..o.count
    /\ o.data = SubSeq(f, o.offset + 1, o.offset + Len(o.data))
    /\ o.what = "whole" =>
         /\ o.offset = Len(o.so_far) /\ o.offset <= Len(f)
         /\ o.so_far = SubSeq(f, 1, o.offset) /\ o.count = Len(f) - o.offset

OpenAs(d, s, P, o) ==
    /\ DOMAIN o = Fields /\ o.what \in {"list", "whole", "read"}
    /\ o.what # "list" =>
         o.ino \in DOMAIN d.files /\ FileRead(d, s, P, o, d.files[o.ino])

InodeOK ==
    op.at = "inode" =>
        /\ op.what \in {"list", "whole", "read"}
        /\ op.what # "list" => op.ino \in DOMAIN disk.files
        /\ op.offset \in Nat /\ op.count \in Nat /\ inode_exists(root, op.ino)
        /\ Calling(base + inode_block(root, op.ino) * root.spb, root.spb)

\* The block being read is on the way to the block the call is at.
BlockOK(b) ==
    /\ b # 0 /\ Calling(base + b * root.spb, root.spb)
    /\ Leads(disk, base, root.spb, disk.files[op.ino], position(op) \div root.spb, b,
             op.path)

ReadingOK ==
    op.at \in {"turn", "block", "returned"} =>
        /\ OpenAs(disk, base, root.spb, op)
        /\ op.what # "list" /\ op.at = "block" =>
             Len(op.data) < op.count /\ \E b : BlockOK(b)
        /\ op.what # "list" /\ op.at = "returned" /\ ~failed => Len(op.data) = op.count

ReadInv == InodeOK /\ ReadingOK /\ WholeFileOrNothing

\* What is known of a mounted file system.
LEMMA RootIs ==
    ASSUME RootInv, root # None
    PROVE  /\ root = file_system_at(disk, base) /\ HoldsFiles(disk, base) /\ base \in Nat
           /\ root.spb \in Nat \ {0}
           /\ DOMAIN disk.files \subseteq Nat /\ DOMAIN disk.dirs \subseteq Nat
<1>1. base \in disk.good /\ root = file_system_at(disk, base)
  BY DEF RootInv, RootOK, RootIsFirstMountable
<1>2. WellMade(disk) /\ base \in Nat
  BY <1>1, DiskIs
<1>3. /\ HoldsFiles(disk, base)
      /\ DOMAIN disk.files \subseteq Nat /\ DOMAIN disk.dirs \subseteq Nat
  BY <1>1, <1>2 DEF WellMade
<1>4. root.spb \in Nat \ {0}
  BY <1>1, <1>3 DEF HoldsFiles
<1> QED
  BY <1>1, <1>2, <1>3, <1>4

\* read_whole_file() reads on from where it is in the file f.
Continues(o, f, offset, count) ==
    o.what = "whole" =>
        /\ offset = Len(o.so_far) /\ offset <= Len(f)
        /\ o.so_far = SubSeq(f, 1, offset) /\ count = Len(f) - offset

\* ext2_read() begins.
CanBegin(d, s, P, o, f) ==
    DOMAIN o = Fields /\ f \in Seq(Range(f)) /\ HoldsFile(d, s, P, o.di, f)
Begun(d, s, P, o, f, r) ==
    /\ DOMAIN r = Fields /\ FileRead(d, s, P, r, f)
    /\ r.what = o.what /\ r.ino = o.ino /\ r.at = "turn"

LEMMA ReadBegins ==
    ASSUME NEW d, NEW s, NEW P, NEW o, NEW f, CanBegin(d, s, P, o, f),
           NEW offset \in Nat, NEW count \in Nat, Continues(o, f, offset, count)
    PROVE  Begun(d, s, P, o, f, read_from(o, offset, count))
<1> USE DEF CanBegin
<1> DEFINE r == read_from(o, offset, count)
           N == Len(f)
<1>1. o.di.i_size = N /\ N \in Nat
  BY DEF HoldsFile
<1>2. /\ DOMAIN r = Fields /\ r.what = o.what /\ r.ino = o.ino /\ r.at = "turn"
      /\ r.di = o.di /\ r.offset = offset /\ r.data = << >> /\ r.so_far = o.so_far
      /\ r.count = IF offset >= o.di.i_size THEN 0 ELSE Lesser(count, o.di.i_size - offset)
  BY DEF read_from, Fields
<1> HIDE DEF r
<1>3. r.count = IF offset >= N THEN 0 ELSE Lesser(count, N - offset)
  BY <1>1, <1>2
<1> HIDE DEF N
<1>4. /\ r.count \in 0..(IF offset >= N THEN 0 ELSE N - offset)
      /\ offset <= N /\ count = N - offset => r.count = count
  BY <1>1, <1>3 DEF Lesser
<1>5. r.count \in 0..left_from(f, r.offset)
  BY <1>2, <1>4 DEF left_from, N
<1>6. r.data = SubSeq(f, r.offset + 1, r.offset + Len(r.data)) /\ Len(r.data) = 0
  <2>1. SubSeq(f, offset + 1, offset + 0) = << >>
    <3>1. \A i \in (offset + 1)..(offset + 0) : f[i] \in Range(f)
      OBVIOUS
    <3>2. /\ SubSeq(f, offset + 1, offset + 0) \in Seq(Range(f))
          /\ Len(SubSeq(f, offset + 1, offset + 0)) = 0
      BY <3>1, SubSeqProperties
    <3> QED
      BY <3>2, EmptySeq
  <2>2. Len(<< >>) = 0
    OBVIOUS
  <2> QED
    BY <1>2, <2>1, <2>2
<1>7. r.what = "whole" =>
         /\ r.offset = Len(r.so_far) /\ r.offset <= Len(f)
         /\ r.so_far = SubSeq(f, 1, r.offset) /\ r.count = Len(f) - r.offset
  BY <1>2, <1>4 DEF N, Continues
<1>8. Len(r.data) \in 0..r.count
  BY <1>1, <1>4, <1>6
<1>9. FileRead(d, s, P, r, f)
  BY <1>2, <1>5, <1>6, <1>7, <1>8 DEF FileRead
<1> QED
  BY <1>2, <1>9 DEF r, Begun

\* Reading the block of a sector, and taking the sector from it.
LEMMA SectorIs ==
    ASSUME NEW P \in Nat \ {0}, NEW s \in Nat, NEW t \in Nat, NEW x \in Nat
    PROVE  s + (t + x \div P) * P + (x % P) = s + t * P + x
<1> DEFINE q == x \div P
           r == x % P
<1>1. q \in Nat /\ r \in 0..(P - 1) /\ x = P * q + r
  BY DivMod
<1> HIDE DEF q, r
<1>2. (t + q) * P = t * P + P * q
  BY <1>1
<1>3. t * P \in Nat /\ P * q \in Nat
  BY <1>1
<1>4. s + (t + q) * P + r = s + t * P + x
  BY <1>1, <1>2, <1>3
<1> QED
  BY <1>4 DEF q, r

\* fetch_inode() finds the inode in its group's table.
LEMMA InodeIs ==
    ASSUME RootInv, root # None, NEW ino \in DOMAIN disk.files \cup DOMAIN disk.dirs,
           inode_exists(root, ino), NEW lba \in Nat, lba = base + inode_block(root, ino) * root.spb
    PROVE  LET x == inode_offset(root, ino) % root.spb
           IN  /\ x \in 0..(root.spb - 1)
               /\ ino \in DOMAIN disk.files =>
                    HoldsFile(disk, base, root.spb, sector(disk, lba + x), disk.files[ino])
               /\ ino \in DOMAIN disk.dirs =>
                    HoldsDirectory(disk, base, root.spb, sector(disk, lba + x), disk.dirs[ino])
<1> DEFINE P == root.spb
           N == root.inodes_per_group
           S == root.inode_size
           g == inode_group(root, ino)
           r == (ino - 1) % N
           off == inode_offset(root, ino)
           t == root.bgdt[g + 1]
           x == off % P
<1>1. /\ {P, N, S} \subseteq Nat \ {0} /\ root.bgdt \in Seq(Nat)
      /\ \A g_ \in 0..(Len(root.bgdt) - 1), r_ \in 0..(N - 1) :
           /\ g_ * N + r_ + 1 \in DOMAIN disk.files =>
                HoldsFile(disk, base, P, sector(disk, base + root.bgdt[g_ + 1] * P + r_ * S),
                          disk.files[g_ * N + r_ + 1])
           /\ g_ * N + r_ + 1 \in DOMAIN disk.dirs =>
                HoldsDirectory(disk, base, P, sector(disk, base + root.bgdt[g_ + 1] * P + r_ * S),
                               disk.dirs[g_ * N + r_ + 1])
  BY RootIs DEF HoldsFiles
<1>2. ino - 1 \in Nat /\ ino \in Nat /\ base \in Nat /\ g < Len(root.bgdt)
  BY RootIs DEF inode_exists
<1>3. g \in Nat /\ r \in 0..(N - 1) /\ ino - 1 = N * g + r
  BY <1>1, <1>2, DivMod DEF inode_group
<1>4. off = r * S
  BY DEF inode_offset
<1>5. inode_block(root, ino) = t + off \div P
  BY DEF inode_block
<1> HIDE DEF P, N, S, g, r, off
<1>6. g \in 0..(Len(root.bgdt) - 1) /\ t \in Nat
  <2>1. root.bgdt \in Seq(Nat) /\ g \in Nat /\ g < Len(root.bgdt)
    BY <1>1, <1>2, <1>3
  <2> QED
    BY ONLY <2>1
<1> HIDE DEF t
<1>7. off \in Nat
  BY <1>1, <1>3, <1>4
<1>8. x \in 0..(P - 1)
  BY <1>1, <1>7, DivMod
<1> HIDE DEF x
<1>9. lba = base + (t + off \div P) * P
  BY <1>5 DEF P
<1>10. base + (t + off \div P) * P + x = base + t * P + off
  <2>1. P \in Nat \ {0} /\ base \in Nat /\ t \in Nat /\ off \in Nat
    BY <1>1, <1>2, <1>6, <1>7
  <2> QED
    BY ONLY <2>1, SectorIs DEF x
<1>11. lba + x = base + t * P + r * S
  BY <1>4, <1>9, <1>10
<1>12. ino = g * N + r + 1
  <2>1. N * g = g * N /\ N * g \in Nat
    BY <1>1, <1>3
  <2> QED
    BY <1>2, <1>3, <2>1
<1>13. /\ ino \in DOMAIN disk.files =>
            HoldsFile(disk, base, P, sector(disk, base + t * P + r * S), disk.files[ino])
       /\ ino \in DOMAIN disk.dirs =>
            HoldsDirectory(disk, base, P, sector(disk, base + t * P + r * S), disk.dirs[ino])
  BY <1>1, <1>3, <1>6, <1>12 DEF t
<1> QED
  BY <1>8, <1>11, <1>13 DEF P, x, off

\* A piece of a sequence, and what follows it there.
Joins(f, m, e, a, t) ==
    a \o t = SubSeq(f, m + 1, e) /\ Len(SubSeq(f, m + 1, e)) = e - m

Follows(f, m, n, e, a, t) ==
    /\ m \in Nat /\ n \in Nat /\ e \in Nat /\ m <= n /\ n <= e /\ e <= Len(f)
    /\ a = SubSeq(f, m + 1, n)
    /\ Len(t) = e - n /\ \A i \in 1..(e - n) : t[i] = f[n + i]

LEMMA Joined ==
    ASSUME NEW S, NEW f \in Seq(S), NEW t \in Seq(S), NEW m, NEW n, NEW e, NEW a,
           Follows(f, m, n, e, a, t)
    PROVE  Joins(f, m, e, a, t)
<1> DEFINE c == SubSeq(f, m + 1, e)
<1> USE DEF Follows
<1>0. m + 1 \in Int /\ Len(f) \in Nat
  OBVIOUS
<1>1. \A i \in (m + 1)..e : f[i] \in S
  BY <1>0
<1>2. a \in Seq(S) /\ Len(a) = n - m /\ \A i \in 1..(n - m) : a[i] = f[m + i]
  <2>1. \A i \in (m + 1)..n : f[i] \in S
    BY <1>0
  <2> QED
    BY <1>0, <2>1, SubSeqProperties
<1>3. c \in Seq(S) /\ Len(c) = e - m /\ \A i \in 1..(e - m) : c[i] = f[m + i]
  BY <1>0, <1>1, SubSeqProperties
<1> HIDE DEF c
<1>4. /\ a \o t \in Seq(S) /\ Len(a \o t) = e - m
      /\ \A i \in 1..(e - m) : (a \o t)[i] = IF i <= n - m THEN a[i] ELSE t[i - (n - m)]
  <2>0. a \in Seq(S) /\ t \in Seq(S)
    BY <1>2
  <2>1. /\ a \o t \in Seq(S) /\ Len(a \o t) = Len(a) + Len(t)
        /\ \A i \in 1..(Len(a) + Len(t)) :
             (a \o t)[i] = IF i <= Len(a) THEN a[i] ELSE t[i - Len(a)]
    BY ONLY <2>0, ConcatProperties
  <2>2. (n - m) + (e - n) = e - m
    OBVIOUS
  <2>3. Len(a) = n - m /\ Len(t) = e - n
    BY <1>2
  <2> QED
    BY ONLY <2>1, <2>2, <2>3, Zenon
<1>5. ASSUME NEW i \in 1..(e - m) PROVE (a \o t)[i] = c[i]
  <2>1. CASE i <= n - m
    <3>1. i \in 1..(n - m)
      BY <2>1
    <3> QED
      BY <1>2, <1>3, <1>4, <2>1, <3>1
  <2>2. CASE ~(i <= n - m)
    <3>1. i - (n - m) \in 1..(e - n) /\ n + (i - (n - m)) = m + i
      BY <2>2
    <3> QED
      BY <1>3, <1>4, <2>2, <3>1
  <2> QED
    BY <2>1, <2>2
<1>6. a \o t = c
  BY <1>3, <1>4, <1>5, SeqEqual
<1> QED
  BY <1>3, <1>6 DEF Joins, c

\* ext2_read() copies the right part of the right block.
LEMMA CopiedIs ==
    ASSUME NEW d, NEW s, NEW o, NEW f, DOMAIN o = Fields, o.what # "list",
           root.spb \in Nat \ {0}, FileRead(d, s, root.spb, o, f),
           Len(o.data) < o.count, NEW b, b # 0,
           HoldsPart(d, s, root.spb, f, position(o) \div root.spb, b),
           NEW lba \in Nat, lba = s + b * root.spb, NEW block,
           \A i \in 1..root.spb : block[i] = sector(d, lba + i - 1)
    PROVE  LET c == copied(o, block)
           IN  DOMAIN c = Fields /\ FileRead(d, s, root.spb, c, f)
               /\ c.what = o.what /\ c.ino = o.ino
<1> DEFINE P == root.spb
           D == Len(o.data)
           N == Len(f)
           pos == o.offset + D
           l == pos \div P
           off == pos % P
           n == Lesser(o.count - D, P - off)
           t == SubSeq(block, off + 1, off + n)
           c == copied(o, block)
<1>0. /\ position(o) = pos /\ f \in Seq(Range(f))
  BY DEF position, FileRead, HoldsFile
<1>1. /\ P \in Nat \ {0} /\ N \in Nat /\ o.offset \in Nat /\ o.count \in Nat
      /\ D \in Nat /\ D < o.count /\ o.offset + o.count <= N /\ pos \in Nat
  <2>1. N \in Nat /\ o.offset \in Nat /\ o.count \in 0..left_from(f, o.offset) /\ D \in 0..o.count
    BY <1>0 DEF FileRead
  <2>2. D < o.count /\ P \in Nat \ {0}
    OBVIOUS
  <2>3. left_from(f, o.offset) = IF o.offset >= N THEN 0 ELSE N - o.offset
    BY DEF left_from
  <2> HIDE DEF D, N, P
  <2> QED
    BY ONLY <2>1, <2>2, <2>3 DEF pos
<1>2. /\ c = [o EXCEPT !.data = o.data \o t]
  BY <1>0 DEF copied
<1>3. /\ DOMAIN c = Fields /\ c.what = o.what /\ c.ino = o.ino /\ c.di = o.di
      /\ c.offset = o.offset /\ c.count = o.count /\ c.so_far = o.so_far
      /\ c.data = o.data \o t
  BY <1>2 DEF Fields
<1> HIDE DEF D, N, P, pos, l, off, n, t, c
<1>4. l \in Nat /\ off \in 0..(P - 1) /\ pos = P * l + off
  BY <1>1, DivMod DEF l, off
<1>5. n \in Nat /\ n <= o.count - D /\ n <= P - off
  <2>1. o.count \in Nat /\ D \in Nat /\ D < o.count /\ P \in Nat /\ off \in 0..(P - 1)
    BY <1>1, <1>4
  <2> QED
    BY ONLY <2>1 DEF n, Lesser
<1>6. P * l \in Nat /\ l * P = P * l
  BY <1>1, <1>4
<1>7. ASSUME NEW i \in (off + 1)..(off + n) PROVE block[i] = f[P * l + i] /\ block[i] \in Range(f)
  <2>1. /\ i \in 1..P /\ i - 1 \in 0..(P - 1) /\ P * l + (i - 1) < N
        /\ P * l + i \in 1..N /\ P * l + (i - 1) + 1 = P * l + i
    <3> DEFINE Q == P * l
    <3>1. /\ Q \in Nat /\ P \in Nat /\ N \in Nat /\ o.offset \in Nat /\ o.count \in Nat
          /\ D \in Nat /\ o.offset + o.count <= N /\ o.offset + D = Q + off
          /\ off \in 0..(P - 1) /\ n \in Nat /\ n <= o.count - D /\ n <= P - off
          /\ i \in (off + 1)..(off + n)
      BY <1>1, <1>4, <1>5, <1>6 DEF pos
    <3> HIDE DEF Q
    <3>2. /\ i \in 1..P /\ i - 1 \in 0..(P - 1) /\ Q + (i - 1) < N
          /\ Q + i \in 1..N /\ Q + (i - 1) + 1 = Q + i
      BY ONLY <3>1
    <3> QED
      BY <3>2 DEF Q
  <2>2. block[i] = sector(d, lba + (i - 1))
    <3>1. lba + i - 1 = lba + (i - 1)
      BY <2>1
    <3> QED
      BY <2>1, <3>1 DEF P
  <2>3. \A k \in 0..(P - 1) : P * l + k < N => sector(d, lba + k) = f[P * l + k + 1]
    BY <1>0, <1>6 DEF HoldsPart, P, l, N
  <2>4. sector(d, lba + (i - 1)) = f[P * l + (i - 1) + 1]
    BY <2>1, <2>3
  <2>5. f[P * l + i] \in Range(f)
    BY <1>0, <2>1 DEF Range, N
  <2> QED
    BY <2>1, <2>2, <2>4, <2>5
<1>8. /\ t \in Seq(Range(f)) /\ Len(t) = n /\ DOMAIN t = 1..n
      /\ \A i \in 1..n : t[i] = f[o.offset + D + i]
  <2>1. off + 1 \in Int /\ off + n \in Int
    BY <1>4, <1>5
  <2>2. \A i \in (off + 1)..(off + n) : block[i] \in Range(f)
    BY <1>7
  <2>3. /\ t \in Seq(Range(f))
        /\ Len(t) = IF off + 1 <= off + n THEN (off + n) - (off + 1) + 1 ELSE 0
        /\ \A i \in 1..((off + n) - (off + 1) + 1) : t[i] = block[off + 1 + i - 1]
    <3> DEFINE x == off + 1
               y == off + n
    <3>1. /\ x \in Int /\ y \in Int /\ t = SubSeq(block, x, y)
          /\ \A i \in x..y : block[i] \in Range(f)
      BY <2>1, <2>2 DEF t
    <3> HIDE DEF x, y
    <3>2. /\ t \in Seq(Range(f)) /\ Len(t) = IF x <= y THEN y - x + 1 ELSE 0
          /\ \A i \in 1..(y - x + 1) : t[i] = block[x + i - 1]
      BY ONLY <3>1, SubSeqProperties
    <3> QED
      BY <3>2 DEF x, y
  <2>4. Len(t) = n
    BY <1>4, <1>5, <2>3
  <2>5. ASSUME NEW i \in 1..n PROVE t[i] = f[o.offset + D + i]
    <3>1. /\ off + 1 + i - 1 \in (off + 1)..(off + n) /\ i \in 1..((off + n) - (off + 1) + 1)
          /\ P * l + (off + 1 + i - 1) = o.offset + D + i
      BY <1>1, <1>4, <1>5, <1>6 DEF pos
    <3> QED
      BY <1>7, <2>3, <3>1
  <2> QED
    BY <2>3, <2>4, <2>5
<1> DEFINE e == pos + n
<1> HIDE DEF e
<1>9. Joins(f, o.offset, e, o.data, t) /\ e = o.offset + (D + n)
  <2>0. /\ o.offset \in Nat /\ D \in Nat /\ o.count \in Nat /\ N \in Nat /\ n \in Nat
        /\ o.offset + o.count <= N /\ n <= o.count - D
    BY <1>1, <1>5
  <2>1. /\ o.offset <= pos /\ pos <= e /\ e <= N /\ e \in Nat /\ pos \in Nat
        /\ e - pos = n /\ e = o.offset + (D + n)
    BY ONLY <2>0 DEF pos, e
  <2>2. o.data = SubSeq(f, o.offset + 1, pos)
    BY DEF FileRead, D, pos
  <2>3. \A i \in 1..(e - pos) : t[i] = f[pos + i]
    <3>1. ASSUME NEW i \in 1..n PROVE t[i] = f[pos + i]
      BY <1>8 DEF pos
    <3> QED
      BY <2>1, <3>1
  <2>4. Len(t) = e - pos /\ e <= Len(f)
    BY <1>8, <2>1 DEF N
  <2>5. Follows(f, o.offset, pos, e, o.data, t)
    BY <2>0, <2>1, <2>2, <2>3, <2>4 DEF Follows
  <2> QED
    BY <1>0, <1>8, <2>1, <2>5, Joined
<1>10. /\ c.data = SubSeq(f, o.offset + 1, o.offset + (D + n)) /\ Len(c.data) = D + n
  <2>1. /\ c.data = SubSeq(f, o.offset + 1, e) /\ Len(c.data) = e - o.offset
    BY <1>3, <1>9 DEF Joins
  <2>2. e - o.offset = D + n
    BY <1>1, <1>5, <1>9
  <2> QED
    BY <1>9, <2>1, <2>2
<1>11. D + n \in 0..o.count
  BY <1>1, <1>5
<1>12. FileRead(d, s, P, c, f)
  BY <1>3, <1>10, <1>11 DEF FileRead, P
<1> QED
  BY <1>3, <1>12 DEF c, P

\* Until a call returns there is no result.
LEMMA NoResult ==
    ASSUME RootInv, op.at # "idle"
    PROVE  result = None /\ (op.at \in {"inode", "turn", "block", "returned"} => root # None)
  BY DEF RootInv, RootOK, idle

\* make_vfs_inode() is called.
LEMMA CallsStep ==
    ASSUME RootInv, calls
    PROVE  ReadInv'
<1>1. ASSUME NEW ino, NEW what \in {"list", "whole", "read"}, NEW offset \in Nat,
             NEW count \in Nat, what # "list" => ino \in DOMAIN disk.files,
             begin(ino, what, offset, count)
      PROVE  ReadInv'
  <2>1. /\ op' = [at |-> "inode", ino |-> ino, what |-> what, offset |-> offset,
                  count |-> count]
        /\ result' = None /\ inode_exists(root, ino)
        /\ UNCHANGED <<disk, base, parts, root>>
        /\ read_sectors(base + inode_block(root, ino) * root.spb, root.spb)
    BY <1>1 DEF begin, read_block
  <2>2. /\ op'.at = "inode" /\ op'.ino = ino /\ op'.what = what /\ op'.offset = offset
        /\ op'.count = count
    BY <2>1
  <2>3. InProgress' /\ rd'.lba = base + inode_block(root, ino) * root.spb
        /\ rd'.count = root.spb
    BY <2>1, CallBegins
  <2>4. InodeOK'
    BY <1>1, <2>1, <2>2, <2>3 DEF InodeOK, Calling
  <2>5. ReadingOK' /\ WholeFileOrNothing'
    BY <2>1, <2>2 DEF ReadingOK, WholeFileOrNothing
  <2> QED
    BY <2>4, <2>5 DEF ReadInv
<1>2. CASE \E ino \in DOMAIN disk.files : begin(ino, "whole", 0, 0)
  BY <1>1, <1>2
<1>3. CASE \E ino \in DOMAIN disk.files : \E r \in Reads : begin(ino, "read", r[1], r[2])
  <2>1. PICK ino \in DOMAIN disk.files, r \in Reads : begin(ino, "read", r[1], r[2])
    BY <1>3
  <2>2. r[1] \in Nat /\ r[2] \in Nat
    BY ReadsAssumption
  <2> QED
    BY <1>1, <2>1, <2>2
<1>4. CASE \E ino \in DOMAIN disk.dirs : begin(ino, "list", 0, 0)
  BY <1>1, <1>4
<1> QED
  BY <1>2, <1>3, <1>4 DEF calls

\* The loop moves on.
Moves(o, x, p, r) == r = [o EXCEPT !.at = x] \/ r = [o EXCEPT !.at = x, !.path = p]

LEMMA Moved ==
    ASSUME NEW d, NEW s, NEW P, NEW o, OpenAs(d, s, P, o), NEW x, NEW p, NEW r,
           Moves(o, x, p, r)
    PROVE  /\ OpenAs(d, s, P, r) /\ r.at = x /\ r.what = o.what /\ r.ino = o.ino
           /\ r.data = o.data /\ r.count = o.count /\ position(r) = position(o)
<1>1. /\ DOMAIN r = Fields /\ r.at = x /\ r.what = o.what /\ r.ino = o.ino /\ r.di = o.di
      /\ r.data = o.data /\ r.count = o.count /\ r.offset = o.offset
      /\ r.so_far = o.so_far /\ r.blk_start = o.blk_start
  BY DEF OpenAs, Fields, Moves
<1>3. OpenAs(d, s, P, r)
  BY <1>1 DEF OpenAs, FileRead
<1>4. position(r) = position(o)
  BY <1>1 DEF position
<1> QED
  BY <1>1, <1>3, <1>4

\* resolve_block() goes on to block b, or meets a hole.
LEMMA Resolved ==
    ASSUME RootInv, ReadInv, op.at \in {"turn", "block"}, NEW b, NEW path, resolve(b, path),
           UNCHANGED <<disk, base, parts, root, result>>,
           op.what # "list" /\ b # 0 =>
               /\ Len(op.data) < op.count
               /\ Leads(disk, base, root.spb, disk.files[op.ino],
                        position(op) \div root.spb, b, path)
    PROVE  ReadInv'
<1>1. OpenAs(disk, base, root.spb, op) /\ result = None
  BY NoResult DEF ReadInv, ReadingOK
<1>2. WholeFileOrNothing'
  BY <1>1 DEF WholeFileOrNothing
<1>3. CASE b = 0
  <2>1. op' = [op EXCEPT !.at = "returned"] /\ failed' = TRUE
    BY <1>3 DEF resolve
  <2>2. Moves(op, "returned", << >>, op')
    BY <2>1 DEF Moves
  <2>3. OpenAs(disk, base, root.spb, op') /\ op'.at = "returned"
    BY <1>1, <2>2, Moved
  <2> QED
    BY <1>2, <2>1, <2>3 DEF ReadInv, InodeOK, ReadingOK
<1>4. CASE b # 0
  <2>1. /\ op' = [op EXCEPT !.at = "block", !.path = path]
        /\ read_sectors(base + b * root.spb, root.spb)
    BY <1>4 DEF resolve, read_block
  <2>2. /\ OpenAs(disk, base, root.spb, op') /\ op'.at = "block" /\ op'.what = op.what
        /\ op'.ino = op.ino /\ op'.data = op.data /\ op'.count = op.count
        /\ position(op') = position(op) /\ op'.path = path
    <3>1. Moves(op, "block", path, op')
      BY <2>1 DEF Moves
    <3>2. op'.path = path
      BY <1>1, <2>1 DEF OpenAs, Fields
    <3> QED
      BY <1>1, <3>1, <3>2, Moved
  <2>3. InProgress' /\ rd'.lba = base + b * root.spb /\ rd'.count = root.spb
    BY <2>1, CallBegins
  <2>4. op.what # "list" => BlockOK(b)'
    BY <1>4, <2>2, <2>3 DEF BlockOK, Calling
  <2>5. ReadingOK'
    BY <1>4, <2>2, <2>4 DEF ReadingOK
  <2> QED
    BY <1>2, <2>2, <2>5 DEF ReadInv, InodeOK
<1> QED
  BY <1>3, <1>4

\* fetch_inode() returns, and the call begins with the file's inode.
LEMMA FetchStep ==
    ASSUME StorageInv, RootInv, ReadInv, fetch_inode
    PROVE  ReadInv'
<1> DEFINE P == root.spb
           x == inode_offset(root, op.ino) % P
           di == got(x + 1)
           lba == base + inode_block(root, op.ino) * P
<1>1. /\ step = "ret" /\ op.at = "inode" /\ Truthful
      /\ UNCHANGED <<disk, base, parts, root, result>>
      /\ op' = IF res.ok THEN opened(di) ELSE idle
  BY DEF fetch_inode, Reply
<1>2. result = None /\ root # None
  BY <1>1, NoResult
<1>3. WholeFileOrNothing'
  BY <1>1, <1>2 DEF WholeFileOrNothing
<1>4. CASE ~res.ok
  <2>1. op'.at = "idle"
    BY <1>1, <1>4 DEF idle
  <2> QED
    BY <1>3, <2>1 DEF ReadInv, InodeOK, ReadingOK
<1>5. CASE res.ok
  <2>1. /\ op.what \in {"list", "whole", "read"} /\ Calling(lba, P)
        /\ op.what # "list" => op.ino \in DOMAIN disk.files
        /\ op.offset \in Nat /\ op.count \in Nat /\ inode_exists(root, op.ino)
    BY <1>1 DEF ReadInv, InodeOK
  <2>2. lba \in Nat /\ \A i \in 1..P : got(i) = sector(disk, lba + i - 1)
    BY <1>1, <1>5, <2>1, Answer DEF StorageInv, Answers
  <2>3. ASSUME op.what # "list"
        PROVE  HoldsFile(disk, base, P, di, disk.files[op.ino])
    <3>1. lba = base + inode_block(root, op.ino) * root.spb
      OBVIOUS
    <3> HIDE DEF lba
    <3>2. x \in 0..(P - 1) /\ HoldsFile(disk, base, P, sector(disk, lba + x), disk.files[op.ino])
      BY <1>2, <2>1, <2>2, <2>3, <3>1, InodeIs
    <3>3. P \in Nat
      BY <1>2, RootIs
    <3> HIDE DEF x, P
    <3>4. x + 1 \in 1..P /\ lba + (x + 1) - 1 = lba + x
      BY <2>2, <3>2, <3>3
    <3> QED
      BY <2>2, <3>2, <3>4
  <2> DEFINE o == [at |-> "turn", what |-> op.what, ino |-> op.ino, di |-> di,
                   offset |-> 0, count |-> 0, data |-> << >>, so_far |-> << >>,
                   blk_start |-> 0, page |-> new_page, path |-> << >>]
  <2>4. op' = CASE op.what = "list" -> list_from(o, 0)
                [] op.what = "whole" -> read_from(o, 0, di.i_size)
                [] OTHER -> read_from(o, op.offset, op.count)
    BY <1>1, <1>5 DEF opened
  <2>5. /\ DOMAIN o = Fields /\ o.what = op.what /\ o.ino = op.ino /\ o.di = di
        /\ o.so_far = << >>
    BY DEF Fields
  <2> HIDE DEF o, di, x, lba, P
  <2>6. OpenAs(disk, base, P, op') /\ op'.at = "turn"
    <3>1. CASE op.what = "list"
      <4>1. op' = list_from(o, 0)
        BY <2>4, <3>1
      <4>2. DOMAIN op' = Fields /\ op'.what = "list" /\ op'.at = "turn"
        BY <2>5, <3>1, <4>1 DEF list_from, Fields
      <4> QED
        BY <4>2 DEF OpenAs
    <3>2. CASE op.what # "list"
      <4> DEFINE f == disk.files[op.ino]
      <4>1. /\ HoldsFile(disk, base, P, o.di, f) /\ f \in Seq(Range(f)) /\ di.i_size = Len(f)
        BY <2>3, <2>5, <3>2 DEF HoldsFile
      <4> HIDE DEF f
      <4>2. ASSUME NEW offset \in Nat, NEW count \in Nat,
                   Continues(o, f, offset, count), op' = read_from(o, offset, count)
            PROVE  OpenAs(disk, base, P, op') /\ op'.at = "turn"
        <5>1. CanBegin(disk, base, P, o, f)
          BY <2>5, <4>1 DEF CanBegin
        <5>2. Begun(disk, base, P, o, f, op')
          BY <4>2, <5>1, ReadBegins
        <5> QED
          BY <2>1, <2>5, <3>2, <5>2 DEF Begun, OpenAs, f
      <4>3. CASE op.what = "whole"
        <5>1. op' = read_from(o, 0, Len(f)) /\ Len(f) \in Nat
          BY <2>4, <4>1, <4>3
        <5>2. SubSeq(f, 1, 0) = << >>
          BY <4>1, SubSeqEmpty
        <5>3. Continues(o, f, 0, Len(f))
          BY <2>5, <5>1, <5>2 DEF Continues
        <5> QED
          BY <4>2, <5>1, <5>3
      <4>4. CASE op.what = "read"
        <5>1. op' = read_from(o, op.offset, op.count)
          BY <2>4, <4>4
        <5>2. Continues(o, f, op.offset, op.count)
          BY <2>5, <4>4 DEF Continues
        <5> QED
          BY <2>1, <4>2, <5>1, <5>2
      <4> QED
        BY <2>1, <3>2, <4>3, <4>4
    <3> QED
      BY <3>1, <3>2
  <2> QED
    BY <1>1, <1>3, <2>6 DEF ReadInv, InodeOK, ReadingOK, P
<1> QED
  BY <1>4, <1>5

\* What the call is at is a position in the file.
LEMMA PositionIs ==
    ASSUME RootInv, root # None, OpenAs(disk, base, root.spb, op), op.what # "list"
    PROVE  /\ position(op) = op.offset + Len(op.data) /\ position(op) \in Nat
           /\ position(op) \div root.spb \in Nat
<1>1. position(op) = op.offset + Len(op.data)
  BY DEF position
<1>2. op.offset \in Nat /\ Len(op.data) \in Nat
  <2>1. /\ op.offset \in Nat /\ Len(op.data) \in 0..op.count
        /\ op.count \in 0..left_from(disk.files[op.ino], op.offset)
    BY DEF OpenAs, FileRead
  <2> QED
    BY <2>1
<1>3. root.spb \in Nat \ {0}
  BY RootIs
<1>4. position(op) \in Nat
  BY <1>1, <1>2
<1> QED
  BY ONLY <1>1, <1>3, <1>4, DivMod

\* The head of the loop: the call has ended, or goes to its next block.
LEMMA TurnStep ==
    ASSUME RootInv, ReadInv, turn
    PROVE  ReadInv'
<1> DEFINE l == position(op) \div root.spb
           path == block_path(root, l)
<1>1. /\ op.at = "turn" /\ UNCHANGED <<disk, base, parts, root, result>>
      /\ ~more(op) => op' = [op EXCEPT !.at = "returned"]
      /\ more(op) /\ path = << >> => resolve(0, << >>)
      /\ more(op) /\ path # << >> => resolve(op.di.i_block[path[1]], Tail(path))
  <2>1. op.at = "turn" /\ UNCHANGED <<disk, base, parts, root, result>>
    BY DEF turn
  <2>2. ~more(op) => op' = [op EXCEPT !.at = "returned"]
    BY Zenon DEF turn
  <2>3. more(op) /\ path = << >> => resolve(0, << >>)
    BY Zenon DEF turn
  <2>4. more(op) /\ path # << >> => resolve(op.di.i_block[path[1]], Tail(path))
    BY Zenon DEF turn
  <2> QED
    BY <2>1, <2>2, <2>3, <2>4
<1>2. result = None /\ root # None /\ OpenAs(disk, base, root.spb, op)
  BY <1>1, NoResult DEF ReadInv, ReadingOK
<1>3. CASE ~more(op)
  <2>1. Moves(op, "returned", << >>, op')
    BY <1>1, <1>3 DEF Moves
  <2>2. /\ OpenAs(disk, base, root.spb, op') /\ op'.at = "returned" /\ op'.what = op.what
        /\ op'.data = op.data /\ op'.count = op.count
    BY <1>2, <2>1, Moved
  <2>3. op.what # "list" => Len(op.data) = op.count
    <3> SUFFICES ASSUME op.what # "list" PROVE Len(op.data) = op.count
      OBVIOUS
    <3>1. ~(Len(op.data) < op.count)
      BY <1>3 DEF more
    <3>2. Len(op.data) \in 0..op.count /\ op.count \in 0..left_from(disk.files[op.ino], op.offset)
      BY <1>2 DEF OpenAs, FileRead
    <3> QED
      BY <3>1, <3>2
  <2> QED
    BY <1>1, <1>2, <2>2, <2>3 DEF ReadInv, InodeOK, ReadingOK, WholeFileOrNothing
<1>4. CASE more(op) /\ path = << >>
  BY <1>1, <1>4, Resolved
<1>5. CASE more(op) /\ path # << >>
  <2> DEFINE b == op.di.i_block[path[1]]
  <2>1. resolve(b, Tail(path))
    BY <1>1, <1>5
  <2>2. ASSUME op.what # "list"
        PROVE  /\ Len(op.data) < op.count
               /\ Leads(disk, base, root.spb, disk.files[op.ino], l, b, Tail(path))
    <3>1. Len(op.data) < op.count
      BY <1>5, <2>2 DEF more
    <3>2. HoldsFile(disk, base, root.spb, op.di, disk.files[op.ino])
      BY <1>2, <2>2 DEF OpenAs, FileRead
    <3>3. l \in Nat /\ root.spb \in Nat \ {0}
      BY <1>2, <2>2, PositionIs, RootIs
    <3> QED
      BY <1>5, <3>1, <3>2, <3>3, PathLeads
  <2> HIDE DEF b, path
  <2> QED
    BY <1>1, <2>1, <2>2, Resolved
<1> QED
  BY <1>3, <1>4, <1>5

\* A block has been read: one on the way, or the one that was wanted.
LEMMA BlockStep ==
    ASSUME StorageInv, RootInv, ReadInv, block_read
    PROVE  ReadInv'
<1> DEFINE P == root.spb
           f == disk.files[op.ino]
           l == position(op) \div P
           block == [i \in DOMAIN res.data |-> got(i)]
           o == IF op.what = "list" THEN listed(op, block) ELSE copied(op, block)
<1>1. /\ step = "ret" /\ op.at = "block" /\ Truthful
      /\ UNCHANGED <<disk, base, parts, root, result>>
  BY DEF block_read, Reply
<1>2. /\ ~res.ok => resolve(0, << >>)
      /\ res.ok /\ op.path # << >> => resolve(got(op.path[1] + 1), Tail(op.path))
      /\ res.ok /\ op.path = << >> => op' = [o EXCEPT !.at = "turn"]
  <2>1. ~res.ok => resolve(0, << >>)
    BY Zenon DEF block_read
  <2>2. res.ok /\ op.path # << >> => resolve(got(op.path[1] + 1), Tail(op.path))
    BY Zenon DEF block_read
  <2>3. res.ok /\ op.path = << >> => op' = [o EXCEPT !.at = "turn"]
    BY Zenon DEF block_read
  <2> QED
    BY <2>1, <2>2, <2>3
<1>3. /\ result = None /\ root # None /\ OpenAs(disk, base, P, op)
      /\ op.what # "list" => Len(op.data) < op.count /\ \E b : BlockOK(b)
  BY <1>1, NoResult DEF ReadInv, ReadingOK
<1>4. P \in Nat \ {0}
  BY <1>3, RootIs
<1>5. CASE ~res.ok
  BY <1>1, <1>2, <1>5, Resolved
<1> DEFINE Came(b, lba) ==
             /\ b # 0 /\ lba \in Nat /\ lba = base + b * P
             /\ Leads(disk, base, P, f, l, b, op.path) /\ DOMAIN res.data = 1..P
             /\ \A i \in 1..P : got(i) = sector(disk, lba + i - 1)
<1>6. ASSUME res.ok, op.what # "list"
      PROVE  \E b : \E lba : Came(b, lba)
  <2>1. PICK b : BlockOK(b)
    BY <1>3, <1>6
  <2> DEFINE lba == base + b * P
  <2>2. b # 0 /\ Calling(lba, P) /\ Leads(disk, base, P, f, l, b, op.path)
    BY <2>1 DEF BlockOK
  <2> HIDE DEF l, f, P
  <2>3. lba \in Nat /\ Answers(lba, P)
    BY <1>1, <1>6, <2>2, Answer DEF StorageInv
  <2> QED
    BY <2>2, <2>3 DEF Answers
<1>7. CASE res.ok /\ op.path # << >>
  <2>1. resolve(got(op.path[1] + 1), Tail(op.path))
    BY <1>2, <1>7
  <2>2. ASSUME op.what # "list"
        PROVE  /\ Len(op.data) < op.count
               /\ Leads(disk, base, P, f, l, got(op.path[1] + 1), Tail(op.path))
    <3>1. PICK b, lba : Came(b, lba)
      BY <1>6, <1>7, <2>2
    <3> DEFINE i == op.path[1]
    <3> HIDE DEF f, l, P
    <3>2. /\ i \in 0..(P - 1)
          /\ Leads(disk, base, P, f, l, pointer(disk, base, P, b, i), Tail(op.path))
      BY <1>4, <1>7, <3>1, LeadsOn
    <3> HIDE DEF i
    <3>3. i + 1 \in 1..P /\ lba + (i + 1) - 1 = lba + i
      BY <1>4, <3>1, <3>2
    <3>4. got(i + 1) = sector(disk, lba + i)
      BY <3>1, <3>3
    <3>5. pointer(disk, base, P, b, i) = got(i + 1)
      BY <3>1, <3>4 DEF pointer
    <3> QED
      BY <1>3, <2>2, <3>2, <3>5 DEF i
  <2> QED
    BY <1>1, <2>1, <2>2, Resolved
<1>8. CASE res.ok /\ op.path = << >>
  <2>1. op' = [o EXCEPT !.at = "turn"]
    BY <1>2, <1>8
  <2>2. OpenAs(disk, base, P, o)
    <3>1. CASE op.what = "list"
      <4>1. o = listed(op, block)
        BY <3>1
      <4>2. DOMAIN o = DOMAIN op /\ o.what = op.what
        BY <1>3, <4>1 DEF listed, OpenAs, Fields
      <4> QED
        BY <1>3, <3>1, <4>2 DEF OpenAs
    <3>2. CASE op.what # "list"
      <4>1. PICK b, lba : Came(b, lba)
        BY <1>6, <1>8, <3>2
      <4>2. HoldsPart(disk, base, P, f, l, b)
        <5>1. \A i, j, k : op.path # <<i>> /\ op.path # <<i, j>> /\ op.path # <<i, j, k>>
          BY <1>8
        <5> HIDE DEF f, l, P
        <5> QED
          BY <4>1, <5>1 DEF Leads
      <4>3. \A i \in 1..P : block[i] = sector(disk, lba + i - 1)
        BY <4>1
      <4>4. o = copied(op, block)
        BY <3>2
      <4>5. DOMAIN op = Fields /\ FileRead(disk, base, P, op, f) /\ op.ino \in DOMAIN disk.files
            /\ op.what \in {"list", "whole", "read"}
        BY <1>3, <3>2 DEF OpenAs
      <4> HIDE DEF block, f, o
      <4>6. DOMAIN o = Fields /\ FileRead(disk, base, P, o, f)
            /\ o.what = op.what /\ o.ino = op.ino
        BY <1>3, <1>4, <3>2, <4>1, <4>2, <4>3, <4>4, <4>5, CopiedIs
      <4> QED
        BY <4>5, <4>6 DEF OpenAs, f
    <3> QED
      BY <3>1, <3>2
  <2> HIDE DEF o
  <2>3. Moves(o, "turn", << >>, op')
    BY <2>1 DEF Moves
  <2>4. OpenAs(disk, base, P, op') /\ op'.at = "turn"
    BY <2>2, <2>3, Moved
  <2> QED
    BY <1>1, <1>3, <2>4 DEF ReadInv, InodeOK, ReadingOK, WholeFileOrNothing
<1> QED
  BY <1>5, <1>7, <1>8

\* What read_whole_file() has after another read.
LEMMA WholeJoins ==
    ASSUME NEW d, NEW s, NEW P, NEW o, NEW f, FileRead(d, s, P, o, f), o.what = "whole"
    PROVE  /\ f \in Seq(Range(f)) /\ o.di.i_size = Len(f)
           /\ o.offset + Len(o.data) \in 0..Len(f) /\ o.offset \in 0..Len(f)
           /\ Len(o.so_far) = o.offset
           /\ Joins(f, 0, o.offset + Len(o.data), o.so_far, o.data)
<1> DEFINE N == Len(f)
           D == Len(o.data)
           x == o.offset
           e == x + D
<1>1. f \in Seq(Range(f)) /\ o.di.i_size = N /\ N \in Nat
  BY DEF FileRead, HoldsFile
<1>2. /\ x = Len(o.so_far) /\ o.so_far = SubSeq(f, 1, x)
      /\ o.data = SubSeq(f, x + 1, x + D)
      /\ x \in Nat /\ x <= N /\ o.count = N - x /\ D \in 0..o.count
  BY DEF FileRead
<1> HIDE DEF N, D, x
<1>3. e \in 0..N /\ x \in 0..N /\ D \in Nat /\ 0 <= x /\ x <= e /\ e - x = D
  BY <1>1, <1>2
<1>4. o.data = SubSeq(f, x + 1, e)
  BY <1>2
<1> HIDE DEF e
<1>5. o.data \in Seq(Range(f)) /\ Len(o.data) = D /\ \A i \in 1..(e - x) : o.data[i] = f[x + i]
  <2> DEFINE g == x + 1
  <2>1. g \in Int /\ e \in Int /\ \A i \in g..e : f[i] \in Range(f)
    <3>1. g \in Int /\ e \in Int /\ \A i \in g..e : i \in 1..N
      BY <1>1, <1>3
    <3>2. DOMAIN f = 1..N
      BY <1>1 DEF N
    <3> QED
      BY <3>1, <3>2 DEF Range
  <2>2. o.data = SubSeq(f, g, e)
    BY <1>4
  <2> HIDE DEF g
  <2>3. /\ o.data \in Seq(Range(f))
        /\ \A i \in 1..(e - g + 1) : o.data[i] = f[g + i - 1]
    BY ONLY <2>1, <2>2, SubSeqProperties
  <2>4. ASSUME NEW i \in 1..(e - x) PROVE o.data[i] = f[x + i]
    <3>1. i \in 1..(e - g + 1) /\ g + i - 1 = x + i
      BY <1>3 DEF g
    <3> QED
      BY <2>3, <3>1
  <2> QED
    BY <2>3, <2>4 DEF D
<1>6. Follows(f, 0, x, e, o.so_far, o.data)
  <2>1. 0 + 1 = 1 /\ Len(o.data) = e - x /\ e <= Len(f) /\ 0 \in Nat /\ x \in Nat /\ e \in Nat
    BY <1>1, <1>3, <1>5 DEF N
  <2>2. o.so_far = SubSeq(f, 0 + 1, x)
    BY <1>2, <2>1
  <2> QED
    BY <1>3, <1>5, <2>1, <2>2 DEF Follows
<1>7. Joins(f, 0, e, o.so_far, o.data)
  BY <1>1, <1>5, <1>6, Joined
<1> QED
  BY <1>1, <1>2, <1>3, <1>7 DEF e, x, D, N

\* read_whole_file() has the file, or gives up, or reads on.
LEMMA WholeStep ==
    ASSUME RootInv, ReadInv, whole_turn
    PROVE  ReadInv'
<1> DEFINE f == disk.files[op.ino]
           N == Len(f)
           D == Len(op.data)
           so_far == op.so_far \o op.data
           o == [op EXCEPT !.so_far = so_far]
           e == op.offset + D
<1>1. /\ op.at = "returned" /\ op.what = "whole"
      /\ UNCHANGED <<disk, base, parts, root, failed>>
  BY DEF whole_turn
<1>2. /\ whole_done => return([kind |-> "whole", ino |-> op.ino, value |-> so_far])
      /\ ~whole_done /\ op.data = << >> =>
           return([kind |-> "whole", ino |-> op.ino, value |-> None])
      /\ ~whole_done /\ op.data # << >> =>
           op' = read_from(o, Len(so_far), op.di.i_size - Len(so_far)) /\ result' = result
  <2>1. whole_done => return([kind |-> "whole", ino |-> op.ino, value |-> so_far])
    BY Zenon DEF whole_turn
  <2>2. ~whole_done /\ op.data = << >> =>
          return([kind |-> "whole", ino |-> op.ino, value |-> None])
    BY Zenon DEF whole_turn
  <2>3. ~whole_done /\ op.data # << >> =>
          op' = read_from(o, Len(so_far), op.di.i_size - Len(so_far)) /\ result' = result
    BY Zenon DEF whole_turn
  <2> QED
    BY <2>1, <2>2, <2>3
<1>3. /\ result = None /\ root # None /\ OpenAs(disk, base, root.spb, op)
      /\ ~failed => D = op.count
  BY <1>1, NoResult DEF ReadInv, ReadingOK
<1>4. /\ FileRead(disk, base, root.spb, op, f) /\ DOMAIN op = Fields
      /\ op.ino \in DOMAIN disk.files
  BY <1>1, <1>3 DEF OpenAs
<1>5. /\ f \in Seq(Range(f)) /\ op.di.i_size = N /\ e \in 0..N /\ op.offset \in 0..N
      /\ Len(op.so_far) = op.offset /\ Joins(f, 0, e, op.so_far, op.data)
  BY <1>1, <1>4, WholeJoins
<1>6. N \in Nat /\ D \in Nat /\ op.count = N - op.offset
  BY <1>1, <1>4, <1>5 DEF FileRead
<1> HIDE DEF f
<1>7. so_far = SubSeq(f, 1, e) /\ Len(so_far) = e
  <2>1. 0 + 1 = 1 /\ e - 0 = e
    BY <1>5
  <2> HIDE DEF e
  <2> QED
    BY <1>5, <2>1 DEF Joins
<1>8. whole_done <=> e >= N
  BY <1>5 DEF whole_done
<1> HIDE DEF N, D, so_far, o, e
<1>9. ASSUME NEW v, return([kind |-> "whole", ino |-> op.ino, value |-> v]),
             v = f \/ (v = None /\ failed)
      PROVE  ReadInv'
  <2>1. op'.at = "idle" /\ result'.value = v /\ result'.ino = op.ino
    BY <1>9 DEF return, idle
  <2> QED
    BY <1>1, <1>9, <2>1 DEF ReadInv, InodeOK, ReadingOK, WholeFileOrNothing, f
<1>10. CASE whole_done
  <2>1. e = N
    BY <1>5, <1>6, <1>8, <1>10
  <2>2. so_far = f
    BY <1>5, <1>7, <2>1, SubSeqFull DEF N
  <2> QED
    BY <1>2, <1>9, <1>10, <2>2
<1>11. CASE ~whole_done /\ op.data = << >>
  <2>1. D = 0
    BY <1>11 DEF D
  <2>2. op.offset < N
    BY <1>5, <1>6, <1>8, <1>11, <2>1 DEF e
  <2>3. D # op.count
    BY <1>5, <1>6, <2>1, <2>2
  <2>4. failed
    BY <1>3, <2>3
  <2> QED
    BY <1>2, <1>9, <1>11, <2>4
<1>12. CASE ~whole_done /\ op.data # << >>
  <2>1. op' = read_from(o, e, N - e) /\ result' = None
    BY <1>2, <1>3, <1>5, <1>7, <1>12
  <2>2. DOMAIN o = Fields /\ o.what = op.what /\ o.ino = op.ino /\ o.di = op.di
        /\ o.so_far = so_far
    BY <1>4 DEF o, Fields
  <2>3. CanBegin(disk, base, root.spb, o, f)
    BY <1>4, <1>5, <2>2 DEF CanBegin, FileRead
  <2>4. Continues(o, f, e, N - e)
    BY <1>5, <1>7, <2>2 DEF Continues, N
  <2>5. e \in Nat /\ N - e \in Nat
    BY <1>5, <1>6
  <2>6. Begun(disk, base, root.spb, o, f, op')
    BY <2>1, <2>3, <2>4, <2>5, ReadBegins
  <2>7. OpenAs(disk, base, root.spb, op') /\ op'.at = "turn"
    BY <1>1, <1>4, <2>2, <2>6 DEF Begun, OpenAs, f
  <2> QED
    BY <1>1, <2>1, <2>7 DEF ReadInv, InodeOK, ReadingOK, WholeFileOrNothing
<1> QED
  BY <1>10, <1>11, <1>12

\* A read or a listing returns to its caller, and a listing goes on.
LEMMA ListStep ==
    ASSUME RootInv, ReadInv, list_turn \/ read_returns
    PROVE  ReadInv'
<1>1. op.at = "returned" /\ UNCHANGED <<disk, base, parts, root, failed>>
  BY DEF list_turn, read_returns
<1>2. OpenAs(disk, base, root.spb, op) /\ result = None
  BY <1>1, NoResult DEF ReadInv, ReadingOK
<1>3. ASSUME NEW k \in {"list", "read"}, NEW v, return([kind |-> k, ino |-> op.ino, value |-> v])
      PROVE  ReadInv'
  <2>1. op'.at = "idle" /\ result'.kind = k
    BY <1>3 DEF return, idle
  <2> QED
    BY <2>1 DEF ReadInv, InodeOK, ReadingOK, WholeFileOrNothing
<1>4. CASE read_returns
  BY <1>3, <1>4 DEF read_returns
<1>5. CASE list_turn
  <2> DEFINE o == [op EXCEPT !.so_far = op.so_far \o op.page.out]
  <2>1. /\ op.what = "list"
        /\ \/ return([kind |-> "list", ino |-> op.ino, value |-> op.so_far])
           \/ op' = list_from(o, op.offset + op.page.written) /\ result' = result
    BY <1>5 DEF list_turn
  <2>2. CASE return([kind |-> "list", ino |-> op.ino, value |-> op.so_far])
    BY <1>3, <2>2
  <2>3. CASE op' = list_from(o, op.offset + op.page.written) /\ result' = result
    <3>1. DOMAIN o = Fields /\ o.what = "list"
      BY <1>2, <2>1 DEF OpenAs, Fields
    <3> HIDE DEF o
    <3>2. DOMAIN op' = Fields /\ op'.what = "list" /\ op'.at = "turn"
      BY <2>3, <3>1 DEF list_from, Fields
    <3> QED
      BY <1>1, <1>2, <2>3, <3>2
         DEF ReadInv, InodeOK, ReadingOK, OpenAs, WholeFileOrNothing
  <2> QED
    BY <2>1, <2>2, <2>3
<1> QED
  BY <1>4, <1>5

\* Where no file system call is under way.
Off == {"off", "mbr", "gpt", "entry", "super", "bgdt", "idle"}

\* The scan and the mount make none, and return at most a mounted root.
LEMMA MountingIs ==
    ASSUME RootInv,
           begin_init \/ scan_mbr \/ scan_gpt \/ scan_entry \/ mount_super \/ mount_bgdt
    PROVE  op'.at \in Off /\ (result' # None => result'.kind = "mounted")
<1> USE DEF Off
<1>1. op.at \in Off \ {"idle"}
  BY DEF begin_init, scan_mbr, scan_gpt, scan_entry, mount_super, mount_bgdt, Reply
<1>2. result = None
  BY <1>1 DEF RootInv, ScanOK, MountOK
<1>3. ASSUME NEW k, NEW starts, enter(k, starts) PROVE op'.at \in Off
  BY <1>3 DEF enter
<1>4. ASSUME NEW starts, scanned(starts) PROVE op'.at \in Off
  BY <1>3, <1>4 DEF scanned
<1>5. ASSUME NEW gpt, NEW i, NEW starts, gpt_turn(gpt, i, starts) PROVE op'.at \in Off
  BY <1>4, <1>5 DEF gpt_turn
<1>6. ASSUME next_candidate PROVE op'.at \in Off
  BY <1>3, <1>6 DEF next_candidate, idle
<1>7. op'.at \in Off
  <2>1. CASE begin_init
    BY <2>1 DEF begin_init
  <2>2. CASE scan_mbr
    BY <1>4, <2>2 DEF scan_mbr
  <2>3. CASE scan_gpt
    BY <1>4, <1>5, <2>3 DEF scan_gpt
  <2>4. CASE scan_entry
    BY <1>4, <1>5, <2>4 DEF scan_entry, gpt_takes
  <2>5. CASE mount_super
    BY <1>6, <2>5 DEF mount_super
  <2>6. CASE mount_bgdt
    BY <1>6, <2>6 DEF mount_bgdt, return, idle
  <2> QED
    BY <2>1, <2>2, <2>3, <2>4, <2>5, <2>6
<1>8. result' = None \/ result' = [kind |-> "mounted"]
  BY <1>2 DEF begin_init, scan_mbr, scan_gpt, scan_entry, mount_super, mount_bgdt, return
<1>9. result' # None => result'.kind = "mounted"
  BY <1>8
<1> QED
  BY <1>7, <1>9

LEMMA MountingReads ==
    ASSUME RootInv,
           begin_init \/ scan_mbr \/ scan_gpt \/ scan_entry \/ mount_super \/ mount_bgdt
    PROVE  ReadInv'
<1>1. op'.at \in Off /\ (result' # None => result'.kind = "mounted")
  BY MountingIs
<1> QED
  BY <1>1 DEF Off, ReadInv, InodeOK, ReadingOK, WholeFileOrNothing

LEMMA ReadStep ==
    ASSUME StorageInv, RootInv, ReadInv, [Next]_vars
    PROVE  ReadInv'
<1>1. CASE \/ (no_port \/ \E identify \in BOOLEAN : init_port(identify)) /\ UNCHANGED fsVars
           \/ (driver \/ drive) /\ UNCHANGED fsVars
  <2>1. UNCHANGED fsVars
        /\ (InProgress => InProgress' /\ rd'.lba = rd.lba /\ rd'.count = rd.count)
    BY <1>1, CallStands DEF StorageInv
  <2>2. ASSUME NEW lba, NEW n, Calling(lba, n)
        PROVE  InProgress' /\ rd'.lba = lba /\ rd'.count = n
    BY <2>1, <2>2 DEF Calling
  <2>3. InodeOK'
    BY <2>1, <2>2 DEF ReadInv, InodeOK, fsVars, Calling
  <2>4. position(op)' = position(op)
    BY <2>1 DEF position, fsVars
  <2>5. ASSUME NEW b, BlockOK(b) PROVE BlockOK(b)'
    BY <2>1, <2>2, <2>4, <2>5 DEF BlockOK, fsVars, Calling
  <2>6. ReadingOK'
    BY <2>1, <2>5 DEF ReadInv, ReadingOK, fsVars
  <2>7. WholeFileOrNothing'
    BY <2>1 DEF ReadInv, WholeFileOrNothing, fsVars
  <2> QED
    BY <2>3, <2>6, <2>7 DEF ReadInv
<1>2. CASE begin_init \/ scan_mbr \/ scan_gpt \/ scan_entry \/ mount_super \/ mount_bgdt
  BY <1>2, MountingReads
<1>3. CASE Using
  BY <1>3, FetchStep, TurnStep, BlockStep, WholeStep, ListStep, CallsStep DEF Using
<1>4. CASE garbage
  <2>1. op'.at = "idle" /\ UNCHANGED <<disk, failed, result>>
    BY <1>4 DEF garbage, idle
  <2> QED
    BY <2>1 DEF ReadInv, InodeOK, ReadingOK, WholeFileOrNothing
<1>5. CASE UNCHANGED vars
  <2>1. UNCHANGED fsVars /\ UNCHANGED <<step, rd>>
    BY <1>5 DEF vars, ahciVars, cpu_side
  <2>2. position(op)' = position(op)
    BY <2>1 DEF position, fsVars
  <2>3. ASSUME NEW b, BlockOK(b) PROVE BlockOK(b)'
    BY <2>1, <2>2, <2>3 DEF BlockOK, fsVars, Calling, InProgress
  <2>4. ReadingOK'
    BY <2>1, <2>3 DEF ReadInv, ReadingOK, fsVars
  <2> QED
    BY <2>1, <2>4 DEF ReadInv, InodeOK, WholeFileOrNothing, fsVars, Calling, InProgress
<1> QED
  BY <1>1, <1>2, <1>3, <1>4, <1>5 DEF Next, file_system, Using

LEMMA FileInvariant == Spec => [](StorageInv /\ RootInv /\ ReadInv)
<1>1. Init => StorageInv /\ RootInv /\ ReadInv
  <2> SUFFICES ASSUME Init PROVE RootInv /\ ReadInv
    BY StorageInit
  <2>1. op.at = "off" /\ result = None
    BY DEF Init
  <2> QED
    BY <2>1, RootInit DEF ReadInv, InodeOK, ReadingOK, WholeFileOrNothing
<1>2. StorageInv /\ RootInv /\ ReadInv /\ [Next]_vars => (StorageInv /\ RootInv /\ ReadInv)'
  BY StorageStep, RootStep, ReadStep
<1> QED
  BY <1>1, <1>2, PTL DEF Spec

\* ReadIsFromFile (ext2_read(), resolve_block(), fetch_inode()): on any disk that
\* holds files, a read at any offset, through direct, single, double and triple
\* indirect blocks, delivers the file's bytes from there on, and all that were
\* asked for and are there unless a read failed or it met a hole.
THEOREM FileReadSafety == Spec => []ReadIsFromFile
<1>1. RootInv /\ ReadInv => ReadIsFromFile
  <2> SUFFICES ASSUME RootInv, ReadInv, Reading PROVE ReadIsFromFile
    BY DEF ReadIsFromFile
  <2> DEFINE f == disk.files[op.ino]
             D == Len(op.data)
             N == Len(f)
  <2>1. /\ FileRead(disk, base, root.spb, op, f)
        /\ op.at = "returned" /\ ~failed => D = op.count
    BY DEF Reading, ReadInv, ReadingOK, OpenAs
  <2>2. /\ op.offset \in Nat /\ op.count \in 0..left_from(f, op.offset) /\ D \in 0..op.count
        /\ op.data = SubSeq(f, op.offset + 1, op.offset + D)
    BY <2>1 DEF FileRead
  <2>3. N \in Nat
    BY <2>1 DEF FileRead, HoldsFile
  <2>4. left_from(f, op.offset) = IF op.offset >= N THEN 0 ELSE N - op.offset
    BY DEF left_from
  <2> HIDE DEF f, D, N
  <2> DEFINE have == IF op.offset >= N THEN 0 ELSE N - op.offset
  <2>5. have \in Nat /\ op.count \in 0..have
    BY <2>2, <2>3, <2>4
  <2> HIDE DEF have
  <2>6. D <= have /\ Lesser(op.count, have) = op.count
    BY <2>2, <2>5 DEF Lesser
  <2>7. /\ op.data = SubSeq(f, op.offset + 1, op.offset + D) /\ D <= have
        /\ (op.at = "returned" /\ ~failed) => D = Lesser(op.count, have)
    BY <2>1, <2>2, <2>6
  <2> QED
    BY <2>7 DEF ReadIsFromFile, f, D, N, have
<1> QED
  BY <1>1, FileInvariant, PTL

\* WholeFileOrNothing (vfs::read_whole_file()): the ELF loader gets the whole
\* file or nothing, whichever reads fail and wherever a file has holes.
THEOREM WholeFileSafety == Spec => []WholeFileOrNothing
<1>1. ReadInv => WholeFileOrNothing
  BY DEF ReadInv
<1> QED
  BY <1>1, FileInvariant, PTL

----------------------------------------------------------------------------
(* Directories *)

\* What rises from each number to the next rises from any to any greater one.
LEMMA Ascends ==
    ASSUME NEW lo \in Nat, NEW hi \in Nat, NEW g, \A i \in lo..hi : g[i] \in Nat,
           \A i \in lo..(hi - 1) : g[i] < g[i + 1]
    PROVE  \A j, k \in lo..hi : j < k => g[j] < g[k]
<1> SUFFICES ASSUME NEW j \in lo..hi PROVE \A k \in lo..hi : j < k => g[j] < g[k]
  OBVIOUS
<1> DEFINE Bad == {k \in lo..hi : j < k /\ ~(g[j] < g[k])}
<1> SUFFICES ASSUME Bad # {} PROVE FALSE
  OBVIOUS
<1>1. PICK k \in Bad : \A x \in Bad : k <= x
  <2>1. Bad \subseteq Nat
    OBVIOUS
  <2> HIDE DEF Bad
  <2> QED
    BY <2>1, LeastNatural
<1>2. /\ k \in lo..hi /\ j < k /\ ~(g[j] < g[k]) /\ k - 1 \in lo..hi /\ k - 1 \in lo..(hi - 1)
      /\ k - 1 + 1 = k /\ k - 1 < k
  BY <1>1
<1>3. k - 1 \notin Bad
  <2> HIDE DEF Bad
  <2>1. k \in Nat
    BY <1>2
  <2> QED
    BY <1>1, <1>2, <2>1
<1>4. k - 1 = j \/ g[j] < g[k - 1]
  BY <1>2, <1>3
<1>5. g[k - 1] < g[k]
  BY <1>2
<1>6. g[j] \in Nat /\ g[k - 1] \in Nat /\ g[k] \in Nat
  BY <1>2
<1> QED
  BY <1>2, <1>4, <1>5, <1>6

\* The directory dir in blocks of P sectors: w[k] is the number of the record of
\* its k-th name, and Q[k] the bytes that its first k names take in a page.
Laid(dir, P, w, Q) ==
    /\ dir.sectors \in Seq(Range(dir.sectors)) /\ RecordsFollow(dir, P)
    /\ dir.list \in Seq(Nat)
    /\ w \in [DOMAIN dir.list -> 1..(Len(dir.records) - 1)] /\ ListsRecords(dir, w)
    /\ Q \in [0..Len(dir.list) -> Nat] /\ Q[0] = 0
    /\ \A k \in 1..Len(dir.list) : Q[k] = Q[k - 1] + needed(record(dir, w[k]))

\* A directory on the disk is laid out in some such way.
LEMMA LaidOut ==
    ASSUME NEW d, NEW s, NEW P, NEW di, NEW dir, HoldsDirectory(d, s, P, di, dir)
    PROVE  \E w, Q : Laid(dir, P, w, Q)
<1> DEFINE m == Len(dir.list)
<1>1. /\ dir.sectors \in Seq(Range(dir.sectors)) /\ RecordsFollow(dir, P)
      /\ dir.list \in Seq(Nat) /\ m \in Nat /\ DOMAIN dir.list = 1..m
  <2>1. HoldsFile(d, s, P, di, dir.sectors) /\ RecordsFollow(dir, P) /\ dir.list \in Seq(Nat)
    BY DEF HoldsDirectory
  <2>2. dir.sectors \in Seq(Range(dir.sectors))
    BY <2>1 DEF HoldsFile
  <2>3. m \in Nat /\ DOMAIN dir.list = 1..m
    BY ONLY <2>1
  <2> QED
    BY <2>1, <2>2, <2>3
<1>2. PICK w \in [DOMAIN dir.list -> 1..(Len(dir.records) - 1)] : ListsRecords(dir, w)
  BY DEF HoldsDirectory
<1> HIDE DEF m
<1>3. \A k \in 1..m : needed(record(dir, w[k])) \in Nat
  <2>1. \A k \in DOMAIN dir.list : needed(record(dir, w[k])) \in 1..DIR_CHUNK
    BY <1>2 DEF ListsRecords
  <2>2. 1..DIR_CHUNK \subseteq Nat
    BY ReadsAssumption
  <2> QED
    BY <1>1, <2>1, <2>2
<1> DEFINE sz == [k \in 1..m |-> needed(record(dir, w[k]))]
<1>4. \A k \in 1..m : sz[k] \in Nat /\ sz[k] = needed(record(dir, w[k]))
  BY <1>3
<1> HIDE DEF sz
<1> DEFINE grow == [k \in 1..m |-> [v \in Nat |-> v + sz[k]]]
<1>5. \A v \in Nat, k \in 1..m : grow[k][v] \in Nat /\ grow[k][v] = v + sz[k]
  BY <1>4
<1> HIDE DEF grow
<1>6. PICK Q \in [0..m -> Nat] : Recurs(m, 0, grow, Q)
  BY <1>1, <1>5, RecursionExists
<1>7. Q[0] = 0 /\ \A k \in 1..m : Q[k] = grow[k][Q[k - 1]]
  <2>1. 0 \in 0..m /\ \A k \in 1..m : k \in 0..m /\ k # 0
    BY <1>1
  <2> QED
    BY <1>6, <2>1 DEF Recurs
<1>8. ASSUME NEW k \in 1..m PROVE Q[k] = Q[k - 1] + needed(record(dir, w[k]))
  <2>1. k - 1 \in 0..m
    BY <1>1
  <2>2. Q[k - 1] \in Nat
    BY <1>6, <2>1
  <2> QED
    BY <1>4, <1>5, <1>7, <2>2
<1>9. Laid(dir, P, w, Q)
  BY <1>1, <1>2, <1>6, <1>7, <1>8 DEF Laid, m
<1> QED
  BY <1>9

\* Names later in the directory are later in the bytes.
LEMMA BytesRise ==
    ASSUME NEW dir, NEW P, NEW w, NEW Q, Laid(dir, P, w, Q)
    PROVE  \A j, k \in 0..Len(dir.list) : j < k => Q[j] < Q[k]
<1> DEFINE m == Len(dir.list)
           sz(k) == needed(record(dir, w[k]))
<1>1. /\ m \in Nat /\ DOMAIN dir.list = 1..m /\ \A k \in 0..m : Q[k] \in Nat
      /\ \A k \in 1..m : Q[k] = Q[k - 1] + sz(k) /\ sz(k) \in 1..DIR_CHUNK
  <2>1. /\ dir.list \in Seq(Nat) /\ Q \in [0..m -> Nat] /\ ListsRecords(dir, w)
        /\ \A k \in 1..m : Q[k] = Q[k - 1] + sz(k)
    BY DEF Laid
  <2>2. m \in Nat /\ DOMAIN dir.list = 1..m
    BY ONLY <2>1
  <2>3. \A k \in DOMAIN dir.list : sz(k) \in 1..DIR_CHUNK
    BY <2>1 DEF ListsRecords
  <2> HIDE DEF m, sz
  <2> QED
    BY <2>1, <2>2, <2>3
<1> HIDE DEF m, sz
<1>2. ASSUME NEW i \in 0..(m - 1) PROVE Q[i] < Q[i + 1]
  <2>1. i + 1 \in 1..m /\ i + 1 - 1 = i /\ i \in 0..m
    BY <1>1
  <2>2. Q[i + 1] = Q[i] + sz(i + 1) /\ sz(i + 1) \in 1..DIR_CHUNK /\ Q[i] \in Nat
    BY <1>1, <2>1
  <2> DEFINE a == sz(i + 1)
             b == Q[i]
             c == Q[i + 1]
  <2>3. c = b + a /\ a \in Nat /\ a > 0 /\ b \in Nat
    BY <2>2, ReadsAssumption
  <2> HIDE DEF a, b, c
  <2>4. b < c
    BY <2>3
  <2> QED
    BY <2>4 DEF b, c
<1>3. \A j, k \in 0..m : j < k => Q[j] < Q[k]
  BY <1>1, <1>2, Ascends
<1> QED
  BY <1>3 DEF m

\* The facts about where records start.
Starts(at, n, N, P) ==
    /\ n \in Nat /\ N \in Nat /\ P \in Nat \ {0}
    /\ \A i \in 1..(n + 1) : at[i] \in 0..N
    /\ at[1] = 0 /\ at[n + 1] = N
    /\ \A i \in 1..n : at[i] < at[i + 1] /\ at[i + 1] <= (at[i] \div P + 1) * P
    /\ \A i, j \in 1..(n + 1) : i < j => at[i] < at[j]

\* They hold of a directory that is laid out.
LEMMA StartsAre ==
    ASSUME NEW dir, NEW P \in Nat \ {0}, NEW w, NEW Q, Laid(dir, P, w, Q)
    PROVE  Starts(dir.records, Len(dir.records) - 1, Len(dir.sectors), P)
<1> DEFINE at == dir.records
           n == Len(at) - 1
           N == Len(dir.sectors)
<1>1. /\ at \in Seq(0..N) /\ at # << >> /\ at[1] = 0 /\ at[Len(at)] = N /\ N \in Nat
      /\ \A i \in 1..(Len(at) - 1) : at[i] < at[i + 1] /\ at[i + 1] <= (at[i] \div P + 1) * P
  <2>1. RecordsFollow(dir, P) /\ dir.sectors \in Seq(Range(dir.sectors))
    BY DEF Laid
  <2>2. N \in Nat
    BY ONLY <2>1
  <2>3. /\ at \in Seq(0..N) /\ at # << >> /\ at[1] = 0 /\ at[Len(at)] = N
        /\ \A i \in 1..(Len(at) - 1) : at[i] < at[i + 1] /\ at[i + 1] <= (at[i] \div P + 1) * P
    BY <2>1 DEF RecordsFollow
  <2> QED
    BY <2>2, <2>3
<1>a. at \in Seq(0..N) /\ at # << >> /\ N \in Nat
  BY <1>1
<1> HIDE DEF at, N
<1>2. n \in Nat /\ n + 1 = Len(at) /\ n + 1 \in Nat
  BY ONLY <1>a
<1>3. \A i \in 1..(n + 1) : at[i] \in 0..N /\ at[i] \in Nat
  <2>1. DOMAIN at = 1..(n + 1)
    <3>1. DOMAIN at = 1..Len(at)
      BY ONLY <1>a
    <3> HIDE DEF n
    <3> QED
      BY <1>2, <3>1
  <2> HIDE DEF n
  <2>2. \A i \in DOMAIN at : at[i] \in 0..N
    BY ONLY <1>a
  <2> QED
    BY <1>a, <2>1, <2>2
<1>4. \A i \in 1..n : at[i] < at[i + 1] /\ at[i + 1] <= (at[i] \div P + 1) * P
  BY <1>1
<1> HIDE DEF n, at, N
<1>5. \A i, j \in 1..(n + 1) : i < j => at[i] < at[j]
  <2> DEFINE h == n + 1
  <2>1. h - 1 = n /\ h \in Nat /\ 1 \in Nat
    BY <1>2
  <2>2. (\A i \in 1..h : at[i] \in Nat) /\ \A i \in 1..(h - 1) : at[i] < at[i + 1]
    BY <1>3, <1>4, <2>1
  <2> HIDE DEF h
  <2>3. \A i, j \in 1..h : i < j => at[i] < at[j]
    BY <2>1, <2>2, Ascends
  <2> QED
    BY <2>3 DEF h
<1>6. Starts(at, n, N, P)
  BY <1>1, <1>2, <1>3, <1>4, <1>5 DEF Starts
<1> QED
  BY <1>6 DEF at, n, N

\* A record starts where a block starts, ...
LEMMA BlockStarts ==
    ASSUME NEW at, NEW n, NEW N, NEW P, Starts(at, n, N, P), NEW l \in Nat, l * P < N
    PROVE  \E i \in 1..n : at[i] = l * P
<1> DEFINE B == l * P
           Past == {i \in 1..(n + 1) : at[i] > B}
<1>0. n \in Nat /\ N \in Nat /\ P \in Nat \ {0} /\ at[1] = 0 /\ at[n + 1] = N
  BY DEF Starts
<1>1. B \in Nat /\ B < N
  BY <1>0
<1>2. n + 1 \in Past /\ 1 \notin Past /\ Past \subseteq Nat
  BY <1>0, <1>1
<1>3. PICK k \in Past : \A x \in Past : k <= x
  <2> HIDE DEF Past
  <2> QED
    BY <1>2, LeastNatural
<1>4. k \in 1..(n + 1) /\ k # 1 /\ at[k] > B
  BY <1>2, <1>3
<1> DEFINE i == k - 1
<1>5. i \in 1..n /\ i \in 1..(n + 1) /\ i + 1 = k /\ i < k
  BY <1>0, <1>4
<1>6. i \notin Past
  <2> HIDE DEF Past
  <2> QED
    BY <1>3, <1>4, <1>5
<1>7. at[i] \in Nat /\ at[i] <= B /\ at[k] <= (at[i] \div P + 1) * P /\ at[k] \in Nat
  <2>1. at[i] \in 0..N /\ at[k] \in 0..N /\ at[i + 1] <= (at[i] \div P + 1) * P
    BY <1>4, <1>5 DEF Starts
  <2> QED
    BY <1>0, <1>1, <1>5, <1>6, <2>1
<1> DEFINE a == at[i]
           q == a \div P
           r == a % P
           b == at[k]
<1>8. q \in Nat /\ r \in 0..(P - 1) /\ a = P * q + r
  BY <1>0, <1>7, DivMod
<1>9. b > B /\ a <= B /\ b <= (q + 1) * P /\ a \in Nat /\ b \in Nat
  BY <1>4, <1>7
<1> HIDE DEF a, q, r, b, Past
<1>10. q >= l
  <2> SUFFICES ASSUME q + 1 <= l PROVE FALSE
    BY <1>8
  <2>1. P * (q + 1) <= P * l
    BY <1>0, <1>8, MultOrder
  <2>2. P * (q + 1) = (q + 1) * P /\ P * l = l * P /\ (q + 1) * P \in Nat
    BY <1>0, <1>8
  <2> QED
    BY <1>1, <1>9, <2>1, <2>2
<1>11. P * l <= P * q /\ P * l = B /\ P * q \in Nat
  BY <1>0, <1>8, <1>10, MultOrder
<1>12. a = B
  BY <1>1, <1>8, <1>9, <1>11
<1> QED
  BY <1>5, <1>12 DEF a

\* The records of a directory.
Records(dir) == {record(dir, i) : i \in 1..(Len(dir.records) - 1)}

\* E are the records of dir from i up to e.
RecordsFrom(dir, i, e, E) ==
    /\ E \in Seq(Records(dir)) /\ Len(E) = e - i
    /\ \A t \in 1..(e - i) : E[t] = record(dir, i + (t - 1))

\* The block holds the `size` sectors of dir from bs on.
HoldsSectors(dir, block, bs, size) == \A x \in 1..size : block[x] = dir.sectors[bs + x]

\* f is the walk of dir_entries() over a block: the entries from each position on.
Walked(block, size, f) ==
    f = [pos \in 0..size |->
          IF pos = size \/ block[pos + 1].rec_len = 0 THEN << >>
          ELSE <<block[pos + 1]>>
                 \o f[IF pos + block[pos + 1].rec_len < size
                      THEN pos + block[pos + 1].rec_len ELSE size]]

\* The walk over a block ends.
LEMMA WalkExists ==
    ASSUME NEW block, NEW size \in Nat, \A x \in 1..size : block[x].rec_len \in Nat
    PROVE  \E f : Walked(block, size, f)
<1> DEFINE rl == [o \in Nat |-> block[o + 1].rec_len]
           pg == [o \in Nat |-> IF o < size /\ rl[o] # 0 THEN <<block[o + 1]>> ELSE << >>]
           nx == [o \in Nat |-> IF o + rl[o] < size THEN o + rl[o] ELSE size]
<1>0. \A o \in Nat : rl[o] = block[o + 1].rec_len
  OBVIOUS
<1>1. ASSUME NEW o \in Nat, o < size PROVE rl[o] \in Nat /\ o + 1 \in 1..size
  <2>1. o + 1 \in 1..size
    BY <1>1
  <2> QED
    BY <1>0, <2>1
<1> HIDE DEF rl
<1>2. \A o \in Nat : /\ (o < size /\ rl[o] # 0) => pg[o] = <<block[o + 1]>>
                     /\ ~(o < size /\ rl[o] # 0) => pg[o] = << >>
                     /\ nx[o] = IF o + rl[o] < size THEN o + rl[o] ELSE size
  OBVIOUS
<1>a. \A o \in Nat : <<block[o + 1]>> # << >>
  OBVIOUS
<1> HIDE DEF pg, nx
<1>3. ASSUME NEW o \in Nat, pg[o] # << >> PROVE o < size /\ nx[o] \in Nat /\ o < nx[o]
  <2>1. o < size /\ rl[o] # 0
    BY <1>2, <1>3
  <2>2. rl[o] \in Nat
    BY <1>1, <2>1
  <2> DEFINE r == rl[o]
             y == nx[o]
  <2>3. y = IF o + r < size THEN o + r ELSE size
    BY <1>2
  <2>4. r \in Nat /\ r # 0
    BY <2>1, <2>2
  <2> HIDE DEF r, y
  <2>5. y \in Nat /\ o < y
    BY <2>1, <2>3, <2>4
  <2> QED
    BY <2>1, <2>5 DEF y
<1>4. PICK f : Strung(pg, nx, f)
  BY <1>3, ChainsExist
<1>5. \A o \in Nat : f[o] = IF pg[o] = << >> THEN << >> ELSE pg[o] \o f[nx[o]]
  BY <1>4 DEF Strung
<1> DEFINE g == [pos \in 0..size |-> f[pos]]
<1>6. \A pos \in 0..size : g[pos] = f[pos]
  OBVIOUS
<1>7. g = [pos \in 0..size |-> g[pos]]
  OBVIOUS
<1> HIDE DEF g
<1> DEFINE V(pos) == IF pos = size \/ block[pos + 1].rec_len = 0 THEN << >>
                     ELSE <<block[pos + 1]>>
                            \o g[IF pos + block[pos + 1].rec_len < size
                                 THEN pos + block[pos + 1].rec_len ELSE size]
<1>8. ASSUME NEW pos \in 0..size PROVE g[pos] = V(pos)
  <2>0. pos \in Nat /\ rl[pos] = block[pos + 1].rec_len /\ (pos = size \/ pos < size)
    BY <1>0
  <2>1. CASE pos = size \/ rl[pos] = 0
    <3>1. pg[pos] = << >>
      BY <1>2, <2>0, <2>1
    <3>2. g[pos] = << >>
      BY <1>5, <1>6, <2>0, <3>1
    <3> QED
      BY <2>0, <2>1, <3>2
  <2>2. CASE pos # size /\ rl[pos] # 0
    <3>1. pg[pos] = <<block[pos + 1]>> /\ pos < size
      BY <1>2, <2>0, <2>2
    <3>2. pg[pos] # << >>
      BY <1>a, <2>0, <3>1
    <3>3. g[pos] = <<block[pos + 1]>> \o f[nx[pos]]
      BY <1>5, <1>6, <2>0, <3>1, <3>2
    <3> DEFINE y == nx[pos]
               r == rl[pos]
    <3>4. y = IF pos + r < size THEN pos + r ELSE size
      BY <1>2, <2>0
    <3>5. r \in Nat
      BY <1>1, <2>0, <3>1
    <3> HIDE DEF y, r
    <3>6. y \in 0..size
      BY <2>0, <3>4, <3>5
    <3>7. f[y] = g[y]
      BY <1>6, <3>6
    <3>8. V(pos) = <<block[pos + 1]>> \o g[y]
      BY <2>0, <2>2, <3>4 DEF r
    <3> QED
      BY <3>3, <3>7, <3>8 DEF y
  <2> QED
    BY <2>1, <2>2
<1>9. g = [pos \in 0..size |-> V(pos)]
  <2> HIDE DEF V
  <2> QED
    BY <1>7, <1>8, Zenon
<1>10. Walked(block, size, g)
  BY <1>9 DEF Walked
<1> QED
  BY <1>10

\* dir_entries() is such a walk.
LEMMA EntriesWalk ==
    ASSUME NEW block, NEW size \in Nat, \A x \in 1..size : block[x].rec_len \in Nat
    PROVE  \E f : Walked(block, size, f) /\ dir_entries(block, size) = f[0]
<1> DEFINE from == CHOOSE f : Walked(block, size, f)
<1>1. Walked(block, size, from)
  <2>1. \E f : Walked(block, size, f)
    BY WalkExists
  <2> QED
    BY <2>1
<1>2. dir_entries(block, size) = from[0]
  BY DEF dir_entries, Walked
<1> HIDE DEF from
<1> QED
  BY <1>1, <1>2

\* The records of a block are the directory's records there.
LEMMA EntriesAre ==
    ASSUME NEW dir, NEW P \in Nat \ {0}, NEW w, NEW Q, Laid(dir, P, w, Q),
           NEW i \in 1..Len(dir.records), NEW e \in i..Len(dir.records),
           NEW bs \in Nat, NEW size \in Nat, dir.records[i] = bs, dir.records[e] = bs + size,
           NEW block, HoldsSectors(dir, block, bs, size)
    PROVE  RecordsFrom(dir, i, e, dir_entries(block, size))
<1> DEFINE at == dir.records
           n == Len(at) - 1
           N == Len(dir.sectors)
           R == Records(dir)
           rec(j) == record(dir, j)
<1>1. Starts(at, n, N, P)
  BY StartsAre
<1>2. /\ dir.sectors \in Seq(Range(dir.sectors)) /\ at \in Seq(0..N)
      /\ \A x \in DOMAIN dir.sectors : dir.sectors[x].rec_len \in Nat
      /\ \A j \in 1..n : at[j + 1] = at[j] + rec(j).rec_len
  BY DEF Laid, RecordsFollow
<1>3. DOMAIN dir.sectors = 1..N /\ N \in Nat
  BY ONLY <1>2
<1>4. n \in Nat /\ n + 1 = Len(at) /\ i \in 1..(n + 1) /\ e \in i..(n + 1)
  <2>1. n \in Nat
    BY <1>1 DEF Starts
  <2>2. Len(at) \in Nat
    BY ONLY <1>2
  <2> QED
    BY <2>1, <2>2
<1> HIDE DEF at, n, N
<1>5. /\ \A j \in 1..(n + 1) : at[j] \in 0..N
      /\ \A j \in 1..n : at[j] < at[j + 1]
      /\ \A j, k \in 1..(n + 1) : j < k => at[j] < at[k]
  BY <1>1 DEF Starts
<1>6. at[i] = bs /\ at[e] = bs + size /\ bs + size <= N
  <2>1. at[i] = bs /\ at[e] = bs + size
    BY DEF at
  <2>2. at[e] \in 0..N
    BY <1>4, <1>5
  <2> QED
    BY <1>3, <2>1, <2>2
<1>7. ASSUME NEW x \in 1..size PROVE block[x] = dir.sectors[bs + x] /\ block[x].rec_len \in Nat
  <2>1. bs + x \in 1..N
    BY <1>3, <1>6
  <2>2. block[x] = dir.sectors[bs + x]
    BY DEF HoldsSectors
  <2> QED
    BY <1>2, <1>3, <2>1, <2>2
<1>8. PICK f : Walked(block, size, f) /\ dir_entries(block, size) = f[0]
  BY <1>7, EntriesWalk
<1> DEFINE G(j) == RecordsFrom(dir, j, e, f[at[j] - bs])
<1>9. G(e)
  <2>1. at[e] - bs = size /\ size \in 0..size
    BY <1>6
  <2>2. f[size] = << >>
    BY <1>8, <2>1 DEF Walked
  <2>3. << >> \in Seq(Records(dir)) /\ Len(<< >>) = 0 /\ e - e = 0 /\ 1..0 = {}
    BY <1>4
  <2> QED
    BY <2>1, <2>2, <2>3 DEF RecordsFrom
<1>10. ASSUME NEW j \in i..(e - 1), G(j + 1) PROVE G(j)
  <2>1. j \in 1..n /\ j + 1 \in 1..(n + 1) /\ j \in 1..(n + 1) /\ (j = i \/ i < j) /\ j < e
        /\ (j + 1 = e \/ j + 1 < e)
    BY <1>4
  <2> DEFINE a == at[j]
             b == at[j + 1]
             pos == a - bs
             y == b - bs
             rl == rec(j).rec_len
  <2>2. /\ a \in 0..N /\ b \in 0..N /\ b = a + rl /\ a < b
        /\ bs <= a /\ a < bs + size /\ b <= bs + size
    <3>1. a \in 0..N /\ b \in 0..N /\ b = a + rl /\ a < b
      BY <1>2, <1>5, <2>1
    <3>2. bs <= a
      <4>1. CASE j = i
        BY <1>6, <4>1, <3>1, <1>3
      <4>2. CASE i < j
        <5>1. at[i] < at[j]
          BY <1>4, <1>5, <2>1, <4>2
        <5> QED
          BY <1>3, <1>6, <3>1, <5>1
      <4> QED
        BY <2>1, <4>1, <4>2
    <3>3. b <= bs + size
      <4>1. CASE j + 1 = e
        BY <1>6, <4>1, <3>1, <1>3
      <4>2. CASE j + 1 < e
        <5>1. at[j + 1] < at[e] /\ e \in 1..(n + 1)
          BY <1>4, <1>5, <2>1, <4>2
        <5> QED
          BY <1>3, <1>6, <3>1, <5>1
      <4> QED
        BY <2>1, <4>1, <4>2
    <3> HIDE DEF a, b, rl
    <3> QED
      BY <1>3, <3>1, <3>2, <3>3
  <2>3. block[pos + 1] = rec(j) /\ rl \in Nat
    <3>1. a \in Nat /\ pos + 1 \in 1..size /\ bs + (pos + 1) = a + 1
      <4> HIDE DEF a, b, rl
      <4> QED
        BY <1>3, <2>2
    <3>2. block[pos + 1] = dir.sectors[bs + (pos + 1)] /\ block[pos + 1].rec_len \in Nat
      <4> HIDE DEF pos
      <4> QED
        BY <1>7, <3>1
    <3>3. rec(j) = dir.sectors[a + 1]
      BY DEF record, at
    <3> HIDE DEF a, pos
    <3> QED
      BY <3>1, <3>2, <3>3
  <2> HIDE DEF rl, a, b
  <2>4. /\ pos \in 0..size /\ pos # size /\ rl # 0
        /\ y = IF pos + rl < size THEN pos + rl ELSE size
    BY <1>3, <2>2, <2>3
  <2> HIDE DEF pos, y
  <2>5. f[pos] = <<rec(j)>> \o f[y]
    <3>1. f[pos] = IF pos = size \/ block[pos + 1].rec_len = 0 THEN << >>
                   ELSE <<block[pos + 1]>>
                         \o f[IF pos + block[pos + 1].rec_len < size
                              THEN pos + block[pos + 1].rec_len ELSE size]
      BY <1>8, <2>4 DEF Walked
    <3>2. block[pos + 1].rec_len = rl
      BY <2>3 DEF rl
    <3>3. f[pos] = <<block[pos + 1]>> \o f[IF pos + rl < size THEN pos + rl ELSE size]
      BY <2>4, <3>1, <3>2
    <3> QED
      BY <2>3, <2>4, <3>3
  <2>6. RecordsFrom(dir, j + 1, e, f[y])
    BY <1>10 DEF y, b
  <2> DEFINE S == f[y]
             m == e - (j + 1)
  <2>7. S \in Seq(R) /\ Len(S) = m /\ \A t \in 1..m : S[t] = rec((j + 1) + (t - 1))
    BY <2>6 DEF RecordsFrom
  <2>8. rec(j) \in R
    BY <2>1 DEF Records, n, at
  <2> DEFINE E == <<rec(j)>> \o S
  <2> HIDE DEF S, m, R, rec
  <2>9. /\ E \in Seq(R) /\ Len(E) = Len(S) + 1 /\ E[1] = rec(j)
        /\ \A t \in 1..Len(S) : E[t + 1] = S[t]
    BY <2>7, <2>8, ConsIs
  <2> HIDE DEF E
  <2>10. m + 1 = e - j /\ m \in Nat
    BY <1>4, <2>1 DEF m
  <2>11. Len(E) = e - j
    BY <2>7, <2>9, <2>10
  <2>12. ASSUME NEW t \in 1..(e - j) PROVE E[t] = rec(j + (t - 1))
    <3>1. CASE t = 1
      <4>1. j + (t - 1) = j
        BY <2>1, <3>1
      <4> QED
        BY <2>9, <3>1, <4>1
    <3>2. CASE t # 1
      <4>1. t - 1 \in 1..m /\ (t - 1) + 1 = t /\ (j + 1) + ((t - 1) - 1) = j + (t - 1)
        BY <2>1, <2>10, <3>2
      <4>2. E[(t - 1) + 1] = S[t - 1] /\ S[t - 1] = rec((j + 1) + ((t - 1) - 1))
        BY <2>7, <2>9, <4>1
      <4> QED
        BY <4>1, <4>2
    <3> QED
      BY <3>1, <3>2
  <2>13. RecordsFrom(dir, j, e, E)
    BY <2>9, <2>11, <2>12 DEF RecordsFrom, R, rec
  <2> QED
    BY <2>5, <2>13 DEF E, S, pos, a
<1> DEFINE Bad == {x \in 0..(e - i) : ~G(e - x)}
<1>11. Bad = {}
  <2> HIDE DEF G
  <2> SUFFICES ASSUME Bad # {} PROVE FALSE
    OBVIOUS
  <2>1. PICK x \in Bad : \A z \in Bad : x <= z
    <3>1. Bad \subseteq Nat
      OBVIOUS
    <3> HIDE DEF Bad
    <3> QED
      BY <3>1, LeastNatural
  <2>2. x \in 0..(e - i) /\ ~G(e - x)
    BY <2>1
  <2>3. x # 0
    <3> SUFFICES ASSUME x = 0 PROVE FALSE
      OBVIOUS
    <3>1. e - x = e
      BY <1>4
    <3> QED
      BY <1>9, <2>2, <3>1
  <2>4. /\ x - 1 \in 0..(e - i) /\ x - 1 < x /\ x \in Nat /\ e - x \in i..(e - 1)
        /\ (e - x) + 1 = e - (x - 1)
    BY <1>4, <2>2, <2>3
  <2>5. x - 1 \notin Bad
    <3> HIDE DEF Bad
    <3> QED
      BY <2>1, <2>4
  <2>6. G((e - x) + 1)
    BY <2>4, <2>5
  <2> QED
    BY <1>10, <2>2, <2>4, <2>6
<1>12. G(i)
  <2> HIDE DEF G
  <2>1. e - i \in 0..(e - i) /\ e - (e - i) = i
    BY <1>4
  <2> QED
    BY <1>11, <2>1
<1>13. at[i] - bs = 0
  BY <1>6
<1> QED
  BY <1>8, <1>12, <1>13

Pages == [stream : Nat, written : Nat, out : Seq(Nat), full : BOOLEAN]

\* An entry of which ext2_readdir() can make one of the VFS.
Readable(de) == live(de) => needed(de) \in Nat /\ de.inode \in Nat

\* What one entry makes of a page.
EmitIs(p, de, offset, count, q) ==
    /\ q \in Pages
    /\ (p.full \/ ~live(de)) => q = p
    /\ (~p.full /\ live(de)) =>
         /\ p.stream < offset => /\ q.stream = p.stream + needed(de) /\ q.written = p.written
                                 /\ q.out = p.out /\ ~q.full
         /\ ~(p.stream < offset) /\ p.written + needed(de) > count => q = [p EXCEPT !.full = TRUE]
         /\ ~(p.stream < offset) /\ ~(p.written + needed(de) > count) =>
              /\ q.stream = p.stream + needed(de) /\ q.written = p.written + needed(de)
              /\ q.out = Append(p.out, de.inode) /\ ~q.full

\* emit() is that.
LEMMA Emitted ==
    ASSUME NEW p \in Pages, NEW de, Readable(de), NEW offset, NEW count
    PROVE  EmitIs(p, de, offset, count, emit(p, de, offset, count))
<1> DEFINE q == emit(p, de, offset, count)
           z == needed(de)
           L == live(de)
           A == p.stream < offset
           F == p.written + z > count
<1>1. p.stream \in Nat /\ p.written \in Nat /\ p.out \in Seq(Nat) /\ p.full \in BOOLEAN
  BY DEF Pages
<1>2. q = IF p.full \/ ~L THEN p
          ELSE IF A THEN [p EXCEPT !.stream = @ + z]
          ELSE IF F THEN [p EXCEPT !.full = TRUE]
          ELSE [p EXCEPT !.stream = @ + z, !.written = @ + z, !.out = Append(@, de.inode)]
  BY DEF emit
<1>3. L => z \in Nat /\ de.inode \in Nat
  BY DEF Readable
<1> HIDE DEF z, L, A, F, q
<1>4. CASE p.full \/ ~L
  BY <1>2, <1>4 DEF EmitIs, L, q
<1>5. CASE ~p.full /\ L /\ A
  <2>1. q = [p EXCEPT !.stream = @ + z]
    BY <1>2, <1>5
  <2>2. p.stream + z \in Nat
    BY <1>1, <1>3, <1>5
  <2>3. q \in Pages /\ q.stream = p.stream + z /\ q.written = p.written /\ q.out = p.out
        /\ q.full = p.full
    BY <2>1, <2>2 DEF Pages
  <2> QED
    BY <1>5, <2>3 DEF EmitIs, L, A, z, q
<1>6. CASE ~p.full /\ L /\ ~A /\ F
  <2>1. q = [p EXCEPT !.full = TRUE]
    BY <1>2, <1>6
  <2>2. q \in Pages
    BY <2>1 DEF Pages
  <2> QED
    BY <1>6, <2>1, <2>2 DEF EmitIs, L, A, F, z, q
<1>7. CASE ~p.full /\ L /\ ~A /\ ~F
  <2>1. q = [p EXCEPT !.stream = @ + z, !.written = @ + z, !.out = Append(@, de.inode)]
    BY <1>2, <1>7
  <2>2. p.stream + z \in Nat /\ p.written + z \in Nat
    BY <1>1, <1>3, <1>7
  <2>3. Append(p.out, de.inode) \in Seq(Nat)
    BY <1>1, <1>3, <1>7
  <2>4. q \in Pages /\ q.stream = p.stream + z /\ q.written = p.written + z
        /\ q.out = Append(p.out, de.inode) /\ q.full = p.full
    BY <2>1, <2>2, <2>3 DEF Pages
  <2> QED
    BY <1>7, <2>4 DEF EmitIs, L, A, F, z, q
<1> QED
  BY <1>4, <1>5, <1>6, <1>7 DEF q

\* A block is emitted entry by entry.
EntryByEntry(p, block, size, offset, count, g) ==
    LET E == dir_entries(block, size)
    IN  /\ g[0] = p
        /\ \A m \in 1..Len(E) : g[m] = emit(g[m - 1], E[m], offset, count)
        /\ emit_block(p, block, size, offset, count) = g[Len(E)]

\* emit_block() takes the entries one after the other.
LEMMA PageFolds ==
    ASSUME NEW p \in Pages, NEW block, NEW size, NEW offset, NEW count, NEW S,
           dir_entries(block, size) \in Seq(S), \A de \in S : Readable(de)
    PROVE  \E g : EntryByEntry(p, block, size, offset, count, g)
<1> DEFINE s == dir_entries(block, size)
           l == Len(s)
           add(x, de) == emit(x, de, offset, count)
           Q(f) == f = [u \in SUBSET (DOMAIN s) |->
                          IF u = {} THEN p
                          ELSE LET x == Max(u) IN add(f[u \ {x}], s[x])]
           iter == CHOOSE f : Q(f)
           grow == [k \in 1..l |-> [v \in Pages |-> add(v, s[k])]]
<1>1. emit_block(p, block, size, offset, count) = iter[DOMAIN s]
  BY DEF emit_block, FoldLeft, MapThenFoldSet
<1>a. s \in Seq(S)
  OBVIOUS
<1> HIDE DEF s
<1>0. l \in Nat /\ DOMAIN s = 1..l
  BY ONLY <1>a
<1>2. \A k \in 1..l : Readable(s[k])
  BY <1>a
<1>3. ASSUME NEW v \in Pages, NEW k \in 1..l
      PROVE  grow[k][v] = add(v, s[k]) /\ grow[k][v] \in Pages
  <2>1. grow[k][v] = add(v, s[k])
    OBVIOUS
  <2>2. EmitIs(v, s[k], offset, count, add(v, s[k]))
    BY <1>2, Emitted
  <2>3. add(v, s[k]) \in Pages
    BY <2>2 DEF EmitIs
  <2> HIDE DEF grow, add
  <2> QED
    BY <2>1, <2>3
<1> HIDE DEF l, grow, add
<1>4. PICK f \in [SUBSET (1..l) -> Pages] : FoldsUp(l, p, grow, f)
  <2>1. \A v \in Pages, k \in 1..l : grow[k][v] \in Pages
    BY <1>3
  <2> QED
    BY <1>0, <2>1, FoldsExist
<1>5. Q(f)
  <2>1. ASSUME NEW u \in SUBSET (1..l), u # {}
        PROVE  f[u] = add(f[u \ {Max(u)}], s[Max(u)])
    <3>1. f[u] = grow[Max(u)][f[u \ {Max(u)}]]
      BY <1>4, <2>1 DEF FoldsUp
    <3>2. f[u \ {Max(u)}] \in Pages /\ Max(u) \in 1..l
      BY <1>0, <1>4, <2>1, MaxOf
    <3> QED
      BY <1>3, <3>1, <3>2, Zenon
  <2>2. f[{}] = p
    BY <1>4 DEF FoldsUp
  <2>3. f = [u \in SUBSET (1..l) |-> f[u]]
    BY <1>4
  <2>4. \A u \in SUBSET (1..l) :
          f[u] = IF u = {} THEN p ELSE add(f[u \ {Max(u)}], s[Max(u)])
    BY <2>1, <2>2, Zenon
  <2>5. f = [u \in SUBSET (1..l) |-> IF u = {} THEN p ELSE add(f[u \ {Max(u)}], s[Max(u)])]
    BY <2>3, <2>4, Zenon
  <2> QED
    BY <1>0, <2>5
<1>6. Q(iter)
  <2> HIDE DEF Q
  <2> QED
    BY <1>5
<1>7. iter = [u \in SUBSET (1..l) |-> IF u = {} THEN p ELSE add(iter[u \ {Max(u)}], s[Max(u)])]
  <2> HIDE DEF iter
  <2> QED
    BY <1>0, <1>6
<1> HIDE DEF iter, Q
<1> DEFINE g == [m \in 0..l |-> iter[1..m]]
<1>8. g[0] = p
  <2>1. 1..0 = {} /\ 0 \in 0..l
    BY <1>0
  <2> QED
    BY <1>7, <2>1
<1>9. ASSUME NEW m \in 1..l PROVE g[m] = add(g[m - 1], s[m])
  <2>0. m \in 0..l /\ m - 1 \in 0..l
    BY <1>0
  <2>a. m \in Nat /\ m \in 1..m /\ 1..m \in SUBSET (1..l)
    BY <1>0
  <2>1. 1..m \in SUBSET (1..l) /\ 1..m # {} /\ m \in 1..m /\ 1..m \in SUBSET (1..m) /\ m \in Nat
    BY <2>a
  <2>2. Max(1..m) = m
    BY <2>1, MaxOf
  <2>3. (1..m) \ {m} = 1..(m - 1)
    OBVIOUS
  <2>4. iter[1..m] = add(iter[1..(m - 1)], s[m])
    <3>1. iter[1..m] = add(iter[(1..m) \ {Max(1..m)}], s[Max(1..m)])
      BY <1>7, <2>1, Zenon
    <3> QED
      BY <2>2, <2>3, <3>1
  <2>5. g[m] = iter[1..m] /\ g[m - 1] = iter[1..(m - 1)]
    BY <2>0
  <2> HIDE DEF g
  <2> QED
    BY <2>4, <2>5
<1>10. emit_block(p, block, size, offset, count) = g[l]
  BY <1>0, <1>1
<1> HIDE DEF g
<1> QED
  BY <1>8, <1>9, <1>10 DEF EntryByEntry, l, s, add

\* The page p, begun at the k0-th name, after the records before the j-th: it holds
\* the names from there up to the K-th.  While it is not full these are all names
\* so far, of which there are k.
PageAt(dir, w, Q, k0, p, j) ==
    LET m == Len(dir.list)
    IN  /\ p \in Pages
        /\ \E k \in 0..m, K \in k0..m :
             /\ p.written = Q[K] - Q[k0] /\ p.out = SubSeq(dir.list, k0 + 1, K)
             /\ p.full => k0 < K
             /\ ~p.full => /\ p.stream = Q[k] /\ K = (IF k0 < k THEN k ELSE k0)
                           /\ \A x \in 1..m : w[x] < j <=> x <= k

\* A new page holds nothing yet.
LEMMA NewPage ==
    ASSUME NEW dir, NEW P, NEW w, NEW Q, Laid(dir, P, w, Q), NEW k0 \in 0..Len(dir.list)
    PROVE  PageAt(dir, w, Q, k0, new_page, 1)
<1> DEFINE m == Len(dir.list)
<1>1. /\ dir.list \in Seq(Nat) /\ w \in [DOMAIN dir.list -> 1..(Len(dir.records) - 1)]
      /\ Q \in [0..m -> Nat] /\ Q[0] = 0
  BY DEF Laid
<1>2. m \in Nat /\ DOMAIN dir.list = 1..m
  BY ONLY <1>1
<1>3. /\ new_page \in Pages /\ new_page.stream = 0 /\ new_page.written = 0
      /\ new_page.out = << >> /\ ~new_page.full
  <2>1. << >> \in Seq(Nat)
    OBVIOUS
  <2> QED
    BY <2>1 DEF new_page, Pages
<1>4. SubSeq(dir.list, k0 + 1, k0) = << >>
  <2>1. k0 + 1 \in Int /\ k0 \in Int /\ k0 + 1 > k0
    BY <1>2
  <2> QED
    BY <1>1, <2>1, SubSeqEmpty
<1> HIDE DEF m
<1>5. \A x \in 1..m : w[x] \in 1..(Len(dir.records) - 1)
  BY <1>1, <1>2
<1>6. Q[k0] \in Nat
  BY <1>1 DEF m
<1>7. 0 \in 0..m /\ k0 \in k0..m /\ k0 \in Nat
  BY <1>2 DEF m
<1>8. \A x \in 1..m : ~(w[x] < 1) /\ ~(x <= 0)
  <2> TAKE x \in 1..m
  <2>1. w[x] \in 1..(Len(dir.records) - 1)
    BY <1>5
  <2> DEFINE y == w[x]
  <2> HIDE DEF y
  <2>2. y \in 1..(Len(dir.records) - 1)
    BY <2>1 DEF y
  <2>3. ~(y < 1)
    BY <2>2
  <2> QED
    BY <1>2, <2>3 DEF y
<1>9. Q[k0] - Q[k0] = 0
  BY <1>6
<1> QED
  BY <1>1, <1>3, <1>4, <1>7, <1>8, <1>9 DEF PageAt, m

\* A piece of a sequence with the next element.
LEMMA PieceGrows ==
    ASSUME NEW S, NEW s \in Seq(S), NEW a \in Nat, NEW k \in Nat, a <= k, k + 1 <= Len(s)
    PROVE  SubSeq(s, a + 1, k + 1) = Append(SubSeq(s, a + 1, k), s[k + 1])
<1> DEFINE A == a + 1
           x == SubSeq(s, A, k)
           y == SubSeq(s, A, k + 1)
           e == s[k + 1]
           z == Append(x, e)
<1>1. Len(s) \in Nat /\ A \in Nat /\ \A i \in 1..Len(s) : s[i] \in S
  OBVIOUS
<1>2. e \in S
  BY <1>1
<1>3. (\A i \in A..k : s[i] \in S) /\ (\A i \in A..(k + 1) : s[i] \in S)
  BY <1>1
<1>4. /\ x \in Seq(S) /\ Len(x) = k - a /\ \A i \in 1..(k - a) : x[i] = s[a + i]
  <2>1. /\ x \in Seq(S) /\ Len(x) = (IF A <= k THEN k - A + 1 ELSE 0)
        /\ \A i \in 1..(k - A + 1) : x[i] = s[A + i - 1]
    BY <1>1, <1>3, SubSeqProperties
  <2>2. (IF A <= k THEN k - A + 1 ELSE 0) = k - a /\ k - A + 1 = k - a
        /\ \A i \in 1..(k - a) : A + i - 1 = a + i
    OBVIOUS
  <2> HIDE DEF x
  <2> QED
    BY <2>1, <2>2
<1>5. /\ y \in Seq(S) /\ Len(y) = (k - a) + 1 /\ \A i \in 1..((k - a) + 1) : y[i] = s[a + i]
  <2>1. /\ y \in Seq(S) /\ Len(y) = (IF A <= k + 1 THEN (k + 1) - A + 1 ELSE 0)
        /\ \A i \in 1..((k + 1) - A + 1) : y[i] = s[A + i - 1]
    BY <1>1, <1>3, SubSeqProperties
  <2>2. (IF A <= k + 1 THEN (k + 1) - A + 1 ELSE 0) = (k - a) + 1 /\ (k + 1) - A + 1 = (k - a) + 1
        /\ \A i \in 1..((k - a) + 1) : A + i - 1 = a + i
    OBVIOUS
  <2> HIDE DEF y
  <2> QED
    BY <2>1, <2>2
<1> HIDE DEF x, y, A
<1>6. /\ z \in Seq(S) /\ Len(z) = Len(x) + 1 /\ \A i \in 1..Len(x) : z[i] = x[i]
      /\ z[Len(x) + 1] = e
  <2> HIDE DEF e
  <2> QED
    BY <1>2, <1>4
<1> HIDE DEF z
<1>7. Len(z) = Len(y)
  BY <1>4, <1>5, <1>6
<1>8. ASSUME NEW i \in 1..Len(y) PROVE z[i] = y[i]
  <2>1. i \in 1..((k - a) + 1) /\ (i \in 1..(k - a) \/ i = (k - a) + 1)
    BY <1>5
  <2>2. CASE i \in 1..(k - a)
    BY <1>4, <1>5, <1>6, <2>1, <2>2
  <2>3. CASE i = (k - a) + 1
    <3>1. a + i = k + 1
      BY <2>3
    <3>2. z[i] = e /\ y[i] = s[a + i]
      BY <1>4, <1>5, <1>6, <2>1, <2>3
    <3> QED
      BY <3>1, <3>2 DEF e
  <2> QED
    BY <2>1, <2>2, <2>3
<1>9. z = y
  BY <1>5, <1>6, <1>7, <1>8, SeqEqual
<1> QED
  BY <1>9 DEF z, y, x, e, A

\* Of m names, whose records are rising, the records before the j-th have k.
Behind(w, m, j, k) == \A x \in 1..m : w[x] < j <=> x <= k

\* The j-th record is passed: it has the next name, or none.
LEMMA RecordPassed ==
    ASSUME NEW m \in Nat, NEW w, NEW n \in Nat, \A x \in 1..m : w[x] \in 1..n,
           \A x, y \in 1..m : x < y => w[x] < w[y],
           NEW j \in 1..n, NEW k \in 0..m, Behind(w, m, j, k)
    PROVE  /\ (\A x \in 1..m : w[x] # j) => Behind(w, m, j + 1, k)
           /\ \A x0 \in 1..m : w[x0] = j => x0 = k + 1 /\ Behind(w, m, j + 1, k + 1)
<1>0. \A x \in 1..m : w[x] \in Nat /\ x \in Nat
  OBVIOUS
<1>1. \A x \in 1..m : w[x] < j + 1 <=> w[x] < j \/ w[x] = j
  <2> TAKE x \in 1..m
  <2> DEFINE y == w[x]
  <2>1. y \in Nat
    BY <1>0
  <2> HIDE DEF y
  <2>2. y < j + 1 <=> y < j \/ y = j
    BY <2>1
  <2> QED
    BY <2>2 DEF y
<1>2. (\A x \in 1..m : w[x] # j) => Behind(w, m, j + 1, k)
  BY <1>1 DEF Behind
<1>3. ASSUME NEW x0 \in 1..m, w[x0] = j PROVE x0 = k + 1 /\ Behind(w, m, j + 1, k + 1)
  <2>1. ~(x0 <= k)
    BY <1>3 DEF Behind
  <2>2. ~(k + 1 < x0)
    <3> SUFFICES ASSUME k + 1 < x0 PROVE FALSE
      OBVIOUS
    <3>1. k + 1 \in 1..m
      OBVIOUS
    <3>2. w[k + 1] < j
      BY <1>3, <3>1
    <3>3. k + 1 <= k
      BY <3>1, <3>2 DEF Behind
    <3> QED
      BY <3>3
  <2>3. x0 = k + 1
    BY <2>1, <2>2
  <2>4. ASSUME NEW x \in 1..m PROVE w[x] < j + 1 <=> x <= k + 1
    <3>1. CASE x <= k
      <4>1. w[x] < j
        BY <3>1 DEF Behind
      <4> QED
        BY <1>1, <3>1, <4>1
    <3>2. CASE x = k + 1
      BY <1>1, <1>3, <2>3, <3>2
    <3>3. CASE k + 1 < x
      <4>1. j < w[x]
        BY <1>3, <2>3, <3>3
      <4>2. ~(w[x] < j) /\ w[x] # j
        BY <1>0, <4>1
      <4> QED
        BY <1>1, <3>3, <4>2
    <3> QED
      BY <3>1, <3>2, <3>3
  <2> QED
    BY <2>3, <2>4 DEF Behind
<1> QED
  BY <1>2, <1>3

\* What is known of a record.
LEMMA RecordIs ==
    ASSUME NEW dir, NEW P, NEW w, NEW Q, Laid(dir, P, w, Q), NEW j \in 1..(Len(dir.records) - 1)
    PROVE  LET de == record(dir, j)
               m == Len(dir.list)
           IN  /\ Readable(de)
               /\ live(de) <=> \E x \in 1..m : w[x] = j
               /\ \A x \in 1..m : w[x] = j =>
                    /\ de.inode = dir.list[x] /\ needed(de) \in 1..DIR_CHUNK
                    /\ Q[x] = Q[x - 1] + needed(de)
<1> DEFINE m == Len(dir.list)
           de == record(dir, j)
           U == {i \in 1..(Len(dir.records) - 1) : live(record(dir, i))}
<1>1. /\ dir.list \in Seq(Nat) /\ ListsRecords(dir, w)
      /\ \A k \in 1..m : Q[k] = Q[k - 1] + needed(record(dir, w[k]))
  BY DEF Laid
<1>2. m \in Nat /\ DOMAIN dir.list = 1..m /\ \A x \in 1..m : dir.list[x] \in Nat
  <2> DEFINE L == dir.list
  <2>1. L \in Seq(Nat)
    BY <1>1
  <2> HIDE DEF L
  <2>2. Len(L) \in Nat /\ DOMAIN L = 1..Len(L) /\ \A x \in 1..Len(L) : L[x] \in Nat
    BY ONLY <2>1
  <2> QED
    BY <2>2 DEF L
<1>3. /\ {w[k] : k \in DOMAIN dir.list} = U
      /\ \A k \in DOMAIN dir.list :
             /\ dir.list[k] = record(dir, w[k]).inode
             /\ needed(record(dir, w[k])) \in 1..DIR_CHUNK
  BY <1>1 DEF ListsRecords
<1> HIDE DEF m
<1>4. live(de) <=> j \in U
  OBVIOUS
<1> HIDE DEF U
<1>5. live(de) <=> \E x \in 1..m : w[x] = j
  BY <1>2, <1>3, <1>4
<1>6. ASSUME NEW x \in 1..m, w[x] = j
      PROVE  /\ de.inode = dir.list[x] /\ needed(de) \in 1..DIR_CHUNK
             /\ Q[x] = Q[x - 1] + needed(de)
  BY <1>1, <1>2, <1>3, <1>6
<1>7. Readable(de)
  <2> SUFFICES ASSUME live(de) PROVE needed(de) \in Nat /\ de.inode \in Nat
    BY DEF Readable
  <2>1. PICK x \in 1..m : w[x] = j
    BY <1>5
  <2>2. needed(de) \in 1..DIR_CHUNK /\ de.inode = dir.list[x]
    BY <1>6, <2>1
  <2>3. 1..DIR_CHUNK \subseteq Nat
    BY ReadsAssumption
  <2> QED
    BY <1>2, <2>2, <2>3
<1> QED
  BY <1>5, <1>6, <1>7 DEF m

\* PageAt with its witnesses.
PageWith(dir, w, Q, k0, p, j, k, K) ==
    LET m == Len(dir.list)
    IN  /\ p \in Pages /\ k \in 0..m /\ K \in k0..m
        /\ p.written = Q[K] - Q[k0] /\ p.out = SubSeq(dir.list, k0 + 1, K)
        /\ p.full => k0 < K
        /\ ~p.full => p.stream = Q[k] /\ K = (IF k0 < k THEN k ELSE k0) /\ Behind(w, m, j, k)

\* The two forms agree.
LEMMA PageWitness ==
    ASSUME NEW dir, NEW w, NEW Q, NEW k0, NEW p, NEW j
    PROVE  PageAt(dir, w, Q, k0, p, j) <=> \E k, K : PageWith(dir, w, Q, k0, p, j, k, K)
<1>1. ASSUME PageAt(dir, w, Q, k0, p, j) PROVE \E k, K : PageWith(dir, w, Q, k0, p, j, k, K)
  BY <1>1 DEF PageAt, PageWith, Behind
<1>2. ASSUME NEW k, NEW K, PageWith(dir, w, Q, k0, p, j, k, K) PROVE PageAt(dir, w, Q, k0, p, j)
  BY <1>2 DEF PageAt, PageWith, Behind
<1> QED
  BY <1>1, <1>2

\* One record of ext2_readdir().
LEMMA EmitStep ==
    ASSUME NEW dir, NEW P, NEW w, NEW Q, Laid(dir, P, w, Q), NEW k0 \in 0..Len(dir.list),
           NEW j \in 1..(Len(dir.records) - 1), NEW p, PageAt(dir, w, Q, k0, p, j)
    PROVE  PageAt(dir, w, Q, k0, emit(p, record(dir, j), Q[k0], DIR_CHUNK), j + 1)
<1> DEFINE m == Len(dir.list)
           n == Len(dir.records) - 1
           de == record(dir, j)
           q == emit(p, de, Q[k0], DIR_CHUNK)
           z == needed(de)
           L == dir.list
<1>1. PICK k, K : PageWith(dir, w, Q, k0, p, j, k, K)
  BY PageWitness
<1>2. /\ p \in Pages /\ k \in 0..m /\ K \in k0..m
      /\ p.written = Q[K] - Q[k0] /\ p.out = SubSeq(L, k0 + 1, K)
      /\ p.full => k0 < K
      /\ ~p.full => p.stream = Q[k] /\ K = (IF k0 < k THEN k ELSE k0) /\ Behind(w, m, j, k)
  BY <1>1 DEF PageWith
<1>3. /\ L \in Seq(Nat) /\ w \in [DOMAIN L -> 1..n] /\ ListsRecords(dir, w) /\ Q \in [0..m -> Nat]
  BY DEF Laid
<1>4. m \in Nat /\ DOMAIN L = 1..m
  <2> HIDE DEF L
  <2>1. L \in Seq(Nat) /\ m = Len(L)
    BY <1>3 DEF L
  <2> QED
    BY ONLY <2>1
<1>5. n \in Nat
  BY SMT
<1>6. /\ Readable(de)
      /\ live(de) <=> \E x \in 1..m : w[x] = j
      /\ \A x \in 1..m : w[x] = j =>
           de.inode = L[x] /\ z \in 1..DIR_CHUNK /\ Q[x] = Q[x - 1] + z
  BY RecordIs
<1>7. \A x, y \in 1..m : x < y => w[x] < w[y]
  BY <1>3, <1>4 DEF ListsRecords
<1>8. \A x, y \in 0..m : x < y => Q[x] < Q[y]
  BY BytesRise
<1>9. EmitIs(p, de, Q[k0], DIR_CHUNK, q)
  BY <1>2, <1>6, Emitted
<1>a. q \in Pages
  BY <1>9 DEF EmitIs
<1>b. /\ Q[k0] \in Nat /\ Q[k] \in Nat /\ Q[K] \in Nat /\ k0 \in 0..m /\ K \in 0..m
  <2>1. k0 \in 0..m /\ K \in 0..m
    BY <1>2, <1>4
  <2> HIDE DEF m
  <2> QED
    BY <1>2, <1>3, <2>1
<1> HIDE DEF m, n, de, q, z, L
<1>c. \A x \in 1..m : w[x] \in 1..n
  BY <1>3, <1>4
<1> SUFFICES \E k_, K_ : PageWith(dir, w, Q, k0, q, j + 1, k_, K_)
  BY PageWitness DEF q, de
<1> DEFINE W(k_, K_) ==
             /\ q \in Pages /\ k_ \in 0..m /\ K_ \in k0..m
             /\ q.written = Q[K_] - Q[k0] /\ q.out = SubSeq(L, k0 + 1, K_)
             /\ q.full => k0 < K_
             /\ ~q.full => /\ q.stream = Q[k_] /\ K_ = (IF k0 < k_ THEN k_ ELSE k0)
                           /\ Behind(w, m, j + 1, k_)
<1>d. \A k_, K_ : W(k_, K_) => PageWith(dir, w, Q, k0, q, j + 1, k_, K_)
  BY DEF PageWith, m, L
<1> SUFFICES \E k_, K_ : W(k_, K_)
  BY <1>d
<1>10. CASE p.full
  <2>1. q = p
    BY <1>9, <1>10 DEF EmitIs
  <2>2. W(k, K)
    BY <1>2, <1>10, <2>1
  <2> QED
    BY <2>2
<1>11. ASSUME ~p.full
       PROVE  /\ p.stream = Q[k] /\ K = (IF k0 < k THEN k ELSE k0)
              /\ (\A x \in 1..m : w[x] # j) => Behind(w, m, j + 1, k)
              /\ \A x0 \in 1..m : w[x0] = j => x0 = k + 1 /\ Behind(w, m, j + 1, k + 1)
  <2>1. p.stream = Q[k] /\ K = (IF k0 < k THEN k ELSE k0) /\ Behind(w, m, j, k)
    BY <1>2, <1>11
  <2>2. j \in 1..n
    BY DEF n
  <2> QED
    BY <1>2, <1>4, <1>5, <1>7, <1>c, <2>1, <2>2, RecordPassed
<1>12. CASE ~p.full /\ ~live(de)
  <2>1. q = p
    BY <1>9, <1>12 DEF EmitIs
  <2>2. \A x \in 1..m : w[x] # j
    BY <1>6, <1>12
  <2>3. W(k, K)
    BY <1>2, <1>11, <1>12, <2>1, <2>2
  <2> QED
    BY <2>3
<1>13. CASE ~p.full /\ live(de)
  <2>1. PICK x0 \in 1..m : w[x0] = j
    BY <1>6, <1>13
  <2>2. /\ x0 = k + 1 /\ Behind(w, m, j + 1, k + 1)
        /\ p.stream = Q[k] /\ K = (IF k0 < k THEN k ELSE k0)
    BY <1>11, <1>13, <2>1
  <2>3. /\ k \in Nat /\ k + 1 \in 1..m /\ k + 1 \in 0..m /\ (k + 1) - 1 = k
        /\ k0 \in Nat /\ k + 1 <= m
    BY <1>2, <1>4, <1>b, <2>1, <2>2
  <2>4. de.inode = L[k + 1] /\ z \in 1..DIR_CHUNK /\ Q[k + 1] = Q[k] + z
    BY <1>6, <2>1, <2>2, <2>3
  <2> DEFINE A == Q[k]
             B == Q[k0]
             C == Q[k + 1]
  <2>5. A \in Nat /\ B \in Nat /\ z \in Nat /\ z <= DIR_CHUNK /\ C = A + z /\ DIR_CHUNK \in Nat
    BY <1>b, <2>4, ReadsAssumption
  <2>6. k < k0 <=> A < B
    <3>1. k < k0 => A < B
      BY <1>8, <1>2, <1>b
    <3>2. k0 < k => B < A
      BY <1>8, <1>2, <1>b
    <3>3. k = k0 => A = B
      OBVIOUS
    <3> HIDE DEF A, B
    <3> QED
      BY <2>3, <2>5, <3>1, <3>2, <3>3
  <2>7. /\ p.stream < B => /\ q.stream = p.stream + z /\ q.written = p.written
                           /\ q.out = p.out /\ ~q.full
        /\ ~(p.stream < B) /\ p.written + z > DIR_CHUNK => q = [p EXCEPT !.full = TRUE]
        /\ ~(p.stream < B) /\ ~(p.written + z > DIR_CHUNK) =>
              /\ q.stream = p.stream + z /\ q.written = p.written + z
              /\ q.out = Append(p.out, de.inode) /\ ~q.full
    BY <1>9, <1>13, Zenon DEF EmitIs, z
  <2>8. p.stream = A
    BY <2>2
  <2> HIDE DEF A, B, C
  <2>9. CASE k < k0
    <3>1. K = k0 /\ K = (IF k0 < k + 1 THEN k + 1 ELSE k0)
      BY <2>2, <2>3, <2>9
    <3>2. q.stream = p.stream + z /\ q.written = p.written /\ q.out = p.out /\ ~q.full
      BY <2>6, <2>7, <2>8, <2>9
    <3>3. q.stream = Q[k + 1]
      BY <2>5, <2>8, <3>2 DEF C
    <3>4. W(k + 1, K)
      BY <1>2, <1>a, <2>2, <2>3, <3>1, <3>2, <3>3
    <3> QED
      BY <3>4
  <2>10. CASE ~(k < k0)
    <3>1. K = k /\ k0 <= k
      BY <2>2, <2>3, <2>10
    <3>2. p.written = A - B /\ p.out = SubSeq(L, k0 + 1, k) /\ B <= A
      <4>1. p.written = A - B /\ p.out = SubSeq(L, k0 + 1, k)
        BY <1>2, <3>1 DEF A, B
      <4>2. B <= A
        BY <2>5, <2>6, <2>10
      <4> QED
        BY <4>1, <4>2
    <3>3. CASE p.written + z > DIR_CHUNK
      <4>1. q = [p EXCEPT !.full = TRUE]
        BY <2>6, <2>7, <2>8, <2>10, <3>3
      <4>2. q.full /\ q.written = p.written /\ q.out = p.out
        BY <1>2, <4>1 DEF Pages
      <4>3. k0 # k
        <5> SUFFICES ASSUME k0 = k PROVE FALSE
          OBVIOUS
        <5>1. A = B
          BY DEF A, B
        <5> QED
          BY <2>5, <3>2, <3>3, <5>1
      <4>4. k0 < K
        BY <2>3, <3>1, <4>3
      <4>5. W(k, K)
        BY <1>2, <1>a, <4>2, <4>4
      <4> QED
        BY <4>5
    <3>4. CASE ~(p.written + z > DIR_CHUNK)
      <4>1. q.stream = p.stream + z /\ q.written = p.written + z
            /\ q.out = Append(p.out, de.inode) /\ ~q.full
        BY <2>6, <2>7, <2>8, <2>10, <3>4
      <4>2. q.stream = C /\ q.written = C - B
        BY <2>5, <2>8, <3>2, <4>1
      <4>3. q.out = SubSeq(L, k0 + 1, k + 1)
        <5>1. k + 1 <= Len(L)
          BY <2>3 DEF m, L
        <5>2. SubSeq(L, k0 + 1, k + 1) = Append(SubSeq(L, k0 + 1, k), L[k + 1])
          BY <1>3, <2>3, <3>1, <5>1, PieceGrows
        <5> QED
          BY <2>4, <3>2, <4>1, <5>2
      <4>4. k + 1 \in k0..m /\ k + 1 = (IF k0 < k + 1 THEN k + 1 ELSE k0)
        BY <2>3, <3>1
      <4>5. W(k + 1, k + 1)
        BY <1>a, <2>2, <2>3, <4>1, <4>2, <4>3, <4>4 DEF B, C
      <4> QED
        BY <4>5
    <3> QED
      BY <3>3, <3>4
  <2> QED
    BY <2>9, <2>10
<1> QED
  BY <1>10, <1>12, <1>13

\* One block of ext2_readdir().
LEMMA BlockEmits ==
    ASSUME NEW dir, NEW P \in Nat \ {0}, NEW w, NEW Q, Laid(dir, P, w, Q),
           NEW k0 \in 0..Len(dir.list),
           NEW i \in 1..Len(dir.records), NEW e \in i..Len(dir.records),
           NEW bs \in Nat, NEW size \in Nat, dir.records[i] = bs, dir.records[e] = bs + size,
           NEW block, HoldsSectors(dir, block, bs, size),
           NEW p, PageAt(dir, w, Q, k0, p, i)
    PROVE  PageAt(dir, w, Q, k0, emit_block(p, block, size, Q[k0], DIR_CHUNK), e)
<1> DEFINE E == dir_entries(block, size)
           l == Len(E)
           G(x) == PageAt(dir, w, Q, k0, x, i)
<1>1. RecordsFrom(dir, i, e, E)
  BY EntriesAre
<1>2. E \in Seq(Records(dir)) /\ l = e - i /\ \A t \in 1..(e - i) : E[t] = record(dir, i + (t - 1))
  BY <1>1 DEF RecordsFrom
<1>3. p \in Pages
  BY DEF PageAt
<1>4. \A de \in Records(dir) : Readable(de)
  <2>1. ASSUME NEW j \in 1..(Len(dir.records) - 1) PROVE Readable(record(dir, j))
    BY RecordIs
  <2> QED
    BY <2>1 DEF Records
<1>a. PICK g : EntryByEntry(p, block, size, Q[k0], DIR_CHUNK, g)
  <2> DEFINE offset == Q[k0]
  <2> HIDE DEF offset
  <2>1. \E g : EntryByEntry(p, block, size, offset, DIR_CHUNK, g)
    BY <1>2, <1>3, <1>4, PageFolds
  <2> QED
    BY <2>1 DEF offset
<1>5. /\ g[0] = p
      /\ \A t \in 1..l : g[t] = emit(g[t - 1], E[t], Q[k0], DIR_CHUNK)
      /\ emit_block(p, block, size, Q[k0], DIR_CHUNK) = g[l]
  BY <1>a DEF EntryByEntry
<1>6. i \in Nat /\ e \in Nat /\ i <= e /\ e <= Len(dir.records) /\ Len(dir.records) \in Nat
  <2> DEFINE M == Len(dir.records)
  <2>1. dir.records \in Seq(0..Len(dir.sectors))
    BY DEF Laid, RecordsFollow
  <2>2. M \in Nat
    BY ONLY <2>1
  <2> HIDE DEF M
  <2>3. i \in 1..M /\ e \in i..M
    BY DEF M
  <2>4. i \in Nat /\ e \in Nat /\ i <= e /\ e <= M
    BY <2>2, <2>3
  <2> QED
    BY <2>2, <2>4 DEF M
<1>b. l \in Nat
  BY <1>2, <1>6
<1> HIDE DEF E, l
<1> DEFINE H(t) == PageAt(dir, w, Q, k0, g[t], i + t)
           Bad == {t \in 0..l : ~H(t)}
<1>7. H(0)
  <2>1. i + 0 = i
    BY <1>6
  <2> QED
    BY <1>5, <2>1
<1>8. ASSUME NEW t \in 1..l, H(t - 1) PROVE H(t)
  <2>1. /\ i + (t - 1) \in 1..(Len(dir.records) - 1) /\ (i + (t - 1)) + 1 = i + t
        /\ t \in 1..(e - i)
    <3> DEFINE M == Len(dir.records)
    <3>1. i \in Nat /\ e \in Nat /\ i <= e /\ e <= M /\ M \in Nat /\ l = e - i /\ i >= 1
      BY <1>2, <1>6
    <3> HIDE DEF M
    <3>2. i + (t - 1) \in 1..(M - 1) /\ (i + (t - 1)) + 1 = i + t /\ t \in 1..(e - i)
      BY ONLY <3>1, t \in 1..l
    <3> QED
      BY <3>2 DEF M
  <2>2. E[t] = record(dir, i + (t - 1)) /\ g[t] = emit(g[t - 1], E[t], Q[k0], DIR_CHUNK)
    BY <1>2, <1>5, <2>1
  <2>3. PageAt(dir, w, Q, k0, emit(g[t - 1], record(dir, i + (t - 1)), Q[k0], DIR_CHUNK),
               (i + (t - 1)) + 1)
    BY <1>8, <2>1, EmitStep
  <2> QED
    BY <2>1, <2>2, <2>3
<1>9. Bad = {}
  <2> HIDE DEF H
  <2> SUFFICES ASSUME Bad # {} PROVE FALSE
    OBVIOUS
  <2>0. l \in Nat
    BY <1>b
  <2>1. PICK t \in Bad : \A z \in Bad : t <= z
    <3>1. Bad \subseteq Nat
      OBVIOUS
    <3> HIDE DEF Bad
    <3> QED
      BY <3>1, LeastNatural
  <2>2. t \in 1..l /\ ~H(t)
    <3>1. t \in 0..l /\ ~H(t)
      BY <2>1
    <3>2. t # 0
      BY <1>7, <3>1
    <3> QED
      BY <2>0, <3>1, <3>2
  <2>3. t - 1 \in 0..l /\ t - 1 < t /\ t \in Nat
    BY <2>0, <2>2
  <2>4. t - 1 \notin Bad
    <3> HIDE DEF Bad
    <3> QED
      BY <2>1, <2>3
  <2>5. H(t - 1)
    BY <2>3, <2>4
  <2> QED
    BY <1>8, <2>2, <2>5
<1>10. H(l)
  <2> HIDE DEF H
  <2>1. l \in 0..l
    BY <1>b
  <2> QED
    BY <1>9, <2>1
<1>11. i + l = e
  BY <1>2, <1>6
<1> QED
  BY <1>5, <1>10, <1>11

\* The block at bs comes next, and with it the j-th record.
Reached(dir, P, bs, j) ==
    /\ j \in 1..Len(dir.records) /\ \E l \in Nat : bs = l * P
    /\ dir.records[j] = Lesser(bs, Len(dir.sectors))

\* The pages so far hold the first k0 names, and the page at hand goes on from there.
ListWith(P, dir, o, w, Q, k0, j) ==
    /\ Laid(dir, P, w, Q) /\ k0 \in 0..Len(dir.list)
    /\ o.offset = Q[k0] /\ o.so_far = SubSeq(dir.list, 1, k0)
    /\ PageAt(dir, w, Q, k0, o.page, j) /\ Reached(dir, P, o.blk_start, j)

\* The call o lists the directory dir.
Lists(d, s, P, o, dir) ==
    HoldsDirectory(d, s, P, o.di, dir) /\ \E w, Q, k0, j : ListWith(P, dir, o, w, Q, k0, j)

\* What is needed of a directory again and again.
LEMMA DirectoryIs ==
    ASSUME NEW dir, NEW P, NEW w, NEW Q, Laid(dir, P, w, Q)
    PROVE  /\ Len(dir.records) \in Nat /\ Len(dir.records) >= 1 /\ dir.records[1] = 0
           /\ Len(dir.sectors) \in Nat /\ dir.list \in Seq(Nat) /\ Len(dir.list) \in Nat
           /\ dir.records[Len(dir.records)] = Len(dir.sectors)
           /\ \A k \in 0..Len(dir.list) : Q[k] \in Nat
<1>1. /\ RecordsFollow(dir, P) /\ dir.sectors \in Seq(Range(dir.sectors)) /\ dir.list \in Seq(Nat)
      /\ Q \in [0..Len(dir.list) -> Nat]
  BY DEF Laid
<1> DEFINE a == dir.records
           f == dir.sectors
           L == dir.list
<1>2. a \in Seq(0..Len(f)) /\ a # << >> /\ a[1] = 0 /\ a[Len(a)] = Len(f)
  BY <1>1 DEF RecordsFollow
<1>3. f \in Seq(Range(f)) /\ L \in Seq(Nat) /\ Q \in [0..Len(L) -> Nat]
  BY <1>1
<1> HIDE DEF a, f, L
<1>4. Len(f) \in Nat
  BY ONLY <1>3
<1>5. Len(L) \in Nat
  BY ONLY <1>3
<1>6. Len(a) \in Nat /\ Len(a) >= 1
  BY ONLY <1>2
<1>7. \A k \in 0..Len(L) : Q[k] \in Nat
  BY <1>3
<1> QED
  BY <1>2, <1>3, <1>4, <1>5, <1>6, <1>7 DEF a, f, L

\* The call r is the call o at a page that begins behind the first k0 names.
PageFrom(d, s, P, o, dir, w, Q, k0, r) ==
    /\ DOMAIN o = Fields /\ HoldsDirectory(d, s, P, o.di, dir) /\ Laid(dir, P, w, Q)
    /\ k0 \in 0..Len(dir.list) /\ o.so_far = SubSeq(dir.list, 1, k0)
    /\ r = list_from(o, Q[k0])

\* Such a call lists the directory.
LEMMA PageBegins ==
    ASSUME NEW d, NEW s, NEW P \in Nat \ {0}, NEW o, NEW dir, NEW w, NEW Q, NEW k0, NEW r,
           PageFrom(d, s, P, o, dir, w, Q, k0, r)
    PROVE  /\ Lists(d, s, P, r, dir) /\ DOMAIN r = Fields
           /\ r.at = "turn" /\ r.what = o.what /\ r.ino = o.ino
<1>1. /\ DOMAIN o = Fields /\ HoldsDirectory(d, s, P, o.di, dir) /\ Laid(dir, P, w, Q)
      /\ k0 \in 0..Len(dir.list) /\ o.so_far = SubSeq(dir.list, 1, k0)
      /\ r = list_from(o, Q[k0])
  BY DEF PageFrom
<1>2. /\ DOMAIN r = Fields /\ r.at = "turn" /\ r.what = o.what /\ r.ino = o.ino /\ r.di = o.di
      /\ r.offset = Q[k0] /\ r.so_far = o.so_far /\ r.blk_start = 0 /\ r.page = new_page
  BY <1>1 DEF list_from, Fields
<1>3. PageAt(dir, w, Q, k0, new_page, 1)
  BY <1>1, NewPage
<1>4. Reached(dir, P, 0, 1)
  <2>1. /\ Len(dir.records) \in Nat /\ Len(dir.records) >= 1 /\ dir.records[1] = 0
        /\ Len(dir.sectors) \in Nat
    BY <1>1, DirectoryIs
  <2>2. 0 = 0 * P
    OBVIOUS
  <2> DEFINE M == Len(dir.records)
             N == Len(dir.sectors)
  <2> HIDE DEF M, N
  <2>3. 1 \in 1..M /\ Lesser(0, N) = 0
    BY <2>1 DEF M, N, Lesser
  <2> QED
    BY <2>1, <2>2, <2>3 DEF Reached, M, N
<1>5. ListWith(P, dir, r, w, Q, k0, 1)
  BY <1>1, <1>2, <1>3, <1>4 DEF ListWith
<1> QED
  BY <1>1, <1>2, <1>5 DEF Lists

\* The block of the directory that the call o is at.
BlockAt(d, s, P, o, dir, block) ==
    \E b : \E lba \in Nat :
      /\ b # 0 /\ lba = s + b * P
      /\ HoldsPart(d, s, P, dir.sectors, o.blk_start \div P, b)
      /\ \A i \in 1..P : block[i] = sector(d, lba + i - 1)

\* ext2_readdir() has taken a block.
LEMMA BlockListed ==
    ASSUME NEW d, NEW s, NEW P \in Nat \ {0}, P = root.spb, NEW o, DOMAIN o = Fields, NEW dir,
           Lists(d, s, P, o, dir), o.blk_start < o.di.i_size,
           NEW block, BlockAt(d, s, P, o, dir, block)
    PROVE  /\ Lists(d, s, P, listed(o, block), dir)
           /\ DOMAIN listed(o, block) = Fields
           /\ listed(o, block).what = o.what /\ listed(o, block).ino = o.ino
<1> DEFINE bs == o.blk_start
           N == Len(dir.sectors)
           M == Len(dir.records)
           size == Lesser(P, N - bs)
           r == listed(o, block)
<1>1. PICK b : \E lba_ \in Nat :
        /\ b # 0 /\ lba_ = s + b * P /\ HoldsPart(d, s, P, dir.sectors, bs \div P, b)
        /\ \A i \in 1..P : block[i] = sector(d, lba_ + i - 1)
  BY DEF BlockAt
<1> DEFINE lba == s + b * P
<1>2. /\ b # 0 /\ lba \in Nat /\ HoldsPart(d, s, P, dir.sectors, bs \div P, b)
       /\ \A i \in 1..P : block[i] = sector(d, lba + i - 1)
  BY <1>1
<1>3. PICK w, Q, k0, i : ListWith(P, dir, o, w, Q, k0, i)
  BY DEF Lists
<1>4. /\ Laid(dir, P, w, Q) /\ k0 \in 0..Len(dir.list)
      /\ o.offset = Q[k0] /\ o.so_far = SubSeq(dir.list, 1, k0)
      /\ PageAt(dir, w, Q, k0, o.page, i) /\ Reached(dir, P, bs, i)
  BY <1>3 DEF ListWith
<1>5. /\ M \in Nat /\ N \in Nat /\ dir.records[M] = N /\ M >= 1
  BY <1>4, DirectoryIs
<1>6. HoldsDirectory(d, s, P, o.di, dir) /\ o.di.i_size = N
  <2>1. HoldsDirectory(d, s, P, o.di, dir)
    BY DEF Lists
  <2>2. HoldsFile(d, s, P, o.di, dir.sectors)
    BY <2>1 DEF HoldsDirectory
  <2> QED
    BY <2>1, <2>2 DEF HoldsFile
<1>7. PICK l \in Nat : bs = l * P
  BY <1>4 DEF Reached
<1>8. /\ DOMAIN r = Fields /\ r.what = o.what /\ r.ino = o.ino /\ r.di = o.di
      /\ r.offset = o.offset /\ r.so_far = o.so_far /\ r.blk_start = bs + P
      /\ r.page = emit_block(o.page, block, size, Q[k0], DIR_CHUNK)
  BY <1>4, <1>6 DEF listed, Fields
<1>9. i \in 1..M /\ dir.records[i] = Lesser(bs, N)
  BY <1>4 DEF Reached
<1>10. bs \div P = l /\ bs \in Nat
  <2>1. l * P = P * l /\ P * l \in Nat
    BY <1>7
  <2>2. (P * l) \div P = l
    BY MultIs
  <2> QED
    BY <1>7, <2>1, <2>2
<1>11. bs < N
  BY <1>6
<1> HIDE DEF r
<1>12. HoldsPart(d, s, P, dir.sectors, l, b)
  BY <1>2, <1>10
<1> HIDE DEF bs, N, M
<1>13. size \in Nat /\ size <= P /\ bs + size <= N /\ dir.records[i] = bs
       /\ bs + size = Lesser(bs + P, N)
  BY <1>5, <1>9, <1>10, <1>11 DEF Lesser
<1> HIDE DEF size
<1>14. HoldsSectors(dir, block, bs, size)
  <2> SUFFICES ASSUME NEW x \in 1..size PROVE block[x] = dir.sectors[bs + x]
    BY DEF HoldsSectors
  <2> DEFINE k == x - 1
  <2>1. k \in 0..(P - 1) /\ x \in 1..P /\ l * P + k < N /\ l * P + k + 1 = bs + x
    BY <1>5, <1>7, <1>10, <1>13
  <2>2. sector(d, s + b * P + k) = dir.sectors[l * P + k + 1]
    <3> HIDE DEF k
    <3> QED
      BY <1>2, <1>12, <2>1 DEF HoldsPart, N
  <2>3. lba + x - 1 = lba + k
    BY <1>2
  <2>4. block[x] = sector(d, lba + k)
    BY <1>2, <2>1, <2>3
  <2> HIDE DEF k
  <2> QED
    BY <2>1, <2>2, <2>4
<1>15. (l + 1) * P = bs + P /\ l + 1 \in Nat
  <2>1. l \in Nat /\ P \in Nat
    OBVIOUS
  <2>2. (l + 1) * P = l * P + P
    BY ONLY <2>1
  <2> QED
    BY <1>7, <2>2
<1>16. PICK e \in 1..M : dir.records[e] = bs + size
  <2>1. CASE bs + P < N
    <3>1. (l + 1) * P = bs + P /\ l + 1 \in Nat
      BY <1>15
    <3>2. Starts(dir.records, M - 1, N, P)
      BY <1>4, StartsAre DEF M, N
    <3>3. \E j \in 1..(M - 1) : dir.records[j] = (l + 1) * P
      BY <2>1, <3>1, <3>2, BlockStarts
    <3>4. bs + size = bs + P
      BY <1>10, <1>13, <2>1, <1>5 DEF Lesser
    <3> QED
      BY <1>5, <3>1, <3>3, <3>4
  <2>2. CASE ~(bs + P < N)
    <3>1. bs + size = N
      BY <1>5, <1>10, <1>13, <2>2 DEF Lesser
    <3> QED
      BY <1>5, <3>1
  <2> QED
    BY <2>1, <2>2
<1>17. i <= e
  <2> SUFFICES ASSUME e < i PROVE FALSE
    BY <1>9, <1>16
  <2>1. Starts(dir.records, M - 1, N, P)
    BY <1>4, StartsAre DEF M, N
  <2>2. M - 1 + 1 = M
    BY <1>5
  <2>3. dir.records[e] < dir.records[i]
    BY <1>9, <1>16, <2>1, <2>2 DEF Starts
  <2> QED
    BY <1>10, <1>13, <1>16, <2>3
<1>18. PageAt(dir, w, Q, k0, r.page, e)
  <2>1. e \in i..Len(dir.records) /\ i \in 1..Len(dir.records)
    BY <1>5, <1>9, <1>16, <1>17 DEF M
  <2>2. PageAt(dir, w, Q, k0, emit_block(o.page, block, size, Q[k0], DIR_CHUNK), e)
    BY <1>4, <1>10, <1>13, <1>14, <1>16, <2>1, BlockEmits
  <2> QED
    BY <1>8, <2>2
<1>19. Reached(dir, P, r.blk_start, e)
  <2> QED
    BY <1>8, <1>13, <1>16, <1>15 DEF Reached, M, N, bs
<1>20. ListWith(P, dir, r, w, Q, k0, e)
  BY <1>4, <1>8, <1>18, <1>19 DEF ListWith
<1> QED
  BY <1>6, <1>8, <1>20 DEF Lists, r

\* What a sequence begins with.
LEMMA PieceIsPrefix ==
    ASSUME NEW S, NEW s \in Seq(S), NEW k \in 0..Len(s)
    PROVE  IsPrefix(SubSeq(s, 1, k), s)
<1> DEFINE v == SubSeq(s, 1, k)
<1>1. Len(s) \in Nat /\ k \in Int /\ 1 \in Int /\ \A i \in 1..k : s[i] \in S
  OBVIOUS
<1>2. v \in Seq(S) /\ Len(v) = IF 1 <= k THEN k - 1 + 1 ELSE 0
  BY <1>1, SubSeqProperties
<1>3. v \in Seq(S) /\ Len(v) = k
  <2> HIDE DEF v
  <2> QED
    BY <1>2
<1> HIDE DEF v
<1>4. SubSeq(v, 1, Len(v)) = v
  BY <1>3, SubSeqFull
<1>5. Len(v) <= Len(s)
  BY <1>3
<1> QED
  BY <1>3, <1>4, <1>5 DEF IsPrefix, v

\* The call o goes on to its next page.
next_page(o) ==
    list_from([o EXCEPT !.so_far = @ \o o.page.out], o.offset + o.page.written)

\* A page has been filled, or the directory has ended: the names before it and in
\* it are the directory's, and when it is empty at the end they are all.
LEMMA PageEnds ==
    ASSUME NEW d, NEW s, NEW P \in Nat \ {0}, NEW o, DOMAIN o = Fields, NEW dir,
           Lists(d, s, P, o, dir), o.what = "list", NEW r, r = next_page(o)
    PROVE  /\ IsPrefix(o.so_far, dir.list)
           /\ o.page.written = 0 /\ ~more(o) => o.so_far = dir.list
           /\ Lists(d, s, P, r, dir) /\ DOMAIN r = Fields
           /\ r.at = "turn" /\ r.what = o.what /\ r.ino = o.ino
<1> DEFINE L == dir.list
           m == Len(L)
           M == Len(dir.records)
           N == Len(dir.sectors)
           p == o.page
<1>1. PICK w, Q, k0, j : ListWith(P, dir, o, w, Q, k0, j)
  BY DEF Lists
<1>2. /\ Laid(dir, P, w, Q) /\ k0 \in 0..m /\ o.offset = Q[k0] /\ o.so_far = SubSeq(L, 1, k0)
      /\ PageAt(dir, w, Q, k0, p, j) /\ Reached(dir, P, o.blk_start, j)
  BY <1>1 DEF ListWith
<1>3. PICK k, K : PageWith(dir, w, Q, k0, p, j, k, K)
  BY <1>2, PageWitness
<1>4. /\ k \in 0..m /\ K \in k0..m
      /\ p.written = Q[K] - Q[k0] /\ p.out = SubSeq(L, k0 + 1, K)
      /\ p.full => k0 < K
      /\ ~p.full => K = (IF k0 < k THEN k ELSE k0) /\ Behind(w, m, j, k)
  BY <1>3 DEF PageWith
<1>5. /\ L \in Seq(Nat) /\ m \in Nat /\ M \in Nat /\ N \in Nat /\ M >= 1
      /\ dir.records[M] = N /\ \A i \in 0..m : Q[i] \in Nat
  BY <1>2, DirectoryIs
<1>6. HoldsDirectory(d, s, P, o.di, dir) /\ o.di.i_size = N
  <2>1. HoldsDirectory(d, s, P, o.di, dir)
    BY DEF Lists
  <2>2. HoldsFile(d, s, P, o.di, dir.sectors)
    BY <2>1 DEF HoldsDirectory
  <2> QED
    BY <2>1, <2>2 DEF HoldsFile
<1>7. K \in 0..m /\ k0 \in 0..m /\ k0 <= K
  <2> HIDE DEF m
  <2> QED
    BY <1>2, <1>4, <1>5
<1>8. IsPrefix(o.so_far, dir.list)
  BY <1>2, <1>5, PieceIsPrefix
<1>9. ASSUME p.written = 0, ~more(o) PROVE o.so_far = dir.list
  <2>1. K = k0
    <3> SUFFICES ASSUME k0 < K PROVE FALSE
      <4> HIDE DEF m
      <4> QED
        BY <1>5, <1>7
    <3>1. Q[k0] < Q[K]
      BY <1>2, <1>7, BytesRise
    <3> DEFINE a == Q[k0]
               b == Q[K]
    <3>2. a \in Nat /\ b \in Nat /\ b - a = 0 /\ a < b
      BY <1>4, <1>5, <1>7, <1>9, <3>1
    <3> HIDE DEF a, b
    <3> QED
      BY <3>2
  <2>2. ~p.full
    <3> HIDE DEF m, p
    <3> QED
      BY <1>4, <1>5, <1>7, <2>1
  <2>3. ~(o.blk_start < N)
    BY <1>6, <1>9, <2>2 DEF more
  <2>4. j \in 1..M /\ dir.records[j] = N
    <3>1. PICK l \in Nat : o.blk_start = l * P
      BY <1>2 DEF Reached
    <3>2. o.blk_start \in Nat
      BY <3>1
    <3>3. Lesser(o.blk_start, N) = N
      <4> HIDE DEF N
      <4> QED
        BY <1>5, <2>3, <3>2 DEF Lesser
    <3> QED
      BY <1>2, <3>3 DEF Reached
  <2>5. Starts(dir.records, M - 1, N, P)
    BY <1>2, StartsAre
  <2> HIDE DEF M, N
  <2>6. j = M
    <3> SUFFICES ASSUME j < M PROVE FALSE
      BY <1>5, <2>4
    <3>1. M - 1 + 1 = M /\ M \in 1..M
      BY <1>5
    <3>2. dir.records[j] < dir.records[M]
      BY <2>4, <2>5, <3>1 DEF Starts
    <3> QED
      BY <1>5, <2>4, <3>2
  <2>7. Behind(w, m, M, k) /\ K = (IF k0 < k THEN k ELSE k0)
    BY <1>4, <2>2, <2>6
  <2>8. k = m
    <3> SUFFICES ASSUME k < m PROVE FALSE
      <4> HIDE DEF m
      <4> QED
        BY <1>4, <1>5
    <3>1. w \in [DOMAIN L -> 1..(M - 1)]
      BY <1>2 DEF Laid, M
    <3>2. DOMAIN L = 1..m
      <4> HIDE DEF L
      <4> QED
        BY ONLY <1>5 DEF m
    <3>3. m \in 1..m /\ ~(m <= k)
      <4> HIDE DEF m
      <4> QED
        BY <1>4, <1>5
    <3>4. w[m] \in 1..(M - 1)
      BY <3>1, <3>2, <3>3
    <3> DEFINE y == w[m]
    <3>5. y \in 1..(M - 1)
      BY <3>4
    <3>6. ~(y < M)
      BY <2>7, <3>3 DEF Behind
    <3> HIDE DEF y
    <3> QED
      BY <1>5, <3>5, <3>6
  <2>9. k0 = m
    <3> HIDE DEF m
    <3> QED
      BY <1>5, <1>7, <2>1, <2>7, <2>8
  <2> QED
    BY <1>2, <1>5, <2>9, SubSeqFull
<1> DEFINE q == [o EXCEPT !.so_far = @ \o p.out]
<1>10. /\ DOMAIN q = Fields /\ q.what = o.what /\ q.ino = o.ino /\ q.di = o.di
       /\ q.so_far = SubSeq(L, 1, k0) \o SubSeq(L, k0 + 1, K)
  BY <1>2, <1>4 DEF Fields
<1>11. q.so_far = SubSeq(L, 1, K)
  <2>1. 1 \in 1..(m + 1) /\ k0 \in (1 - 1)..m /\ K \in k0..m
    <3> HIDE DEF m
    <3> QED
      BY <1>4, <1>5, <1>7
  <2>2. SubSeq(L, 1, k0) \o SubSeq(L, k0 + 1, K) = SubSeq(L, 1, K)
    BY <1>5, <2>1, ConcatAdjacentSubSeq
  <2> QED
    BY <1>10, <2>2
<1>12. o.offset + p.written = Q[K]
  <2> DEFINE a == Q[k0]
             b == Q[K]
  <2>1. a \in Nat /\ b \in Nat /\ o.offset = a /\ p.written = b - a
    BY <1>2, <1>4, <1>5, <1>7
  <2> HIDE DEF a, b
  <2>2. o.offset + p.written = b
    BY <2>1
  <2> QED
    BY <2>2 DEF b
<1>13. r = list_from(q, Q[K])
  BY <1>12 DEF next_page
<1> HIDE DEF q
<1>14. /\ Lists(d, s, P, r, dir) /\ DOMAIN r = Fields
       /\ r.at = "turn" /\ r.what = q.what /\ r.ino = q.ino
  <2>1. HoldsDirectory(d, s, P, q.di, dir) /\ K \in 0..Len(dir.list)
        /\ q.so_far = SubSeq(dir.list, 1, K)
    BY <1>6, <1>7, <1>10, <1>11
  <2>2. Laid(dir, P, w, Q) /\ DOMAIN q = Fields
    BY <1>2, <1>10
  <2>3. PageFrom(d, s, P, q, dir, w, Q, K, r)
    BY <1>13, <2>1, <2>2 DEF PageFrom
  <2> QED
    BY <2>3, PageBegins
<1> QED
  BY <1>8, <1>9, <1>10, <1>14

\* The call o lists the directory it was made for.
DirRead(o) ==
    o.ino \in DOMAIN disk.dirs /\ Lists(disk, base, root.spb, o, disk.dirs[o.ino])

\* An inode is read for a listing only of a directory.
ListInodeOK == op.at = "inode" /\ op.what = "list" => op.ino \in DOMAIN disk.dirs

\* The block being read is on the way to the block the listing is at.
DirBlockOK(b) ==
    /\ b # 0 /\ Calling(base + b * root.spb, root.spb)
    /\ Leads(disk, base, root.spb, disk.dirs[op.ino].sectors, position(op) \div root.spb, b,
             op.path)

\* A listing under way: where it stands, and why it ended when it has.
ListingOK ==
    op.at \in {"turn", "block", "returned"} /\ op.what = "list" =>
        /\ DirRead(op)
        /\ op.at = "block" => more(op) /\ \E b : DirBlockOK(b)
        /\ op.at = "returned" /\ ~failed => ~more(op)

ListInv == ListInodeOK /\ ListingOK /\ ListingIsComplete

\* A listing is made of a directory.
LEMMA ListCalls ==
    ASSUME RootInv, calls
    PROVE  ListInv'
<1>1. ASSUME NEW ino, NEW what \in {"list", "whole", "read"}, NEW offset, NEW count,
             what = "list" => ino \in DOMAIN disk.dirs, begin(ino, what, offset, count)
      PROVE  ListInv'
  <2>1. /\ op' = [at |-> "inode", ino |-> ino, what |-> what, offset |-> offset,
                  count |-> count]
        /\ result' = None /\ disk' = disk
    BY <1>1 DEF begin
  <2>2. op'.at = "inode" /\ op'.ino = ino /\ op'.what = what
    BY <2>1
  <2> QED
    BY <1>1, <2>1, <2>2 DEF ListInv, ListInodeOK, ListingOK, ListingIsComplete
<1> QED
  BY <1>1 DEF calls

\* The loop of a listing moves on.
LEMMA DirMoved ==
    ASSUME NEW d, NEW s, NEW P, NEW o, DOMAIN o = Fields, NEW dir, Lists(d, s, P, o, dir),
           NEW x, NEW p, NEW r, Moves(o, x, p, r)
    PROVE  /\ Lists(d, s, P, r, dir) /\ DOMAIN r = Fields /\ r.at = x /\ r.what = o.what
           /\ r.ino = o.ino /\ more(r) = more(o) /\ position(r) = position(o)
<1>1. /\ DOMAIN r = Fields /\ r.at = x /\ r.what = o.what /\ r.ino = o.ino /\ r.di = o.di
      /\ r.data = o.data /\ r.count = o.count /\ r.offset = o.offset
      /\ r.so_far = o.so_far /\ r.blk_start = o.blk_start /\ r.page = o.page
  BY DEF Fields, Moves
<1>2. PICK w, Q, k0, j : ListWith(P, dir, o, w, Q, k0, j)
  BY DEF Lists
<1>3. ListWith(P, dir, r, w, Q, k0, j)
  BY <1>1, <1>2 DEF ListWith
<1>4. Lists(d, s, P, r, dir)
  BY <1>1, <1>3 DEF Lists
<1>5. more(r) = more(o) /\ position(r) = position(o)
  BY <1>1 DEF position, more
<1> QED
  BY <1>1, <1>4, <1>5

\* resolve_block() of a listing goes on to block b, or meets a hole.
LEMMA DirResolved ==
    ASSUME RootInv, ReadInv, ListInv, op.at \in {"turn", "block"}, NEW b, NEW path,
           resolve(b, path), UNCHANGED <<disk, base, parts, root, result>>,
           op.what = "list" /\ b # 0 =>
               /\ more(op)
               /\ Leads(disk, base, root.spb, disk.dirs[op.ino].sectors,
                        position(op) \div root.spb, b, path)
    PROVE  ListInv'
<1>1. DOMAIN op = Fields /\ result = None
  BY NoResult DEF ReadInv, ReadingOK, OpenAs
<1>2. ListingIsComplete'
  BY <1>1 DEF ListingIsComplete
<1>3. CASE op.what # "list"
  <2>1. op'.what = op.what /\ op'.at # "inode"
    BY <1>1 DEF resolve, Fields
  <2> QED
    BY <1>2, <1>3, <2>1 DEF ListInv, ListInodeOK, ListingOK
<1>4. CASE op.what = "list" /\ b = 0
  <2>1. op' = [op EXCEPT !.at = "returned"] /\ failed' = TRUE
    BY <1>4 DEF resolve
  <2>2. Moves(op, "returned", << >>, op')
    BY <2>1 DEF Moves
  <2>3. DirRead(op)
    BY <1>4 DEF ListInv, ListingOK
  <2>4. Lists(disk, base, root.spb, op', disk.dirs[op.ino]) /\ op'.at = "returned"
        /\ op'.ino = op.ino
    BY <1>1, <2>2, <2>3, DirMoved DEF DirRead
  <2>5. DirRead(op)'
    BY <2>3, <2>4 DEF DirRead
  <2> QED
    BY <1>2, <2>1, <2>4, <2>5 DEF ListInv, ListInodeOK, ListingOK
<1>5. CASE op.what = "list" /\ b # 0
  <2>1. /\ op' = [op EXCEPT !.at = "block", !.path = path]
        /\ read_sectors(base + b * root.spb, root.spb)
    BY <1>5 DEF resolve, read_block
  <2>2. Moves(op, "block", path, op') /\ op'.path = path
    BY <1>1, <2>1 DEF Moves, Fields
  <2>3. DirRead(op)
    BY <1>5 DEF ListInv, ListingOK
  <2>4. Lists(disk, base, root.spb, op', disk.dirs[op.ino]) /\ op'.at = "block"
        /\ op'.ino = op.ino /\ more(op') = more(op) /\ position(op') = position(op)
    BY <1>1, <2>2, <2>3, DirMoved DEF DirRead
  <2>5. DirRead(op)'
    BY <2>3, <2>4 DEF DirRead
  <2>6. InProgress' /\ rd'.lba = base + b * root.spb /\ rd'.count = root.spb
    BY <2>1, CallBegins
  <2>7. DirBlockOK(b)'
    BY <1>5, <2>2, <2>4, <2>6 DEF DirBlockOK, Calling
  <2>8. more(op)'
    BY <1>5, <2>4 DEF more
  <2> QED
    BY <1>2, <2>4, <2>5, <2>7, <2>8 DEF ListInv, ListInodeOK, ListingOK
<1> QED
  BY <1>3, <1>4, <1>5

\* fetch_inode() returns, and the listing begins.
LEMMA ListFetch ==
    ASSUME StorageInv, RootInv, ReadInv, ListInv, fetch_inode
    PROVE  ListInv'
<1> DEFINE P == root.spb
           x == inode_offset(root, op.ino) % P
           di == got(x + 1)
           lba == base + inode_block(root, op.ino) * P
           dir == disk.dirs[op.ino]
<1>1. /\ step = "ret" /\ op.at = "inode" /\ Truthful
      /\ UNCHANGED <<disk, base, parts, root, result>>
      /\ op' = IF res.ok THEN opened(di) ELSE idle
  BY DEF fetch_inode, Reply
<1>2. result = None /\ root # None
  BY <1>1, NoResult
<1>3. ListingIsComplete'
  BY <1>1, <1>2 DEF ListingIsComplete
<1>4. CASE ~res.ok
  <2>1. op'.at = "idle"
    BY <1>1, <1>4 DEF idle
  <2> QED
    BY <1>3, <2>1 DEF ListInv, ListInodeOK, ListingOK
<1> DEFINE o == [at |-> "turn", what |-> op.what, ino |-> op.ino, di |-> di,
                 offset |-> 0, count |-> 0, data |-> << >>, so_far |-> << >>,
                 blk_start |-> 0, page |-> new_page, path |-> << >>]
<1>5. CASE res.ok /\ op.what # "list"
  <2>1. \/ op' = read_from(o, 0, di.i_size)
        \/ op' = read_from(o, op.offset, op.count)
    BY <1>1, <1>5 DEF opened
  <2>2. DOMAIN o = Fields /\ o.what = op.what
    BY DEF Fields
  <2> HIDE DEF o, di
  <2>3. op'.what # "list" /\ op'.at = "turn"
    BY <1>5, <2>1, <2>2 DEF read_from, Fields
  <2> QED
    BY <1>3, <2>3 DEF ListInv, ListInodeOK, ListingOK
<1>6. CASE res.ok /\ op.what = "list"
  <2>1. Calling(lba, P) /\ inode_exists(root, op.ino) /\ op.ino \in DOMAIN disk.dirs
    BY <1>1, <1>6 DEF ReadInv, InodeOK, ListInv, ListInodeOK
  <2>2. lba \in Nat /\ \A i \in 1..P : got(i) = sector(disk, lba + i - 1)
    BY <1>1, <1>6, <2>1, Answer DEF StorageInv, Answers
  <2>3. HoldsDirectory(disk, base, P, di, dir)
    <3>1. lba = base + inode_block(root, op.ino) * root.spb
      OBVIOUS
    <3> HIDE DEF lba
    <3>2. x \in 0..(P - 1) /\ HoldsDirectory(disk, base, P, sector(disk, lba + x), dir)
      BY <1>2, <2>1, <2>2, <3>1, InodeIs
    <3>3. P \in Nat
      BY <1>2, RootIs
    <3> HIDE DEF x, P
    <3>4. x + 1 \in 1..P /\ lba + (x + 1) - 1 = lba + x
      BY <2>2, <3>2, <3>3
    <3> QED
      BY <2>2, <3>2, <3>4
  <2>4. op' = list_from(o, 0)
    BY <1>1, <1>6 DEF opened
  <2>5. /\ DOMAIN o = Fields /\ o.what = "list" /\ o.ino = op.ino /\ o.di = di
        /\ o.so_far = << >>
    BY <1>6 DEF Fields
  <2>6. P \in Nat \ {0}
    BY <1>2, RootIs
  <2> HIDE DEF o, di, x, lba, P, dir
  <2>7. PICK w, Q : Laid(dir, P, w, Q)
    BY <2>3, LaidOut
  <2>8. Q[0] = 0 /\ 0 \in 0..Len(dir.list)
    <3>1. Q[0] = 0
      BY <2>7 DEF Laid
    <3>2. Len(dir.list) \in Nat
      BY <2>7, DirectoryIs
    <3> QED
      BY <3>1, <3>2
  <2>9. SubSeq(dir.list, 1, 0) = << >>
    BY SubSeqEmpty
  <2>10. PageFrom(disk, base, P, o, dir, w, Q, 0, op')
    BY <2>3, <2>4, <2>5, <2>7, <2>8, <2>9 DEF PageFrom
  <2>11. Lists(disk, base, P, op', dir) /\ op'.at = "turn" /\ op'.ino = op.ino
    BY <2>5, <2>6, <2>10, PageBegins
  <2>12. DirRead(op)'
    BY <1>1, <2>1, <2>11 DEF DirRead, dir, P
  <2> QED
    BY <1>3, <2>11, <2>12 DEF ListInv, ListInodeOK, ListingOK
<1> QED
  BY <1>4, <1>5, <1>6

\* The head of the loop of ext2_readdir().
LEMMA ListTurn ==
    ASSUME RootInv, ReadInv, ListInv, turn
    PROVE  ListInv'
<1> DEFINE l == position(op) \div root.spb
           path == block_path(root, l)
           dir == disk.dirs[op.ino]
<1>1. /\ op.at = "turn" /\ UNCHANGED <<disk, base, parts, root, result>>
      /\ ~more(op) => op' = [op EXCEPT !.at = "returned"]
      /\ more(op) /\ path = << >> => resolve(0, << >>)
      /\ more(op) /\ path # << >> => resolve(op.di.i_block[path[1]], Tail(path))
  <2>1. op.at = "turn" /\ UNCHANGED <<disk, base, parts, root, result>>
    BY DEF turn
  <2>2. ~more(op) => op' = [op EXCEPT !.at = "returned"]
    BY Zenon DEF turn
  <2>3. more(op) /\ path = << >> => resolve(0, << >>)
    BY Zenon DEF turn
  <2>4. more(op) /\ path # << >> => resolve(op.di.i_block[path[1]], Tail(path))
    BY Zenon DEF turn
  <2> QED
    BY <2>1, <2>2, <2>3, <2>4
<1>2. result = None /\ root # None /\ DOMAIN op = Fields
  BY <1>1, NoResult DEF ReadInv, ReadingOK, OpenAs
<1>3. op.what = "list" => DirRead(op)
  BY <1>1 DEF ListInv, ListingOK
<1>4. CASE ~more(op)
  <2>1. op' = [op EXCEPT !.at = "returned"] /\ op'.at = "returned" /\ op'.what = op.what
    BY <1>1, <1>2, <1>4 DEF Fields
  <2>2. ListingIsComplete'
    BY <1>1, <1>2 DEF ListingIsComplete
  <2>3. ASSUME op.what = "list" PROVE DirRead(op)' /\ ~more(op)'
    <3>1. Moves(op, "returned", << >>, op')
      BY <2>1 DEF Moves
    <3>2. Lists(disk, base, root.spb, op', dir) /\ op'.ino = op.ino /\ more(op') = more(op)
      <4>1. Lists(disk, base, root.spb, op, dir)
        BY <1>3, <2>3 DEF DirRead
      <4>2. op'.at = "returned" /\ Lists(disk, base, root.spb, op', dir) /\ op'.ino = op.ino
        BY <1>2, <3>1, <4>1, DirMoved
      <4>3. more(op') = more(op)
        BY <1>2, <2>1 DEF more, Fields
      <4> QED
        BY <4>2, <4>3
    <3>3. DirRead(op)'
      BY <1>1, <1>3, <2>3, <3>2 DEF DirRead
    <3>4. more(op)' <=> more(op')
      BY DEF more
    <3> QED
      BY <1>4, <3>2, <3>3, <3>4
  <2> QED
    BY <2>1, <2>2, <2>3 DEF ListInv, ListInodeOK, ListingOK
<1>5. CASE more(op) /\ path = << >>
  BY <1>1, <1>5, DirResolved
<1>6. CASE more(op) /\ path # << >>
  <2> DEFINE b == op.di.i_block[path[1]]
  <2>1. resolve(b, Tail(path))
    BY <1>1, <1>6
  <2>2. ASSUME op.what = "list"
        PROVE  Leads(disk, base, root.spb, dir.sectors, l, b, Tail(path))
    <3>1. HoldsFile(disk, base, root.spb, op.di, dir.sectors)
      BY <1>3, <2>2 DEF DirRead, Lists, HoldsDirectory
    <3>2. root.spb \in Nat \ {0}
      BY <1>2, RootIs
    <3>3. position(op) \in Nat
      <4>1. PICK n \in Nat : op.blk_start = n * root.spb
        BY <1>3, <2>2 DEF DirRead, Lists, ListWith, Reached
      <4>2. position(op) = op.blk_start
        BY <2>2 DEF position
      <4> QED
        BY <3>2, <4>1, <4>2
    <3>4. l \in Nat
      BY ONLY <3>2, <3>3, DivMod
    <3> QED
      BY <1>6, <3>1, <3>2, <3>4, PathLeads
  <2> HIDE DEF b, path
  <2> QED
    BY <1>1, <1>6, <2>1, <2>2, DirResolved
<1> QED
  BY <1>4, <1>5, <1>6

\* A block has been read: one on the way, or one of the directory's.
LEMMA ListBlock ==
    ASSUME StorageInv, RootInv, ReadInv, ListInv, block_read
    PROVE  ListInv'
<1> DEFINE P == root.spb
           dir == disk.dirs[op.ino]
           f == dir.sectors
           l == position(op) \div P
           block == [i \in DOMAIN res.data |-> got(i)]
           o == IF op.what = "list" THEN listed(op, block) ELSE copied(op, block)
<1>1. /\ step = "ret" /\ op.at = "block" /\ Truthful
      /\ UNCHANGED <<disk, base, parts, root, result>>
  BY DEF block_read, Reply
<1>2. /\ ~res.ok => resolve(0, << >>)
      /\ res.ok /\ op.path # << >> => resolve(got(op.path[1] + 1), Tail(op.path))
      /\ res.ok /\ op.path = << >> => op' = [o EXCEPT !.at = "turn"]
  <2>1. ~res.ok => resolve(0, << >>)
    BY Zenon DEF block_read
  <2>2. res.ok /\ op.path # << >> => resolve(got(op.path[1] + 1), Tail(op.path))
    BY Zenon DEF block_read
  <2>3. res.ok /\ op.path = << >> => op' = [o EXCEPT !.at = "turn"]
    BY Zenon DEF block_read
  <2> QED
    BY <2>1, <2>2, <2>3
<1>3. /\ result = None /\ root # None /\ DOMAIN op = Fields
  BY <1>1, NoResult DEF ReadInv, ReadingOK, OpenAs
<1>4. op.what = "list" =>
        /\ op.ino \in DOMAIN disk.dirs /\ Lists(disk, base, P, op, dir)
        /\ more(op) /\ \E b : DirBlockOK(b)
  BY <1>1 DEF ListInv, ListingOK, DirRead
<1>5. P \in Nat \ {0}
  BY <1>3, RootIs
<1>6. CASE ~res.ok
  BY <1>1, <1>2, <1>6, DirResolved
<1> DEFINE Came(b, lba) ==
             /\ b # 0 /\ lba \in Nat /\ lba = base + b * P
             /\ Leads(disk, base, P, f, l, b, op.path) /\ DOMAIN res.data = 1..P
             /\ \A i \in 1..P : got(i) = sector(disk, lba + i - 1)
<1>7. ASSUME res.ok, op.what = "list"
      PROVE  \E b : \E lba : Came(b, lba)
  <2>1. PICK b : DirBlockOK(b)
    BY <1>4, <1>7
  <2> DEFINE lba == base + b * P
  <2>2. b # 0 /\ Calling(lba, P) /\ Leads(disk, base, P, f, l, b, op.path)
    BY <2>1 DEF DirBlockOK
  <2> HIDE DEF l, f, P
  <2>3. lba \in Nat /\ Answers(lba, P)
    BY <1>1, <1>7, <2>2, Answer DEF StorageInv
  <2> QED
    BY <2>2, <2>3 DEF Answers
<1>8. CASE res.ok /\ op.path # << >>
  <2>1. resolve(got(op.path[1] + 1), Tail(op.path))
    BY <1>2, <1>8
  <2>2. ASSUME op.what = "list"
        PROVE  Leads(disk, base, P, f, l, got(op.path[1] + 1), Tail(op.path))
    <3>1. PICK b, lba : Came(b, lba)
      BY <1>7, <1>8, <2>2
    <3> DEFINE i == op.path[1]
    <3> HIDE DEF f, l, P
    <3>2. /\ i \in 0..(P - 1)
          /\ Leads(disk, base, P, f, l, pointer(disk, base, P, b, i), Tail(op.path))
      BY <1>5, <1>8, <3>1, LeadsOn
    <3> HIDE DEF i
    <3>3. i + 1 \in 1..P /\ lba + (i + 1) - 1 = lba + i
      BY <1>5, <3>1, <3>2
    <3>4. got(i + 1) = sector(disk, lba + i)
      BY <3>1, <3>3
    <3>5. pointer(disk, base, P, b, i) = got(i + 1)
      BY <3>1, <3>4 DEF pointer
    <3> QED
      BY <3>2, <3>5 DEF i
  <2> QED
    BY <1>1, <1>4, <2>1, <2>2, DirResolved
<1>9. CASE res.ok /\ op.path = << >>
  <2>1. op' = [o EXCEPT !.at = "turn"]
    BY <1>2, <1>9
  <2>2. ListingIsComplete'
    BY <1>1, <1>3 DEF ListingIsComplete
  <2>3. CASE op.what # "list"
    <3>1. o = copied(op, block)
      BY <2>3
    <3>2. DOMAIN o = Fields /\ o.what = op.what
      BY <1>3, <3>1 DEF copied, Fields
    <3> HIDE DEF o
    <3>3. op'.what = op.what /\ op'.at = "turn"
      BY <2>1, <3>2 DEF Fields
    <3> QED
      BY <2>2, <2>3, <3>3 DEF ListInv, ListInodeOK, ListingOK
  <2>4. CASE op.what = "list"
    <3>1. PICK b, lba : Came(b, lba)
      BY <1>7, <1>9, <2>4
    <3>2. HoldsPart(disk, base, P, f, l, b)
      <4>1. \A i, j, k : op.path # <<i>> /\ op.path # <<i, j>> /\ op.path # <<i, j, k>>
        BY <1>9
      <4> HIDE DEF f, l, P
      <4> QED
        BY <3>1, <4>1 DEF Leads
    <3>3. \A i \in 1..P : block[i] = sector(disk, lba + i - 1)
      BY <3>1
    <3>4. o = listed(op, block)
      BY <2>4
    <3>5. l = op.blk_start \div P /\ op.blk_start < op.di.i_size
      BY <1>4, <2>4 DEF position, more
    <3>6. BlockAt(disk, base, P, op, dir, block) /\ Lists(disk, base, P, op, dir)
      BY <1>4, <2>4, <3>1, <3>2, <3>3, <3>5 DEF BlockAt
    <3>7. P = root.spb
      OBVIOUS
    <3> HIDE DEF block, P, dir
    <3>8. /\ Lists(disk, base, P, listed(op, block), dir)
          /\ DOMAIN listed(op, block) = Fields
          /\ listed(op, block).what = op.what /\ listed(op, block).ino = op.ino
      BY <1>3, <1>5, <3>5, <3>6, <3>7, BlockListed
    <3>9. /\ Lists(disk, base, P, o, dir) /\ DOMAIN o = Fields
          /\ o.what = op.what /\ o.ino = op.ino
      BY <3>4, <3>8
    <3> HIDE DEF o
    <3>10. Moves(o, "turn", << >>, op')
      BY <2>1 DEF Moves
    <3>11. /\ Lists(disk, base, P, op', dir) /\ op'.at = "turn" /\ op'.ino = op.ino
      BY <3>9, <3>10, DirMoved
    <3>12. DirRead(op)'
      BY <1>1, <1>4, <2>4, <3>11 DEF DirRead, P, dir
    <3> QED
      BY <2>2, <3>11, <3>12 DEF ListInv, ListInodeOK, ListingOK
  <2> QED
    BY <2>3, <2>4
<1> QED
  BY <1>6, <1>8, <1>9

\* A page is empty, and the listing ends, or the next one begins.
LEMMA ListReturns ==
    ASSUME RootInv, ReadInv, ListInv, list_turn
    PROVE  ListInv'
<1> DEFINE P == root.spb
           dir == disk.dirs[op.ino]
           r == next_page(op)
<1>1. /\ op.at = "returned" /\ op.what = "list"
      /\ UNCHANGED <<disk, base, parts, root, failed>>
      /\ op.page.written = 0 =>
           return([kind |-> "list", ino |-> op.ino, value |-> op.so_far])
      /\ op.page.written # 0 => op' = r /\ result' = result
  BY DEF list_turn, next_page
<1>2. result = None /\ root # None /\ DOMAIN op = Fields
  BY <1>1, NoResult DEF ReadInv, ReadingOK, OpenAs
<1>3. /\ op.ino \in DOMAIN disk.dirs /\ Lists(disk, base, P, op, dir)
      /\ ~failed => ~more(op)
  BY <1>1 DEF ListInv, ListingOK, DirRead
<1>4. P \in Nat \ {0}
  BY <1>2, RootIs
<1>5. /\ IsPrefix(op.so_far, dir.list)
      /\ op.page.written = 0 /\ ~more(op) => op.so_far = dir.list
      /\ Lists(disk, base, P, r, dir) /\ DOMAIN r = Fields
      /\ r.at = "turn" /\ r.what = op.what /\ r.ino = op.ino
  <2> HIDE DEF P, dir
  <2> QED
    BY <1>1, <1>2, <1>3, <1>4, PageEnds
<1> HIDE DEF r
<1>6. CASE op.page.written = 0
  <2>1. /\ op'.at = "idle" /\ result'.ino = op.ino /\ result'.value = op.so_far
    BY <1>1, <1>6 DEF return, idle
  <2>2. ListingIsComplete'
    BY <1>1, <1>3, <1>5, <1>6, <2>1 DEF ListingIsComplete
  <2> QED
    BY <2>1, <2>2 DEF ListInv, ListInodeOK, ListingOK
<1>7. CASE op.page.written # 0
  <2>1. op' = r /\ result' = None
    BY <1>1, <1>2, <1>7
  <2>2. DirRead(op)'
    BY <1>1, <1>3, <1>5, <2>1 DEF DirRead
  <2> QED
    BY <1>5, <2>1, <2>2 DEF ListInv, ListInodeOK, ListingOK, ListingIsComplete
<1> QED
  BY <1>6, <1>7

\* The other calls list nothing.
LEMMA OthersList ==
    ASSUME RootInv, ReadInv, whole_turn \/ read_returns
    PROVE  ListInv'
<1>1. op.at = "returned" /\ op.what # "list" /\ result = None /\ DOMAIN op = Fields
  <2>1. op.at = "returned" /\ op.what # "list"
    BY DEF whole_turn, read_returns
  <2> QED
    BY <2>1, NoResult DEF ReadInv, ReadingOK, OpenAs
<1>2. ASSUME NEW k \in {"whole", "read"}, NEW v, return([kind |-> k, ino |-> op.ino, value |-> v])
      PROVE  ListInv'
  <2>1. op'.at = "idle" /\ result'.kind = k
    BY <1>2 DEF return, idle
  <2> QED
    BY <2>1 DEF ListInv, ListInodeOK, ListingOK, ListingIsComplete
<1>3. CASE read_returns
  BY <1>2, <1>3 DEF read_returns
<1>4. CASE whole_turn
  <2> DEFINE so_far == op.so_far \o op.data
             o == [op EXCEPT !.so_far = so_far]
  <2>1. \/ \E v : return([kind |-> "whole", ino |-> op.ino, value |-> v])
        \/ op' = read_from(o, Len(so_far), op.di.i_size - Len(so_far)) /\ result' = result
    BY <1>4 DEF whole_turn
  <2>2. DOMAIN o = Fields /\ o.what = op.what
    BY <1>1 DEF Fields
  <2> HIDE DEF o, so_far
  <2>3. ASSUME op' = read_from(o, Len(so_far), op.di.i_size - Len(so_far)), result' = result
        PROVE  ListInv'
    <3>1. op'.what = op.what /\ op'.at = "turn" /\ result' = None
      BY <1>1, <2>2, <2>3 DEF read_from, Fields
    <3> QED
      BY <1>1, <3>1 DEF ListInv, ListInodeOK, ListingOK, ListingIsComplete
  <2> QED
    BY <1>2, <2>1, <2>3
<1> QED
  BY <1>3, <1>4

\* The scan and the mount list nothing.
LEMMA MountingLists ==
    ASSUME RootInv,
           begin_init \/ scan_mbr \/ scan_gpt \/ scan_entry \/ mount_super \/ mount_bgdt
    PROVE  ListInv'
<1>1. op'.at \in Off /\ (result' # None => result'.kind = "mounted")
  BY MountingIs
<1> QED
  BY <1>1 DEF Off, ListInv, ListInodeOK, ListingOK, ListingIsComplete

\* No step disturbs a listing.
LEMMA ListInvStep ==
    ASSUME StorageInv, RootInv, ReadInv, ListInv, [Next]_vars
    PROVE  ListInv'
<1>1. ASSUME UNCHANGED fsVars,
             InProgress => InProgress' /\ rd'.lba = rd.lba /\ rd'.count = rd.count
      PROVE  ListInv'
  <2>1. UNCHANGED <<disk, base, parts, root, op, failed, result>>
    BY <1>1 DEF fsVars
  <2>2. position(op)' = position(op) /\ more(op)' = more(op)
    BY <2>1 DEF position, more
  <2>3. ASSUME NEW b, DirBlockOK(b) PROVE DirBlockOK(b)'
    BY <1>1, <2>1, <2>2, <2>3 DEF DirBlockOK, Calling
  <2>4. DirRead(op)' = DirRead(op)
    BY <2>1 DEF DirRead
  <2>5. ListingOK'
    BY <2>1, <2>2, <2>3, <2>4 DEF ListInv, ListingOK
  <2> QED
    BY <2>1, <2>5 DEF ListInv, ListInodeOK, ListingIsComplete
<1>2. CASE \/ (no_port \/ \E identify \in BOOLEAN : init_port(identify)) /\ UNCHANGED fsVars
           \/ (driver \/ drive) /\ UNCHANGED fsVars
  BY <1>1, <1>2, CallStands DEF StorageInv
<1>3. CASE begin_init \/ scan_mbr \/ scan_gpt \/ scan_entry \/ mount_super \/ mount_bgdt
  BY <1>3, MountingLists
<1>4. CASE Using
  BY <1>4, ListFetch, ListTurn, ListBlock, ListReturns, OthersList, ListCalls DEF Using
<1>5. CASE garbage
  <2>1. op'.at = "idle" /\ UNCHANGED <<disk, failed, result>>
    BY <1>5 DEF garbage, idle
  <2> QED
    BY <2>1 DEF ListInv, ListInodeOK, ListingOK, ListingIsComplete
<1>6. CASE UNCHANGED vars
  <2>1. UNCHANGED fsVars /\ UNCHANGED <<step, rd>>
    BY <1>6 DEF vars, ahciVars, cpu_side
  <2> QED
    BY <1>1, <2>1 DEF InProgress
<1> QED
  BY <1>2, <1>3, <1>4, <1>5, <1>6 DEF Next, file_system, Using

\* ListingIsComplete (ext2_readdir(), lookup_path(), getdents64()): on any disk that
\* holds directories, with deleted entries and entries hidden behind longer records,
\* of any number of blocks, a listing read page by page is the names in use, each
\* once and in order, and all of them unless a read failed or it met a hole.
THEOREM ListingSafety == Spec => []ListingIsComplete
<1>1. Init => ListInv
  BY DEF Init, ListInv, ListInodeOK, ListingOK, ListingIsComplete
<1>2. StorageInv /\ RootInv /\ ReadInv /\ ListInv /\ [Next]_vars => ListInv'
  BY ListInvStep
<1>3. ListInv => ListingIsComplete
  BY DEF ListInv
<1> QED
  BY <1>1, <1>2, <1>3, FileInvariant, PTL DEF Spec

=============================================================================
