---------------------------- MODULE FilesProofs ----------------------------
(***************************************************************************)
(* Proofs about Files: no File object leaks while a task that may still    *)
(* close it lives, no descriptor dangles as long as programs close only    *)
(* what no other task has open, open() finds what the archive holds, and   *)
(* the calls behave as Descriptors says.                                   *)
(*                                                                         *)
(* FilesAreHeld needs only that the tables are tables.  DescriptorsAreLive *)
(* is not inductive: close() clears one slot, so a second slot of the same *)
(* task with the same File would dangle.  OneSlotEach excludes it: open()  *)
(* takes a block no descriptor names, and fork() copies a whole table.     *)
(*                                                                         *)
(* The folds and recursive functions of Tarfs and Files are reasoned about *)
(* in two steps: a function that satisfies the recursion is built by a     *)
(* least-counterexample argument, so the CHOSEN one satisfies it too; then *)
(* the property holds of each of its values, by the same argument.         *)
(***************************************************************************)
EXTENDS FilesRefinement, NumberFacts, FiniteSetTheorems, TLAPS

\* One File in each allocated block, one table for each task that runs.
TablesOK ==
    /\ file = [b \in Block |-> file[b]] /\ lost \subseteq Block
    /\ fds \in [Task -> [Fd -> Block \cup {NULL}] \cup {NULL}]

\* A task has a File in at most one slot.
OneSlotEach ==
    \A t \in Live : \A f, g \in Fd :
        fds[t][f] # NULL /\ fds[t][f] = fds[t][g] => f = g

HeldInv == TablesOK /\ FilesAreHeld

\* What an allocated block holds is a File.
BlocksHoldFiles ==
    \A b \in Block : file[b] # NULL =>
        file[b] = [inode |-> file[b].inode, offset |-> file[b].offset, id |-> file[b].id]

LiveInv == TablesOK /\ BlocksHoldFiles /\ DescriptorsAreLive /\ OneSlotEach

\* A null pointer is not a File.
NullIsNoFile ==
    \A inode, offset, id : [inode |-> inode, offset |-> offset, id |-> id] # NULL

----------------------------------------------------------------------------

\* The descriptor tables with one slot written.
written(t, fd, v) == [fds EXCEPT ![t][fd] = v]

\* alloc_fd() gives out a slot that is free.
LEMMA AllocatedIsFree ==
    ASSUME NEW t, alloc_fd(t) # NULL
    PROVE  alloc_fd(t) \in Fd /\ fds[t][alloc_fd(t)] = NULL
<1>1. FreeFds(t) \subseteq Nat
  BY FilesAssumption DEF FreeFds, Fd
<1>2. Min(FreeFds(t)) \in FreeFds(t)
  BY <1>1, MinIsLeast DEF alloc_fd
<1> QED
  BY <1>2 DEF alloc_fd, FreeFds

\* open(), in terms of what it does to the table and the blocks: nothing, or
\* the File is back in the heap, or it is in a slot that was free.
LEMMA OpenSteps ==
    ASSUME NEW t \in Task, NEW path \in Path, sys_openat(t, path)
    PROVE  \/ UNCHANGED <<file, fds>>
           \/ \E b \in Block :
                /\ file[b] = NULL /\ file' = [file EXCEPT ![b] = NULL]
                /\ UNCHANGED fds
           \/ \E b \in Block, fd \in Fd :
                /\ file[b] = NULL /\ fds[t][fd] = NULL
                /\ file' = [file EXCEPT ![b] = NewFile(target(path))]
                /\ fds' = written(t, fd, b)
<1>1. CASE target(path) = NULL
  BY <1>1 DEF sys_openat
<1>2. CASE target(path) # NULL
  <2> DEFINE fd == alloc_fd(t)
  <2>1. PICK b \in Block :
          /\ file[b] = NULL
          /\ file' = [file EXCEPT ![b] = keep_or_free(fd, NewFile(target(path)))]
          /\ IF fd = NULL THEN Fails("EMFILE") /\ UNCHANGED fds
             ELSE ret' = [fd |-> fd] /\ fds' = [fds EXCEPT ![t][fd] = b]
    BY <1>2 DEF sys_openat
  <2>2. CASE fd = NULL
    BY <2>1, <2>2 DEF keep_or_free
  <2>3. CASE fd # NULL
    <3>1. fd \in Fd /\ fds[t][fd] = NULL
      BY <2>3, AllocatedIsFree
    <3>2. file' = [file EXCEPT ![b] = NewFile(target(path))]
      BY <2>1, <2>3 DEF keep_or_free
    <3>3. fds' = written(t, fd, b)
      BY <2>1, <2>3 DEF written
    <3> QED
      BY <2>1, <3>1, <3>2, <3>3
  <2> QED
    BY <2>2, <2>3
<1> QED
  BY <1>1, <1>2

\* Tables with one slot written are tables, and differ in that slot only.
LEMMA SlotWrite ==
    ASSUME NEW t \in Task, NEW fd \in Fd, NEW v \in Block \cup {NULL}, TablesOK,
           fds[t] # NULL, fds' = written(t, fd, v)
    PROVE  /\ fds' \in [Task -> [Fd -> Block \cup {NULL}] \cup {NULL}]
           /\ fds'[t] # NULL /\ fds'[t][fd] = v
           /\ \A u \in Task : fds'[u] # NULL <=> fds[u] # NULL
           /\ \A u \in Task, g \in Fd : u # t \/ g # fd => fds'[u][g] = fds[u][g]
<1>1. fds[t] \in [Fd -> Block \cup {NULL}]
  BY DEF TablesOK
<1>2. [fds[t] EXCEPT ![fd] = v] \in [Fd -> Block \cup {NULL}]
  BY <1>1
<1>3. [fds[t] EXCEPT ![fd] = v] # NULL
  BY <1>2, FilesAssumption
<1>4. fds' = [fds EXCEPT ![t] = [fds[t] EXCEPT ![fd] = v]]
  BY DEF written
<1> QED
  BY <1>1, <1>2, <1>3, <1>4 DEF TablesOK

\* read(), getdents64() and lseek() write a File's offset and nothing else.
LEMMA OffsetSteps ==
    ASSUME NEW t \in Task, NEW fd \in Fd, NEW len, NEW whence, TablesOK,
           \/ sys_read(t, fd, len) \/ sys_getdents64(t, fd, len)
           \/ sys_lseek(t, fd, len, whence)
    PROVE  /\ UNCHANGED <<fds, lost>>
           /\ UNCHANGED file \/ \E b \in Block : fds[t][fd] = b /\ \E p : set_offset(b, p)
<1> DEFINE b == real_file(t, fd)
<1>1. b = fds[t][fd] /\ (b # NULL => b \in Block)
  BY DEF real_file, TablesOK, sys_read, sys_getdents64, sys_lseek, Live
<1>2. UNCHANGED <<fds, lost>>
  BY DEF sys_read, sys_getdents64, sys_lseek
<1>3. CASE sys_read(t, fd, len)
  BY <1>1, <1>2, <1>3 DEF sys_read
<1>4. CASE sys_getdents64(t, fd, len)
  BY <1>1, <1>2, <1>4 DEF sys_getdents64
<1>5. CASE sys_lseek(t, fd, len, whence)
  BY <1>1, <1>2, <1>5 DEF sys_lseek
<1> QED
  BY <1>3, <1>4, <1>5

----------------------------------------------------------------------------
(* No File leaks *)

LEMMA HeldInit == Init => HeldInv
  BY DEF Init, HeldInv, TablesOK, FilesAreHeld

\* Every call keeps a File that is still allocated in some task's table, or
\* counts it as lost with the task that had it.
LEMMA HeldStep == HeldInv /\ [Next]_vars => HeldInv'
<1> SUFFICES ASSUME HeldInv, [Next]_vars PROVE HeldInv'
  OBVIOUS
<1> USE FilesAssumption DEF HeldInv, TablesOK, FilesAreHeld, Holders, Live
<1>1. ASSUME UNCHANGED <<file, fds, lost>> PROVE HeldInv'
  BY <1>1
<1>2. CASE kernel_main \/ tick \/ UNCHANGED vars
  BY <1>1, <1>2 DEF kernel_main, tick, vars
<1>3. ASSUME NEW t \in Task, spawn(t) PROVE HeldInv'
  <2>1. fds' = [fds EXCEPT ![t] = [fd \in Fd |-> NULL]] /\ UNCHANGED <<file, lost>>
    BY <1>3 DEF spawn
  <2>2. fds[t] = NULL
    BY <1>3 DEF spawn
  <2> QED
    BY <2>1, <2>2
<1>4. ASSUME NEW t \in Task, exit(t) PROVE HeldInv'
  <2>1. fds' = [fds EXCEPT ![t] = NULL] /\ UNCHANGED file
        /\ lost' = lost \cup {b \in Block : Holders(b) = {t}}
    BY <1>4 DEF exit
  <2>2. TablesOK'
    BY <2>1
  <2>3. ASSUME NEW b \in Block, file[b] # NULL, b \notin lost, Holders(b) # {t}
        PROVE  (Holders(b) # {})'
    <3>1. PICK u \in Holders(b) : u # t
      BY <2>3
    <3> QED
      BY <3>1, <2>1
  <2> QED
    BY <2>1, <2>2, <2>3
<1>5. ASSUME NEW t \in Task, NEW c \in Task, sys_fork(t, c) PROVE HeldInv'
  <2>1. fds' = [fds EXCEPT ![c] = fds[t]] /\ UNCHANGED <<file, lost>>
    BY <1>5 DEF sys_fork
  <2>2. fds[c] = NULL /\ fds[t] # NULL
    BY <1>5 DEF sys_fork
  <2> QED
    BY <2>1, <2>2
<1>6. ASSUME NEW t \in Task, NEW path \in Path, sys_openat(t, path) PROVE HeldInv'
  <2>0. UNCHANGED lost /\ fds[t] # NULL
    BY <1>6 DEF sys_openat
  <2>1. CASE UNCHANGED <<file, fds>>
    BY <2>0, <2>1, <1>1
  <2>2. ASSUME NEW b \in Block, file[b] = NULL,
               file' = [file EXCEPT ![b] = NULL], UNCHANGED fds
        PROVE  HeldInv'
    BY <2>0, <2>2
  <2>3. ASSUME NEW b \in Block, NEW fd \in Fd, file[b] = NULL, fds[t][fd] = NULL,
               file' = [file EXCEPT ![b] = NewFile(target(path))],
               fds' = written(t, fd, b)
        PROVE  HeldInv'
    <3>0. /\ fds' \in [Task -> [Fd -> Block \cup {NULL}] \cup {NULL}]
          /\ fds'[t] # NULL /\ fds'[t][fd] = b
          /\ \A u \in Task : fds'[u] # NULL <=> fds[u] # NULL
          /\ \A u \in Task, g \in Fd : u # t \/ g # fd => fds'[u][g] = fds[u][g]
      BY <2>0, <2>3, SlotWrite
    <3>1. TablesOK'
      BY <2>0, <2>3, <3>0
    <3>2. ASSUME NEW d \in Block, d # b, NEW u \in Holders(d)
          PROVE  u \in Holders(d)'
      <4>1. PICK g \in Fd : fds[u][g] = d
        BY <3>2
      <4>2. fds'[u][g] = d /\ fds'[u] # NULL
        <5>1. fds[u][g] # fds[t][fd]
          BY <4>1, <3>2, <2>3
        <5> QED
          BY <4>1, <5>1, <3>0, <3>2
      <4> QED
        BY <4>2, <3>2
    <3>3. (Holders(b) # {})'
      BY <3>0
    <3>4. ASSUME NEW d \in Block, file'[d] # NULL
          PROVE  (Holders(d) # {})' \/ d \in lost'
      <4> HIDE DEF Holders
      <4>1. CASE d = b
        BY <4>1, <3>3
      <4>2. CASE d # b
        <5>1. file[d] # NULL
          BY <4>2, <3>4, <2>3
        <5>2. Holders(d) # {} \/ d \in lost
          BY <5>1
        <5> QED
          BY <5>2, <4>2, <3>2, <2>0
      <4> QED
        BY <4>1, <4>2
    <3> HIDE DEF Holders
    <3> QED
      BY <3>1, <3>4
  <2> QED
    BY <1>6, <2>1, <2>2, <2>3, OpenSteps
<1>7. ASSUME NEW t \in Task, NEW path \in Path, query(t, path) PROVE HeldInv'
  BY <1>1, <1>7 DEF query
<1>8. ASSUME NEW t \in Task, NEW fd \in Fd, sys_close(t, fd) PROVE HeldInv'
  <2>0. fds[t] # NULL /\ UNCHANGED lost
    BY <1>8 DEF sys_close
  <2>1. CASE fds[t][fd] = NULL
    BY <1>1, <1>8, <2>0, <2>1 DEF sys_close, real_file
  <2>2. CASE fds[t][fd] # NULL
    <3> DEFINE b == fds[t][fd]
    <3>1. b \in Block
      BY <2>0, <2>2
    <3>2. file' = [file EXCEPT ![b] = NULL] /\ fds' = written(t, fd, NULL)
      BY <1>8, <2>2 DEF sys_close, real_file, table_after_close, written
    <3>0. /\ fds' \in [Task -> [Fd -> Block \cup {NULL}] \cup {NULL}]
          /\ fds'[t] # NULL /\ fds'[t][fd] = NULL
          /\ \A u \in Task : fds'[u] # NULL <=> fds[u] # NULL
          /\ \A u \in Task, g \in Fd : u # t \/ g # fd => fds'[u][g] = fds[u][g]
      BY <2>0, <3>2, SlotWrite
    <3>3. TablesOK'
      BY <2>0, <3>0, <3>1, <3>2
    <3>4. ASSUME NEW d \in Block, d # b, NEW u \in Holders(d)
          PROVE  u \in Holders(d)'
      <4>1. PICK g \in Fd : fds[u][g] = d
        BY <3>4
      <4>2. fds'[u][g] = d /\ fds'[u] # NULL
        BY <4>1, <3>0, <3>4
      <4> QED
        BY <4>2, <3>4
    <3>5. ASSUME NEW d \in Block, file'[d] # NULL
          PROVE  (Holders(d) # {})' \/ d \in lost'
      <4> HIDE DEF Holders
      <4>1. d # b /\ file[d] # NULL
        BY <3>1, <3>2, <3>5
      <4> QED
        <5>1. Holders(d) # {} \/ d \in lost
          BY <4>1
        <5> QED
          BY <5>1, <4>1, <3>4, <2>0
    <3> HIDE DEF Holders
    <3> QED
      BY <3>3, <3>5
  <2> QED
    BY <2>1, <2>2
<1>9. ASSUME NEW t \in Task, NEW fd \in Fd, sys_fstat(t, fd) PROVE HeldInv'
  BY <1>1, <1>9 DEF sys_fstat
<1>10. ASSUME NEW t \in Task, NEW fd \in Fd, NEW len, NEW whence,
              \/ sys_read(t, fd, len) \/ sys_getdents64(t, fd, len)
              \/ sys_lseek(t, fd, len, whence)
       PROVE  HeldInv'
  <2>0. UNCHANGED <<fds, lost>> /\ fds[t] # NULL
    BY <1>10, OffsetSteps DEF sys_read, sys_getdents64, sys_lseek
  <2>1. ASSUME NEW b \in Block, NEW p, fds[t][fd] = b, set_offset(b, p)
        PROVE  HeldInv'
    <3>1. t \in Holders(b)'
      BY <2>0, <2>1
    <3>2. TablesOK' /\ \A d \in Block : d # b => file'[d] = file[d]
      BY <2>0, <2>1 DEF set_offset
    <3>3. ASSUME NEW d \in Block PROVE Holders(d)' = Holders(d)
      BY <2>0
    <3> HIDE DEF Holders
    <3> QED
      BY <2>0, <3>1, <3>2, <3>3
  <2> QED
    BY <1>1, <1>10, <2>0, <2>1, OffsetSteps
<1> QED
  BY <1>2, <1>3, <1>4, <1>5, <1>6, <1>7, <1>8, <1>9, <1>10 DEF Next

\* A File object that no descriptor names is back in the heap, whatever the
\* order of open(), close(), fork() and exit(), unless its last task exited
\* with it open.
THEOREM FilesSafety == Spec => []FilesAreHeld
<1>1. HeldInv => FilesAreHeld
  BY DEF HeldInv
<1> QED
  BY <1>1, HeldInit, HeldStep, PTL DEF Spec

----------------------------------------------------------------------------
(* No descriptor dangles *)

LEMMA LiveInit == Init => LiveInv
  BY DEF Init, LiveInv, TablesOK, BlocksHoldFiles, DescriptorsAreLive,
     OneSlotEach, Live

\* As long as close() is called on Files of one task only, every call keeps
\* the table slots pointing at Files that are allocated.
LEMMA LiveStep ==
    ASSUME NullIsNoFile, TRUE \notin SharedClose
    PROVE  LiveInv /\ [Next]_vars => LiveInv'
<1> SUFFICES ASSUME LiveInv, [Next]_vars PROVE LiveInv'
  OBVIOUS
<1> USE FilesAssumption DEF LiveInv, TablesOK, BlocksHoldFiles,
        DescriptorsAreLive, OneSlotEach, Live
<1>1. ASSUME UNCHANGED <<file, fds, lost>> PROVE LiveInv'
  BY <1>1
<1>2. CASE kernel_main \/ tick \/ UNCHANGED vars
  BY <1>1, <1>2 DEF kernel_main, tick, vars
<1>3. ASSUME NEW t \in Task, spawn(t) PROVE LiveInv'
  <2>1. fds' = [fds EXCEPT ![t] = [fd \in Fd |-> NULL]] /\ UNCHANGED <<file, lost>>
    BY <1>3 DEF spawn
  <2> QED
    BY <2>1
<1>4. ASSUME NEW t \in Task, exit(t) PROVE LiveInv'
  <2>1. fds' = [fds EXCEPT ![t] = NULL] /\ UNCHANGED file
        /\ lost' = lost \cup {b \in Block : Holders(b) = {t}}
    BY <1>4 DEF exit
  <2> QED
    BY <2>1
<1>5. ASSUME NEW t \in Task, NEW c \in Task, sys_fork(t, c) PROVE LiveInv'
  <2>1. fds' = [fds EXCEPT ![c] = fds[t]] /\ UNCHANGED <<file, lost>>
    BY <1>5 DEF sys_fork
  <2>2. fds[t] # NULL
    BY <1>5 DEF sys_fork
  <2> QED
    BY <2>1, <2>2
<1>6. ASSUME NEW t \in Task, NEW path \in Path, sys_openat(t, path) PROVE LiveInv'
  <2>0. UNCHANGED lost /\ fds[t] # NULL
    BY <1>6 DEF sys_openat
  <2>1. CASE UNCHANGED <<file, fds>>
    BY <2>0, <2>1, <1>1
  <2>2. ASSUME NEW b \in Block, file[b] = NULL,
               file' = [file EXCEPT ![b] = NULL], UNCHANGED fds
        PROVE  LiveInv'
    BY <2>0, <2>2
  <2>3. ASSUME NEW b \in Block, NEW fd \in Fd, file[b] = NULL, fds[t][fd] = NULL,
               file' = [file EXCEPT ![b] = NewFile(target(path))],
               fds' = written(t, fd, b)
        PROVE  LiveInv'
    <3>0. /\ fds' \in [Task -> [Fd -> Block \cup {NULL}] \cup {NULL}]
          /\ fds'[t] # NULL /\ fds'[t][fd] = b
          /\ \A u \in Task : fds'[u] # NULL <=> fds[u] # NULL
          /\ \A u \in Task, g \in Fd : u # t \/ g # fd => fds'[u][g] = fds[u][g]
      BY <2>0, <2>3, SlotWrite
    <3>1. file'[b] # NULL /\ file'[b] = NewFile(target(path))
          /\ \A c \in Block : c # b => file'[c] = file[c]
      BY <2>3 DEF NullIsNoFile, NewFile
    <3>2. TablesOK'
      BY <2>0, <2>3, <3>0
    <3>3. BlocksHoldFiles'
      BY <3>1 DEF NewFile
    <3>4. \A u \in Task, g \in Fd : fds[u] # NULL => fds[u][g] # b
      BY <2>3
    <3>5. DescriptorsAreLive'
      BY <3>0, <3>1, <3>4
    <3>6. OneSlotEach'
      BY <3>0, <3>4
    <3> QED
      BY <3>2, <3>3, <3>5, <3>6
  <2> QED
    BY <1>6, <2>1, <2>2, <2>3, OpenSteps
<1>7. ASSUME NEW t \in Task, NEW path \in Path, query(t, path) PROVE LiveInv'
  BY <1>1, <1>7 DEF query
<1>8. ASSUME NEW t \in Task, NEW fd \in Fd, sys_close(t, fd) PROVE LiveInv'
  <2>0. fds[t] # NULL /\ UNCHANGED lost
    BY <1>8 DEF sys_close
  <2>1. CASE fds[t][fd] = NULL
    BY <1>1, <1>8, <2>0, <2>1 DEF sys_close, real_file
  <2>2. CASE fds[t][fd] # NULL
    <3> DEFINE b == fds[t][fd]
    <3>1. b \in Block
      BY <2>0, <2>2
    <3>2. file' = [file EXCEPT ![b] = NULL] /\ fds' = written(t, fd, NULL)
      BY <1>8, <2>2 DEF sys_close, real_file, table_after_close, written
    <3>3. Holders(b) = {t}
      BY <1>8, <2>2 DEF sys_close, real_file
    <3>0. /\ fds' \in [Task -> [Fd -> Block \cup {NULL}] \cup {NULL}]
          /\ fds'[t] # NULL /\ fds'[t][fd] = NULL
          /\ \A u \in Task : fds'[u] # NULL <=> fds[u] # NULL
          /\ \A u \in Task, g \in Fd : u # t \/ g # fd => fds'[u][g] = fds[u][g]
      BY <2>0, <3>2, SlotWrite
    <3>4. TablesOK' /\ BlocksHoldFiles'
      BY <2>0, <3>0, <3>1, <3>2
    <3>5. OneSlotEach'
      BY <3>0
    <3>6. ASSUME NEW u \in Task, NEW g \in Fd, fds'[u] # NULL, fds'[u][g] # NULL
          PROVE  file'[fds'[u][g]] # NULL
      <4>1. (u # t \/ g # fd) /\ fds'[u][g] = fds[u][g] /\ fds[u] # NULL
        BY <3>0, <3>6
      <4>2. fds[u][g] # b
        BY <4>1, <3>3, <2>2 DEF Holders
      <4> QED
        BY <4>1, <4>2, <3>2, <3>6
    <3> QED
      BY <3>4, <3>5, <3>6
  <2> QED
    BY <2>1, <2>2
<1>9. ASSUME NEW t \in Task, NEW fd \in Fd, sys_fstat(t, fd) PROVE LiveInv'
  BY <1>1, <1>9 DEF sys_fstat
<1>10. ASSUME NEW t \in Task, NEW fd \in Fd, NEW len, NEW whence,
              \/ sys_read(t, fd, len) \/ sys_getdents64(t, fd, len)
              \/ sys_lseek(t, fd, len, whence)
       PROVE  LiveInv'
  <2>0. UNCHANGED <<fds, lost>> /\ fds[t] # NULL
    BY <1>10, OffsetSteps DEF sys_read, sys_getdents64, sys_lseek
  <2>1. ASSUME NEW b \in Block, NEW p, fds[t][fd] = b, set_offset(b, p)
        PROVE  LiveInv'
    <3>1. file[b] = [inode |-> file[b].inode, offset |-> file[b].offset, id |-> file[b].id]
      BY <2>0, <2>1
    <3>2. file'[b] = [inode |-> file[b].inode, offset |-> p, id |-> file[b].id]
          /\ (\A c \in Block : c # b => file'[c] = file[c])
          /\ file' = [c \in Block |-> file'[c]]
      BY <2>1, <3>1 DEF set_offset
    <3>3. file'[b] # NULL
      BY <3>2 DEF NullIsNoFile
    <3> QED
      BY <2>0, <2>1, <3>2, <3>3
  <2> QED
    BY <1>1, <1>10, <2>0, <2>1, OffsetSteps
<1> QED
  BY <1>2, <1>3, <1>4, <1>5, <1>6, <1>7, <1>8, <1>9, <1>10 DEF Next

\* Where no task closes what another has open too, every open descriptor points
\* at a File that is allocated: open() into a full table, fork(), exit() and the
\* reuse of blocks never leave a stale pointer behind.
THEOREM DescriptorSafety ==
    ASSUME NullIsNoFile, TRUE \notin SharedClose
    PROVE  Spec => []DescriptorsAreLive
<1>1. LiveInv => DescriptorsAreLive
  BY DEF LiveInv
<1>2. LiveInv /\ [Next]_vars => LiveInv'
  BY LiveStep
<1> QED
  BY <1>1, <1>2, LiveInit, PTL DEF Spec

----------------------------------------------------------------------------
(* Paging through a directory *)

Dirent == [ino : Int, name : Name]

\* The bytes of one directory entry.
EntrySize(d) == DIRENT_HEAD + NameLen[d.name]

LEMMA EntrySizeIs ==
    ASSUME NEW d \in Dirent
    PROVE  EntrySize(d) \in Nat /\ 0 < EntrySize(d) /\ EntrySize(d) <= chunk_size
           /\ NameLen[d.name] \in Nat
<1>1. d.name \in Name
  BY DEF Dirent
<1>2. NameLen[d.name] \in 1..99 /\ DIRENT_HEAD + NameLen[d.name] <= chunk_size
  BY <1>1, TarfsAssumption, Zenon
<1> QED
  BY <1>2 DEF EntrySize, DIRENT_HEAD

\* Where the entries of a listing start, as readdir() counts them.
IsPos(list, p) ==
    p = [k \in 1..(Len(list) + 1) |->
           IF k = 1 THEN 0 ELSE p[k - 1] + DIRENT_HEAD + NameLen[list[k - 1].name]]
Pos(list) == CHOOSE p : IsPos(list, p)

LEMMA PosIs ==
    ASSUME NEW list \in Seq(Dirent)
    PROVE  /\ Pos(list)[1] = 0
           /\ \A k \in 1..(Len(list) + 1) : Pos(list)[k] \in Nat
           /\ \A k \in 1..Len(list) : Pos(list)[k + 1] = Pos(list)[k] + EntrySize(list[k])
<1> DEFINE n == Len(list)
           w == [k \in 1..n |-> EntrySize(list[k])]
           P == Pos(list)
<1>0. n \in Nat
  OBVIOUS
<1>1. \A k \in 1..n : list[k] \in Dirent /\ NameLen[list[k].name] \in Nat
                      /\ EntrySize(list[k]) \in Nat /\ w[k] = EntrySize(list[k])
  <2>1. \A k \in 1..n : list[k] \in Dirent
    OBVIOUS
  <2> QED
    BY <2>1, EntrySizeIs
<1> HIDE DEF n, w
<1> DEFINE add == [k \in 1..n |-> [a \in Nat |-> a + w[k]]]
<1>a. \A a \in Nat, k \in 1..n : add[k][a] = a + w[k] /\ a + w[k] \in Nat
  BY <1>1
<1> HIDE DEF add
<1>2. PICK f \in [SUBSET (1..n) -> Nat] : FoldsUp(n, 0, add, f)
  <2>1. \A a \in Nat, k \in 1..n : add[k][a] \in Nat
    BY <1>a
  <2>2. 0 \in Nat
    OBVIOUS
  <2> QED
    BY <1>0, <2>1, <2>2, FoldsExist
<1>3. f[1..0] = 0 /\ \A m \in 1..n : f[1..m] = f[1..(m - 1)] + w[m]
  <2>1. f[1..0] = 0 /\ \A m \in 1..n : f[1..m] = add[m][f[1..(m - 1)]]
    BY <1>0, <1>2, FoldSteps
  <2>2. \A m \in 1..n : 1..(m - 1) \in SUBSET (1..n)
    BY <1>0
  <2> QED
    BY <1>2, <1>a, <2>1, <2>2
<1> DEFINE q == [k \in 1..(n + 1) |-> f[1..(k - 1)]]
<1>4. \A k \in 1..(n + 1) : q[k] \in Nat
  <2>1. \A k \in 1..(n + 1) : 1..(k - 1) \in SUBSET (1..n)
    BY <1>0
  <2> QED
    BY <1>2, <2>1
<1>5. q[1] = 0
  <2>1. 1 \in 1..(n + 1) /\ 1 - 1 = 0
    BY <1>0
  <2> QED
    BY <1>3, <2>1
<1>6. ASSUME NEW k \in 2..(n + 1)
      PROVE  q[k] = q[k - 1] + DIRENT_HEAD + NameLen[list[k - 1].name]
  <2>1. k - 1 \in 1..n /\ k \in 1..(n + 1) /\ k - 1 \in 1..(n + 1)
    BY <1>0
  <2>2. q[k] = f[1..(k - 1)] /\ q[k - 1] = f[1..((k - 1) - 1)]
    BY <2>1
  <2>3. f[1..(k - 1)] = f[1..((k - 1) - 1)] + w[k - 1]
    BY <1>3, <2>1
  <2>4. w[k - 1] = DIRENT_HEAD + NameLen[list[k - 1].name] /\ NameLen[list[k - 1].name] \in Nat
        /\ q[k - 1] \in Nat
    BY <1>1, <1>4, <2>1 DEF EntrySize
  <2> HIDE DEF q
  <2>5. q[k - 1] \in Int /\ DIRENT_HEAD \in Int /\ NameLen[list[k - 1].name] \in Int
    BY <2>4 DEF DIRENT_HEAD
  <2>6. q[k] = q[k - 1] + (DIRENT_HEAD + NameLen[list[k - 1].name])
    BY <2>2, <2>3, <2>4
  <2> QED
    BY <2>5, <2>6, AddAssoc, Zenon
<1>7. IsPos(list, q)
  <2>1. q = [k \in 1..(n + 1) |-> q[k]]
    OBVIOUS
  <2> HIDE DEF q
  <2>2. q = [k \in 1..(n + 1) |->
               IF k = 1 THEN 0 ELSE q[k - 1] + DIRENT_HEAD + NameLen[list[k - 1].name]]
    <3>1. \A k \in 1..(n + 1) : k # 1 => k \in 2..(n + 1)
      BY <1>0
    <3>2. \A k \in 1..(n + 1) :
            q[k] = IF k = 1 THEN 0 ELSE q[k - 1] + DIRENT_HEAD + NameLen[list[k - 1].name]
      BY <1>5, <1>6, <3>1, Zenon
    <3> QED
      BY <2>1, <3>2, Zenon
  <2> QED
    BY <2>2 DEF IsPos, n
<1>8. IsPos(list, P)
  <2> HIDE DEF q
  <2> QED
    BY <1>7 DEF Pos
<1> HIDE DEF P
<1>9. P[1] = 0 /\ \A k \in 1..n : P[k + 1] = P[k] + DIRENT_HEAD + NameLen[list[k].name]
  <2>1. P = [k \in 1..(n + 1) |->
               IF k = 1 THEN 0 ELSE P[k - 1] + DIRENT_HEAD + NameLen[list[k - 1].name]]
    BY <1>8 DEF IsPos, n
  <2>2. \A k \in 1..n : k + 1 \in 1..(n + 1) /\ k + 1 # 1 /\ (k + 1) - 1 = k
    BY <1>0
  <2>3. 1 \in 1..(n + 1)
    BY <1>0
  <2> QED
    BY <2>1, <2>2, <2>3
<1> DEFINE Bad == {k \in 1..(n + 1) : P[k] \notin Nat}
<1>10. Bad = {}
  <2> SUFFICES ASSUME Bad # {} PROVE FALSE
    OBVIOUS
  <2>1. PICK k \in Bad : \A j \in Bad : k <= j
    <3>1. Bad \subseteq Nat
      BY <1>0
    <3> HIDE DEF Bad
    <3> QED
      BY <3>1, LeastNatural
  <2>2. k # 1 /\ k - 1 \in 1..n /\ k - 1 \in 1..(n + 1)
    BY <1>0, <1>9, <2>1
  <2>3. P[k - 1] \in Nat
    BY <2>1, <2>2
  <2>4. P[(k - 1) + 1] = P[k - 1] + DIRENT_HEAD + NameLen[list[k - 1].name]
    BY <1>9, <2>2
  <2>5. (k - 1) + 1 = k /\ NameLen[list[k - 1].name] \in Nat
    BY <1>1, <2>1, <2>2
  <2> QED
    BY <2>1, <2>3, <2>4, <2>5 DEF DIRENT_HEAD
<1>11. \A k \in 1..(n + 1) : P[k] \in Nat
  BY <1>10
<1>12. ASSUME NEW k \in 1..n PROVE P[k + 1] = P[k] + EntrySize(list[k])
  <2>1. P[k + 1] = P[k] + DIRENT_HEAD + NameLen[list[k].name]
    BY <1>9
  <2>2. P[k] \in Nat /\ NameLen[list[k].name] \in Nat
    BY <1>0, <1>1, <1>11
  <2>3. P[k] \in Int /\ DIRENT_HEAD \in Int /\ NameLen[list[k].name] \in Int
    BY <2>2 DEF DIRENT_HEAD
  <2> QED
    BY <2>1, <2>3, AddAssoc, Zenon DEF EntrySize
<1> QED
  BY <1>9, <1>11, <1>12 DEF P, n

\* Entries start one behind the other.
LEMMA PosGrows ==
    ASSUME NEW list \in Seq(Dirent), NEW j \in 1..(Len(list) + 1),
           NEW k \in 1..(Len(list) + 1), j < k
    PROVE  Pos(list)[j] < Pos(list)[k]
<1> DEFINE n == Len(list)
           P == Pos(list)
           Bad == {m \in 1..(n + 1) : j < m /\ ~(P[j] < P[m])}
<1>0. n \in Nat
  OBVIOUS
<1>1. \A m \in 1..(n + 1) : P[m] \in Nat
  BY PosIs
<1>2. ASSUME NEW m \in 1..n PROVE P[m] < P[m + 1]
  <2>1. P[m + 1] = P[m] + EntrySize(list[m])
    BY PosIs
  <2>2. list[m] \in Dirent
    OBVIOUS
  <2>3. EntrySize(list[m]) \in Nat /\ 0 < EntrySize(list[m])
    BY <2>2, EntrySizeIs
  <2>4. P[m] \in Nat
    BY <1>0, <1>1
  <2> HIDE DEF P
  <2> QED
    BY <2>1, <2>3, <2>4
<1> HIDE DEF P, n
<1>3. Bad = {}
  <2> SUFFICES ASSUME Bad # {} PROVE FALSE
    OBVIOUS
  <2>1. PICK m \in Bad : \A i \in Bad : m <= i
    <3>1. Bad \subseteq Nat
      BY <1>0
    <3> HIDE DEF Bad
    <3> QED
      BY <3>1, LeastNatural
  <2>2. m - 1 \in 1..n /\ m - 1 \in 1..(n + 1) /\ j <= m - 1 /\ (m - 1) + 1 = m /\ j \in 1..(n + 1)
    BY <1>0, <2>1 DEF n
  <2>3. P[m - 1] < P[m] /\ P[m - 1] \in Nat /\ P[m] \in Nat /\ P[j] \in Nat
    BY <1>1, <1>2, <2>1, <2>2
  <2>4. P[j] < P[m - 1] \/ j = m - 1
    BY <2>1, <2>2
  <2>5. P[j] < P[m]
    <3>1. P[m - 1] \in Int /\ P[m] \in Int /\ P[j] \in Int
      BY <2>3
    <3> QED
      BY <2>3, <2>4, <3>1, LessTrans, Zenon
  <2> QED
    BY <2>1, <2>5
<1> QED
  BY <1>3 DEF n, P

\* The bytes of a page.
Bytes(page) == FoldLeft(LAMBDA n, d : n + DIRENT_HEAD + NameLen[d.name], 0, page)

LEMMA BytesOf ==
    ASSUME NEW page \in Seq(Dirent)
    PROVE  Bytes(page) = Pos(page)[Len(page) + 1]
<1> DEFINE n == Len(page)
           Q(f) == f = [s \in SUBSET (DOMAIN page) |->
                          IF s = {} THEN 0
                          ELSE LET x == Max(s)
                               IN  f[s \ {x}] + DIRENT_HEAD + NameLen[page[x].name]]
           iter == CHOOSE f : Q(f)
           w == [k \in 1..n |-> EntrySize(page[k])]
           P == Pos(page)
<1>0. n \in Nat /\ DOMAIN page = 1..n
  OBVIOUS
<1>1. Bytes(page) = iter[1..n]
  <2>1. Bytes(page) = iter[DOMAIN page]
    BY DEF Bytes, FoldLeft, MapThenFoldSet
  <2> QED
    BY <1>0, <2>1
<1>2. \A k \in 1..n : /\ NameLen[page[k].name] \in Nat /\ w[k] \in Nat
                      /\ w[k] = EntrySize(page[k])
  <2>1. \A k \in 1..n : page[k] \in Dirent
    OBVIOUS
  <2> QED
    BY <2>1, EntrySizeIs
<1>3. P[1] = 0 /\ (\A k \in 1..(n + 1) : P[k] \in Nat) /\ \A k \in 1..n : P[k + 1] = P[k] + w[k]
  BY <1>2, PosIs
<1> HIDE DEF n, w, P
<1> DEFINE add == [k \in 1..n |-> [a \in Nat |-> a + w[k]]]
<1>a. \A a \in Nat, k \in 1..n : add[k][a] = a + w[k] /\ a + w[k] \in Nat
  BY <1>2
<1> HIDE DEF add
<1>4. PICK f \in [SUBSET (1..n) -> Nat] : FoldsUp(n, 0, add, f)
  <2>1. \A a \in Nat, k \in 1..n : add[k][a] \in Nat
    BY <1>a
  <2>2. 0 \in Nat
    OBVIOUS
  <2> QED
    BY <1>0, <2>1, <2>2, FoldsExist
<1>5. ASSUME NEW s \in SUBSET (1..n), s # {}, NEW a \in Nat
      PROVE  a + w[Max(s)] = a + DIRENT_HEAD + NameLen[page[Max(s)].name]
  <2>1. Max(s) \in 1..n
    BY <1>0, <1>5, MaxOf
  <2>2. NameLen[page[Max(s)].name] \in Int /\ DIRENT_HEAD \in Int /\ a \in Int
    BY <1>2, <2>1 DEF DIRENT_HEAD
  <2>3. w[Max(s)] = DIRENT_HEAD + NameLen[page[Max(s)].name]
    BY <1>2, <2>1 DEF EntrySize
  <2>4. (a + DIRENT_HEAD) + NameLen[page[Max(s)].name]
          = a + (DIRENT_HEAD + NameLen[page[Max(s)].name])
    BY <2>2, AddAssoc, Zenon
  <2> QED
    BY <2>3, <2>4, Zenon
<1>6. Q(f)
  <2>1. ASSUME NEW s \in SUBSET (1..n), s # {}
        PROVE  f[s] = f[s \ {Max(s)}] + DIRENT_HEAD + NameLen[page[Max(s)].name]
    <3>0. f[s] = add[Max(s)][f[s \ {Max(s)}]]
      BY <1>4, <2>1 DEF FoldsUp
    <3>2. f[s \ {Max(s)}] \in Nat /\ Max(s) \in 1..n
      BY <1>0, <1>4, <2>1, MaxOf
    <3>1. f[s] = f[s \ {Max(s)}] + w[Max(s)]
      BY <1>a, <3>0, <3>2
    <3> QED
      BY <1>5, <2>1, <3>1, <3>2
  <2>2. f[{}] = 0
    BY <1>4 DEF FoldsUp
  <2>3. f = [s \in SUBSET (1..n) |-> f[s]]
    BY <1>4
  <2>4. \A s \in SUBSET (1..n) :
          f[s] = IF s = {} THEN 0
                 ELSE f[s \ {Max(s)}] + DIRENT_HEAD + NameLen[page[Max(s)].name]
    BY <2>1, <2>2, Zenon
  <2>5. f = [s \in SUBSET (1..n) |->
               IF s = {} THEN 0
               ELSE f[s \ {Max(s)}] + DIRENT_HEAD + NameLen[page[Max(s)].name]]
    BY <2>3, <2>4, Zenon
  <2> QED
    BY <1>0, <2>5
<1>7. Q(iter)
  <2> HIDE DEF Q
  <2> QED
    BY <1>6
<1>8. iter = [s \in SUBSET (1..n) |->
                IF s = {} THEN 0
                ELSE iter[s \ {Max(s)}] + DIRENT_HEAD + NameLen[page[Max(s)].name]]
  <2> HIDE DEF iter
  <2> QED
    BY <1>0, <1>7
<1> HIDE DEF iter, Q
<1> DEFINE Bad == {m \in 0..n : iter[1..m] # P[m + 1]}
<1>9. iter[1..0] = P[0 + 1]
  <2>1. 1..0 = {} /\ 0 + 1 = 1
    OBVIOUS
  <2> QED
    BY <1>3, <1>8, <2>1
<1>10. ASSUME NEW m \in 1..n, iter[1..(m - 1)] = P[(m - 1) + 1] PROVE iter[1..m] = P[m + 1]
  <2>0. m \in Nat /\ m \in 1..m /\ 1..m \in SUBSET (1..n)
    BY <1>0
  <2>1. 1..m \in SUBSET (1..n) /\ 1..m # {} /\ m \in 1..m /\ 1..m \in SUBSET (1..m) /\ m \in Nat
    BY <2>0
  <2>2. Max(1..m) = m
    BY <2>1, MaxOf
  <2>3. (1..m) \ {m} = 1..(m - 1)
    OBVIOUS
  <2>4. iter[1..m] = iter[(1..m) \ {Max(1..m)}] + DIRENT_HEAD + NameLen[page[Max(1..m)].name]
    BY <1>8, <2>1
  <2>5. iter[1..m] = P[m] + DIRENT_HEAD + NameLen[page[m].name]
    <3>1. (m - 1) + 1 = m
      OBVIOUS
    <3> QED
      BY <1>10, <2>2, <2>3, <2>4, <3>1
  <2>6. P[m] \in Nat
    BY <1>0, <1>3
  <2>7. P[m] + w[Max(1..m)] = P[m] + DIRENT_HEAD + NameLen[page[Max(1..m)].name]
    BY <1>5, <2>1, <2>6
  <2> QED
    BY <1>3, <2>2, <2>5, <2>7
<1>11. Bad = {}
  <2> SUFFICES ASSUME Bad # {} PROVE FALSE
    OBVIOUS
  <2>1. PICK m \in Bad : \A i \in Bad : m <= i
    <3>1. Bad \subseteq Nat
      OBVIOUS
    <3> HIDE DEF Bad
    <3> QED
      BY <3>1, LeastNatural
  <2>2. m \in 1..n /\ m - 1 \in 0..n
    BY <1>0, <1>9, <2>1
  <2>3. iter[1..(m - 1)] = P[(m - 1) + 1]
    BY <2>1, <2>2
  <2> QED
    BY <1>10, <2>1, <2>2, <2>3
<1>12. n \in 0..n
  BY <1>0
<1>13. iter[1..n] = P[n + 1]
  BY <1>11, <1>12
<1> QED
  BY <1>1, <1>13 DEF P, n

\* The bytes of some entries of a listing in a row.
LEMMA BytesIs ==
    ASSUME NEW list \in Seq(Dirent), NEW a \in 1..Len(list), NEW b \in a..Len(list)
    PROVE  /\ SubSeq(list, a, b) \in Seq(Dirent) /\ Len(SubSeq(list, a, b)) = b - a + 1
           /\ Pos(list)[a] + Bytes(SubSeq(list, a, b)) = Pos(list)[b + 1]
<1> DEFINE page == SubSeq(list, a, b)
           n == (b - a) + 1
           P == Pos(list)
           R == Pos(page)
<1>0. Len(list) \in Nat /\ a \in Nat /\ b \in Nat /\ a >= 1 /\ a <= b /\ b <= Len(list) /\ n \in Nat
  OBVIOUS
<1>1. page \in Seq(Dirent) /\ Len(page) = n /\ \A i \in 1..n : page[i] = list[a + (i - 1)]
  BY Middle
<1>2. /\ R[1] = 0 /\ (\A k \in 1..(n + 1) : R[k] \in Nat)
      /\ \A k \in 1..n : R[k + 1] = R[k] + EntrySize(page[k])
  <2> HIDE DEF page, n
  <2> QED
    BY <1>1, PosIs
<1>3. /\ \A k \in 1..(Len(list) + 1) : P[k] \in Nat
      /\ \A k \in 1..Len(list) : P[k + 1] = P[k] + EntrySize(list[k])
  BY PosIs
<1>4. Bytes(page) = R[n + 1]
  <2> HIDE DEF page, n
  <2> QED
    BY <1>1, BytesOf
<1>e. \A k \in 1..Len(list) : EntrySize(list[k]) \in Nat
  <2>1. \A k \in 1..Len(list) : list[k] \in Dirent
    OBVIOUS
  <2> QED
    BY <2>1, EntrySizeIs
<1> HIDE DEF page, P, R
<1> DEFINE Bad == {m \in 0..n : P[a] + R[m + 1] # P[a + m]}
<1>5. P[a] + R[0 + 1] = P[a + 0]
  <2>1. P[a] \in Nat /\ 0 + 1 = 1 /\ a + 0 = a
    BY <1>0, <1>3
  <2> QED
    BY <1>2, <2>1
<1>6. ASSUME NEW m \in 1..n, P[a] + R[(m - 1) + 1] = P[a + (m - 1)]
      PROVE  P[a] + R[m + 1] = P[a + m]
  <2>1. (m - 1) + 1 = m /\ a + (m - 1) \in 1..Len(list) /\ (a + (m - 1)) + 1 = a + m
        /\ m \in 1..(n + 1) /\ a \in 1..(Len(list) + 1)
    BY <1>0
  <2> DEFINE e == EntrySize(list[a + (m - 1)])
  <2>2. R[m + 1] = R[m] + e
    BY <1>1, <1>2
  <2>3. P[a + m] = P[a + (m - 1)] + e
    BY <1>3, <2>1
  <2>4. P[a] \in Int /\ R[m] \in Int /\ e \in Int
    <3>1. P[a] \in Nat /\ R[m] \in Nat /\ e \in Nat
      BY <1>2, <1>3, <1>e, <2>1
    <3> HIDE DEF e
    <3> QED
      BY <3>1
  <2>5. P[a] + R[m] = P[a + (m - 1)]
    BY <1>6, <2>1
  <2>6. (P[a] + R[m]) + e = P[a] + (R[m] + e)
    <3> HIDE DEF e
    <3> QED
      BY <2>4, AddAssoc, Zenon
  <2> HIDE DEF e
  <2> QED
    BY <2>2, <2>3, <2>5, <2>6
<1>7. Bad = {}
  <2> SUFFICES ASSUME Bad # {} PROVE FALSE
    OBVIOUS
  <2>1. PICK m \in Bad : \A i \in Bad : m <= i
    <3>1. Bad \subseteq Nat
      OBVIOUS
    <3> HIDE DEF Bad
    <3> QED
      BY <3>1, LeastNatural
  <2>2. m \in 1..n /\ m - 1 \in 0..n
    <3>1. m # 0
      BY <1>5, <2>1
    <3> QED
      BY <1>0, <2>1, <3>1
  <2>3. P[a] + R[(m - 1) + 1] = P[a + (m - 1)]
    <3>1. m - 1 \notin Bad
      <4> HIDE DEF Bad
      <4> QED
        BY <2>1, <2>2
    <3> QED
      BY <2>2, <3>1
  <2> QED
    BY <1>6, <2>1, <2>2, <2>3
<1>8. n \in 0..n /\ a + n = b + 1
  BY <1>0
<1>9. P[a] + R[n + 1] = P[b + 1]
  <2>1. n \notin Bad
    BY <1>7
  <2> QED
    BY <1>8, <2>1
<1> QED
  BY <1>1, <1>4, <1>9 DEF page, P, n

\* A page is what stands from the first entry at or behind the offset on, as
\* far as it fits, and at least that entry.
LEMMA PageIs ==
    ASSUME NEW list \in Seq(Dirent), NEW o \in Nat,
           NEW first \in 1..Len(list), Pos(list)[first] >= o,
           \A k \in 1..Len(list) : Pos(list)[k] >= o => first <= k
    PROVE  \E b \in first..Len(list) :
             readdir_page(list, o, chunk_size) = SubSeq(list, first, b)
<1> DEFINE n == Len(list)
           P == Pos(list)
           behind == {k \in 1..n : P[k] >= o}
           fit == {k \in behind : P[k + 1] - P[Min(behind)] <= chunk_size}
           c == Cardinality(fit)
<1>0. n \in Nat /\ first \in Nat /\ 1 <= first /\ first <= n
  OBVIOUS
<1>1. readdir_page(list, o, chunk_size)
        = IF behind = {} THEN << >> ELSE SubSeq(list, Min(behind), Min(behind) + c - 1)
  BY DEF readdir_page, Pos, IsPos
<1>2. /\ \A k \in 1..(n + 1) : P[k] \in Nat
      /\ \A k \in 1..n : P[k + 1] = P[k] + EntrySize(list[k])
  BY PosIs
<1>3. \A j, k \in 1..(n + 1) : j < k => P[j] < P[k]
  BY PosGrows
<1>e. EntrySize(list[first]) \in Nat /\ EntrySize(list[first]) <= chunk_size
  <2>1. list[first] \in Dirent
    OBVIOUS
  <2> QED
    BY <2>1, EntrySizeIs
<1> HIDE DEF P, n
<1>4. first \in behind /\ \A k \in behind : first <= k
  BY DEF n, P
<1>5. Min(behind) = first
  <2>1. behind \subseteq Nat /\ behind # {}
    BY <1>0, <1>4
  <2>2. Min(behind) \in behind /\ \A j \in behind : Min(behind) <= j
    <3> HIDE DEF behind
    <3> QED
      BY <2>1, MinIsLeast
  <2>3. Min(behind) <= first /\ first <= Min(behind) /\ Min(behind) \in Nat
    <3> HIDE DEF behind
    <3> QED
      BY <1>4, <2>1, <2>2
  <2> HIDE DEF behind
  <2> QED
    BY <1>0, <2>3
<1>6. behind = first..n
  <2>1. ASSUME NEW k \in first..n PROVE k \in behind
    <3>1. k \in 1..n /\ k \in 1..(n + 1) /\ first \in 1..(n + 1)
      BY <1>0
    <3>2. P[first] <= P[k] /\ P[first] >= o /\ P[k] \in Nat /\ P[first] \in Nat
      <4>1. P[k] \in Nat /\ P[first] \in Nat /\ P[first] >= o
        BY <1>2, <1>4, <3>1
      <4>2. CASE k = first
        BY <4>1, <4>2
      <4>3. CASE k # first
        <5>1. first < k
          BY <1>0, <4>3
        <5>2. P[first] < P[k]
          BY <1>3, <3>1, <5>1
        <5> QED
          BY <4>1, <5>2
      <4> QED
        BY <4>2, <4>3
    <3>3. P[k] >= o
      BY <3>2
    <3> QED
      BY <3>1, <3>3
  <2>2. ASSUME NEW k \in behind PROVE k \in first..n
    BY <1>0, <1>4
  <2> HIDE DEF behind
  <2> QED
    BY <2>1, <2>2
<1>7. fit = {k \in first..n : P[k + 1] - P[first] <= chunk_size}
  BY <1>5, <1>6
<1> HIDE DEF behind, fit
<1>8. first \in fit
  <2>1. /\ P[first + 1] = P[first] + EntrySize(list[first])
        /\ P[first] \in Nat /\ P[first + 1] \in Nat
    BY <1>0, <1>2
  <2>2. P[first + 1] - P[first] = EntrySize(list[first])
    BY <1>e, <2>1, AddSub, Zenon
  <2>3. first \in first..n
    BY <1>0
  <2> QED
    BY <1>7, <1>e, <2>2, <2>3
<1> DEFINE b == Max(fit)
<1>9. b \in fit /\ \A j \in fit : j <= b
  <2>0. fit \subseteq first..n /\ first..n \subseteq 0..n
    BY <1>0, <1>7
  <2>1. fit \subseteq 0..n /\ fit # {}
    BY <1>8, <2>0
  <2> QED
    BY <1>0, <2>1, MaxIsGreatest
<1> HIDE DEF b
<1>10. b \in first..n /\ P[b + 1] - P[first] <= chunk_size
  BY <1>7, <1>9
<1>11. fit = first..b
  <2>1. ASSUME NEW k \in first..b PROVE k \in fit
    <3>1. k \in first..n /\ k + 1 \in 1..(n + 1) /\ b + 1 \in 1..(n + 1) /\ first \in 1..(n + 1)
      BY <1>0, <1>10
    <3>2. P[k + 1] \in Nat /\ P[b + 1] \in Nat /\ P[first] \in Nat
      BY <1>2, <3>1
    <3>3. P[k + 1] <= P[b + 1]
      <4>1. CASE k = b
        BY <3>2, <4>1
      <4>2. CASE k # b
        <5>1. k + 1 < b + 1
          BY <1>0, <1>10, <4>2
        <5>2. P[k + 1] < P[b + 1]
          BY <1>3, <3>1, <5>1
        <5> QED
          BY <3>2, <5>2
      <4> QED
        BY <4>1, <4>2
    <3>4. P[k + 1] - P[first] <= chunk_size
      <4>1. chunk_size \in Nat
        BY TarfsAssumption
      <4>2. P[b + 1] - P[first] <= chunk_size
        BY <1>10
      <4>3. \A d \in Nat : P[b + 1] - P[first] <= d => P[k + 1] - P[first] <= d
        BY <3>2, <3>3, SubLess, Zenon
      <4> QED
        BY <4>1, <4>2, <4>3
    <3> QED
      BY <1>7, <3>1, <3>4
  <2>2. ASSUME NEW k \in fit PROVE k \in first..b
    BY <1>0, <1>7, <1>9, <1>10
  <2> QED
    BY <2>1, <2>2
<1>12. c = (b - first) + 1
  <2>1. first \in Int /\ b \in Int /\ ~(first > b)
    BY <1>0, <1>10
  <2>2. Cardinality(first..b) = IF first > b THEN 0 ELSE (b - first) + 1
    BY <2>1, FS_Interval
  <2> QED
    BY <1>11, <2>1, <2>2
<1>13. first + c - 1 = b
  BY <1>0, <1>10, <1>12
<1>14. readdir_page(list, o, chunk_size) = SubSeq(list, first, b)
  BY <1>1, <1>4, <1>5, <1>13
<1> QED
  BY <1>10, <1>14 DEF n

LEMMA PageNone ==
    ASSUME NEW list \in Seq(Dirent), NEW o \in Nat,
           \A k \in 1..Len(list) : ~(Pos(list)[k] >= o)
    PROVE  readdir_page(list, o, chunk_size) = << >>
<1> DEFINE behind == {k \in 1..Len(list) : Pos(list)[k] >= o}
           fit == {k \in behind : Pos(list)[k + 1] - Pos(list)[Min(behind)] <= chunk_size}
<1>1. readdir_page(list, o, chunk_size)
        = IF behind = {} THEN << >>
          ELSE SubSeq(list, Min(behind), Min(behind) + Cardinality(fit) - 1)
  BY DEF readdir_page, Pos, IsPos
<1>2. behind = {}
  OBVIOUS
<1> HIDE DEF behind, fit
<1> QED
  BY <1>1, <1>2

\* However long its names are and wherever the pages are cut, a caller of
\* readdir() that adds the bytes of each page to its offset collects every
\* entry of a directory, once and in order.
THEOREM ChunksAreWhole ==
    ASSUME NEW list \in Seq(Dirent)
    PROVE  read_chunks(list) = list
<1> DEFINE n == Len(list)
           P == Pos(list)
           pg == [o \in Nat |-> readdir_page(list, o, chunk_size)]
           nx == [o \in Nat |-> o + Bytes(pg[o])]
           F(f) == f = [offset \in Nat |->
                          LET page == readdir_page(list, offset, chunk_size)
                          IN  IF page = << >> THEN << >> ELSE page \o f[offset + Bytes(page)]]
           G(f) == Strung(pg, nx, f)
           from == CHOOSE f : F(f)
<1>0. n \in Nat
  OBVIOUS
<1>1. read_chunks(list) = from[0]
  BY DEF read_chunks, Bytes, FoldLeft, MapThenFoldSet
<1>2. P[1] = 0 /\ (\A k \in 1..(n + 1) : P[k] \in Nat)
  BY PosIs
<1>3. \A j, k \in 1..(n + 1) : j < k => P[j] < P[k]
  BY PosGrows
<1>4. ASSUME NEW o \in Nat, NEW first \in 1..n, P[first] >= o,
             \A k \in 1..n : P[k] >= o => first <= k
      PROVE  \E b \in first..n :
               /\ pg[o] = SubSeq(list, first, b) /\ pg[o] # << >>
               /\ Bytes(pg[o]) \in Nat /\ 0 < Bytes(pg[o]) /\ P[first] + Bytes(pg[o]) = P[b + 1]
  <2>1. PICK b \in first..n : readdir_page(list, o, chunk_size) = SubSeq(list, first, b)
    BY <1>4, PageIs
  <2>2. pg[o] = SubSeq(list, first, b)
    BY <2>1
  <2>3. Len(pg[o]) = b - first + 1 /\ P[first] + Bytes(pg[o]) = P[b + 1] /\ pg[o] \in Seq(Dirent)
    BY <2>2, BytesIs
  <2>4. first \in 1..(n + 1) /\ b + 1 \in 1..(n + 1) /\ first < b + 1 /\ b - first + 1 # 0
    BY <1>0
  <2>5. P[first] < P[b + 1] /\ P[first] \in Nat /\ P[b + 1] \in Nat
    BY <1>2, <1>3, <2>4
  <2> HIDE DEF pg, P
  <2>6. pg[o] # << >>
    BY <2>3, <2>4
  <2>7. Bytes(pg[o]) \in Nat
    <3>1. /\ Bytes(pg[o]) = Pos(pg[o])[Len(pg[o]) + 1]
          /\ \A k \in 1..(Len(pg[o]) + 1) : Pos(pg[o])[k] \in Nat
      BY <2>3, BytesOf, PosIs
    <3>2. Len(pg[o]) + 1 \in 1..(Len(pg[o]) + 1)
      BY <2>3
    <3> QED
      BY <3>1, <3>2
  <2>8. 0 < Bytes(pg[o])
    <3>1. \A a, b1, c \in Nat : a < c /\ a + b1 = c => 0 < b1
      OBVIOUS
    <3> QED
      BY <2>3, <2>5, <2>7, <3>1, Zenon
  <2> QED
    BY <2>2, <2>3, <2>6, <2>7, <2>8
<1>5. ASSUME NEW o \in Nat, pg[o] # << >>
      PROVE  o < P[n + 1] /\ nx[o] \in Nat /\ o < nx[o]
  <2> DEFINE behind == {k \in 1..n : P[k] >= o}
  <2>1. behind # {}
    <3>1. pg[o] = readdir_page(list, o, chunk_size)
      OBVIOUS
    <3> QED
      BY <1>5, <3>1, PageNone
  <2>2. PICK first \in behind : \A k \in behind : first <= k
    <3>1. behind \subseteq Nat
      BY <1>0
    <3> HIDE DEF behind
    <3> QED
      BY <2>1, <3>1, LeastNatural
  <2> HIDE DEF P, pg
  <2>3. first \in 1..n /\ P[first] >= o /\ \A k \in 1..n : P[k] >= o => first <= k
    BY <2>2
  <2>4. Bytes(pg[o]) \in Nat /\ 0 < Bytes(pg[o])
    BY <1>4, <2>3
  <2>5. first \in 1..(n + 1) /\ n + 1 \in 1..(n + 1) /\ first < n + 1
    BY <1>0, <2>3
  <2>6. P[first] \in Nat /\ P[n + 1] \in Nat /\ P[first] < P[n + 1]
    BY <1>2, <1>3, <2>5
  <2>7. o < P[n + 1]
    BY <2>3, <2>6
  <2>8. nx[o] = o + Bytes(pg[o])
    OBVIOUS
  <2> HIDE DEF nx
  <2> QED
    BY <2>4, <2>7, <2>8
<1>6. \E f : G(f)
  <2>1. P[n + 1] \in Nat
    BY <1>0, <1>2
  <2>2. \A o \in Nat : pg[o] # << >> => o < P[n + 1] /\ nx[o] \in Nat /\ o < nx[o]
    BY <1>5
  <2> HIDE DEF P, pg, nx, n
  <2> QED
    BY <2>1, <2>2, ChainsExist
<1>7. ASSUME NEW f PROVE G(f) <=> F(f)
  BY DEF Strung
<1>8. G(from)
  <2>1. \E f : F(f)
    <3> HIDE DEF F, G
    <3> QED
      BY <1>6, <1>7
  <2>2. F(from)
    <3> HIDE DEF F
    <3> QED
      BY <2>1
  <2> HIDE DEF F, G, from
  <2> QED
    BY <1>7, <2>2
<1>9. \A o \in Nat : from[o] = IF pg[o] = << >> THEN << >> ELSE pg[o] \o from[nx[o]]
  <2> HIDE DEF from, pg, nx
  <2> QED
    BY <1>8 DEF Strung
<1> HIDE DEF from, F, G
<1> DEFINE Bad == {k \in 1..(n + 1) : from[P[k]] # SubSeq(list, k, n)}
<1>10. from[P[n + 1]] = SubSeq(list, n + 1, n)
  <2>1. P[n + 1] \in Nat /\ n + 1 \in 1..(n + 1)
    BY <1>0, <1>2
  <2>2. \A k \in 1..n : ~(P[k] >= P[n + 1])
    <3>1. \A k \in 1..n : k \in 1..(n + 1) /\ k < n + 1
      BY <1>0
    <3> HIDE DEF P
    <3>2. \A k \in 1..n : P[k] < P[n + 1] /\ P[k] \in Nat
      BY <1>2, <1>3, <2>1, <3>1
    <3> QED
      BY <2>1, <3>2
  <2>3. pg[P[n + 1]] = << >>
    BY <2>1, <2>2, PageNone
  <2>4. SubSeq(list, n + 1, n) = << >>
    <3>1. n + 1 \in Int /\ n \in Int /\ n < n + 1
      BY <1>0
    <3> QED
      BY <3>1, SubSeqEmpty
  <2> HIDE DEF pg, nx, P
  <2> QED
    BY <1>9, <2>1, <2>3, <2>4
<1>11. ASSUME NEW k \in 1..n, \A j \in (k + 1)..(n + 1) : from[P[j]] = SubSeq(list, j, n)
       PROVE  from[P[k]] = SubSeq(list, k, n)
  <2> HIDE DEF P
  <2>1. k \in 1..(n + 1) /\ P[k] \in Nat /\ P[k] >= P[k]
    BY <1>0, <1>2
  <2>2. ASSUME NEW j \in 1..n, P[j] >= P[k] PROVE k <= j
    <3>1. j \in 1..(n + 1) /\ P[j] \in Nat
      BY <1>0, <1>2
    <3>2. CASE j < k
      <4>1. P[j] < P[k]
        BY <1>3, <2>1, <3>1, <3>2
      <4> QED
        BY <2>1, <2>2, <3>1, <4>1
    <3> QED
      BY <1>0, <3>2
  <2> HIDE DEF pg, nx
  <2>3. PICK b \in k..n :
          /\ pg[P[k]] = SubSeq(list, k, b) /\ pg[P[k]] # << >>
          /\ P[k] + Bytes(pg[P[k]]) = P[b + 1]
    BY <1>4, <2>1, <2>2
  <2>4. nx[P[k]] = P[b + 1]
    BY <2>1, <2>3 DEF nx
  <2>5. b + 1 \in (k + 1)..(n + 1)
    BY <1>0
  <2>6. from[P[k]] = SubSeq(list, k, b) \o SubSeq(list, b + 1, n)
    BY <1>9, <1>11, <2>1, <2>3, <2>4, <2>5
  <2>7. SubSeq(list, k, b) \o SubSeq(list, b + 1, n) = SubSeq(list, k, n)
    <3>1. k - 1 \in 0..n /\ b \in 0..n /\ k - 1 <= b /\ (k - 1) + 1 = k
      BY <1>0
    <3>2. SubSeq(list, (k - 1) + 1, b) \o SubSeq(list, b + 1, Len(list))
            = SubSeq(list, (k - 1) + 1, Len(list))
      BY <3>1, Pieces
    <3> QED
      BY <3>1, <3>2
  <2> QED
    BY <2>6, <2>7
<1>12. Bad = {}
  <2> HIDE DEF P, n
  <2> SUFFICES ASSUME Bad # {} PROVE FALSE
    OBVIOUS
  <2>1. PICK k \in Bad : \A j \in Bad : j <= k
    <3>1. Bad \subseteq 0..(n + 1) /\ n + 1 \in Nat
      BY <1>0
    <3> HIDE DEF Bad
    <3> QED
      BY <3>1, MaxIsGreatest
  <2>2. k \in 1..n
    <3>1. n + 1 \notin Bad
      BY <1>10
    <3>2. k # n + 1 /\ k \in 1..(n + 1)
      BY <2>1, <3>1
    <3> QED
      BY <1>0, <3>2
  <2>3. ASSUME NEW j \in (k + 1)..(n + 1) PROVE from[P[j]] = SubSeq(list, j, n)
    <3>1. j \in 1..(n + 1) /\ ~(j <= k)
      BY <1>0, <2>2
    <3>2. j \notin Bad
      <4> HIDE DEF Bad
      <4> QED
        BY <2>1, <3>1
    <3> QED
      BY <3>1, <3>2
  <2> QED
    BY <1>11, <2>1, <2>2, <2>3
<1>13. from[P[1]] = SubSeq(list, 1, n)
  <2> HIDE DEF P, n
  <2>1. 1 \in 1..(n + 1)
    BY <1>0
  <2>2. 1 \notin Bad
    <3> HIDE DEF Bad
    <3> QED
      BY <1>12
  <2> QED
    BY <2>1, <2>2
<1>14. SubSeq(list, 1, n) = list
  <2>1. n \in 0..n
    BY <1>0
  <2>2. /\ SubSeq(list, 1, n) \in Seq(Dirent) /\ Len(SubSeq(list, 1, n)) = n
        /\ \A i \in 1..n : SubSeq(list, 1, n)[i] = list[i]
    BY <2>1, Prefix
  <2> QED
    BY <2>2, SeqEqual
<1> HIDE DEF P, n
<1> QED
  BY <1>1, <1>2, <1>13, <1>14

----------------------------------------------------------------------------
(* Descriptors are implemented *)

\* getdents64() can give out all of a directory.
WholeInode(inode) ==
    /\ inode.size \in Nat
    /\ inode.is_dir => listing(inode) \in Seq(Dirent) /\ Len(listing(inode)) <= MAX_ENTRIES

\* ... and so for every directory a program opens.
LookupsAreWhole ==
    (\E t \in Task : fds[t] # NULL) =>
        \A path \in Path : target(path) # NULL => WholeInode(target(path))

\* Every File has a number of its own, and nothing is open before the mount.
FilesOK ==
    /\ opened \in Nat
    /\ \A b \in Block : file[b] # NULL =>
         file[b].id \in 0..(opened - 1) /\ file[b].offset \in Nat /\ WholeInode(file[b].inode)
    /\ \A b, c \in Block :
         file[b] # NULL /\ file[c] # NULL /\ file[b].id = file[c].id => b = c
    /\ nodes = NULL => (\A t \in Task : fds[t] = NULL) /\ (\A b \in Block : file[b] = NULL)

RefInv == LiveInv /\ FilesOK

Described(f) == [inode |-> AbstractInode(f.inode), pos |-> f.offset]

\* The mapped table, slot by slot.
TabOK ==
    /\ Tab = [t \in Task |-> Tab[t]]
    /\ \A t \in Task :
         /\ Tab[t] = NULL <=> fds[t] = NULL
         /\ fds[t] # NULL => Tab[t] = [fd \in Fd |-> Tab[t][fd]]
         /\ \A fd \in Fd : fds[t] # NULL =>
              /\ Tab[t][fd] = NULL <=> fds[t][fd] = NULL
              /\ fds[t][fd] # NULL =>
                   /\ fds[t][fd] \in Block /\ file[fds[t][fd]] # NULL
                   /\ Tab[t][fd] = file[fds[t][fd]].id

\* The mapped descriptions, File by File.
DescOK ==
    /\ Desc = [id \in D!Held(Tab) |-> Desc[id]]
    /\ \A id \in D!Held(Tab) : \E b \in Block : Holders(b) # {} /\ file[b].id = id
    /\ \A b \in Block : Holders(b) # {} =>
         /\ file[b] # NULL /\ file[b].id \in D!Held(Tab)
         /\ Desc[file[b].id] = Described(file[b])

LEMMA TabIs == RefInv => TabOK
<1> SUFFICES ASSUME RefInv PROVE TabOK
  OBVIOUS
<1> USE FilesAssumption DEF RefInv, LiveInv
<1>1. Tab = [t \in Task |-> Tab[t]]
  BY DEF Tab
<1>2. ASSUME NEW t \in Task, fds[t] = NULL PROVE Tab[t] = NULL
  BY <1>2 DEF Tab
<1>3. ASSUME NEW t \in Task, fds[t] # NULL
      PROVE  /\ Tab[t] # NULL /\ Tab[t] = [fd \in Fd |-> Tab[t][fd]]
             /\ \A fd \in Fd :
                  /\ Tab[t][fd] = NULL <=> fds[t][fd] = NULL
                  /\ fds[t][fd] # NULL =>
                       /\ fds[t][fd] \in Block /\ file[fds[t][fd]] # NULL
                       /\ Tab[t][fd] = file[fds[t][fd]].id
  <2>1. Tab[t] = [fd \in Fd |->
                  IF fds[t][fd] = NULL THEN NULL
                  ELSE IF file[fds[t][fd]] = NULL THEN -1
                  ELSE file[fds[t][fd]].id]
    BY <1>3 DEF Tab
  <2>2. ASSUME NEW fd \in Fd, fds[t][fd] # NULL
        PROVE  /\ fds[t][fd] \in Block /\ file[fds[t][fd]] # NULL
               /\ Tab[t][fd] = file[fds[t][fd]].id /\ Tab[t][fd] \in Int
    <3>1. fds[t][fd] \in Block /\ file[fds[t][fd]] # NULL
      BY <1>3, <2>2 DEF TablesOK, DescriptorsAreLive, Live
    <3>2. file[fds[t][fd]].id \in Int /\ opened \in Nat
      BY <3>1 DEF FilesOK
    <3> QED
      BY <2>1, <2>2, <3>1, <3>2
  <2>3. ASSUME NEW fd \in Fd, fds[t][fd] = NULL PROVE Tab[t][fd] = NULL
    BY <2>1, <2>3
  <2>4. Tab[t] \in [Fd -> Int \cup {NULL}]
    BY <2>1, <2>2, <2>3
  <2> QED
    BY <2>1, <2>2, <2>3, <2>4
<1> QED
  BY <1>1, <1>2, <1>3 DEF TabOK

LEMMA DescIs == RefInv => DescOK
<1> SUFFICES ASSUME RefInv PROVE DescOK
  OBVIOUS
<1>1. TabOK
  BY TabIs
<1>2. ASSUME NEW b \in Block, Holders(b) # {}
      PROVE  file[b] # NULL /\ file[b].id \in HeldIds /\ file[b].id \in D!Held(Tab)
  <2>1. PICK t \in Task, fd \in Fd : fds[t] # NULL /\ fds[t][fd] = b
    BY <1>2 DEF Holders, Live
  <2>2. b # NULL
    BY FilesAssumption
  <2>3. file[b] # NULL /\ Tab[t][fd] = file[b].id /\ Tab[t] # NULL /\ Tab[t][fd] # NULL
    BY <1>1, <2>1, <2>2 DEF TabOK
  <2>4. file[b].id \in {Tab[t][g] : g \in Fd}
    BY <2>3
  <2>5. t \in {u \in Task : Tab[u] # NULL}
    BY <2>3
  <2>6. file[b].id \in D!Held(Tab)
    BY <2>3, <2>4, <2>5 DEF D!Held
  <2>7. file[b].id \in HeldIds
    BY <1>2, <2>3 DEF HeldIds
  <2> QED
    BY <2>3, <2>6, <2>7
<1>3. ASSUME NEW id \in D!Held(Tab)
      PROVE  \E b \in Block : Holders(b) # {} /\ file[b].id = id
  <2>0. id # NULL /\ \E t \in {u \in Task : Tab[u] # NULL} : id \in {Tab[t][fd] : fd \in Fd}
    BY DEF D!Held
  <2>1. PICK t \in Task, fd \in Fd : Tab[t] # NULL /\ Tab[t][fd] = id /\ id # NULL
    BY <2>0
  <2>2. fds[t] # NULL /\ fds[t][fd] \in Block /\ file[fds[t][fd]].id = id
    BY <1>1, <2>1 DEF TabOK
  <2>3. t \in Holders(fds[t][fd])
    BY <2>2 DEF Holders, Live
  <2> QED
    BY <2>2, <2>3
<1>4. HeldIds = D!Held(Tab)
  <2>1. ASSUME NEW id \in HeldIds PROVE id \in D!Held(Tab)
    BY <1>2 DEF HeldIds
  <2>2. ASSUME NEW id \in D!Held(Tab) PROVE id \in HeldIds
    BY <1>2, <1>3
  <2> QED
    BY <2>1, <2>2
<1>5. ASSUME NEW b \in Block, Holders(b) # {}
      PROVE  Desc[file[b].id] = Described(file[b])
  <2>1. FileOf(file[b].id) = b
    BY <1>2, <1>5 DEF FileOf, RefInv, FilesOK
  <2> QED
    BY <1>2, <1>5, <2>1 DEF Desc, Described
<1>6. Desc = [id \in HeldIds |-> Desc[id]]
  BY DEF Desc
<1> QED
  BY <1>2, <1>3, <1>4, <1>5, <1>6 DEF DescOK

\* A File that stays as it is describes the same thing.
LEMMA SameDescribed ==
    ASSUME NEW b \in Block, nodes' = nodes, file'[b] = file[b]
    PROVE  Described(file[b])' = Described(file[b])
  BY DEF Described, AbstractInode, listing, shown

\* A step that changes no File that is still held keeps the descriptions of
\* the Files held after it.
LEMMA Restricted ==
    ASSUME RefInv, RefInv', nodes' = nodes,
           \A b \in Block : (Holders(b) # {})' => Holders(b) # {} /\ file'[b] = file[b]
    PROVE  /\ Desc' = D!Restrict(Desc, D!Held(Tab') \cap DOMAIN Desc)
           /\ (\A b \in Block : Holders(b) # {} => (Holders(b) # {})') => Desc' = Desc
<1>1. DescOK /\ DescOK'
  <2>1. RefInv' => DescOK'
    BY DescIs, PTL
  <2> QED
    BY <2>1, DescIs
<1>2. ASSUME NEW id \in D!Held(Tab')
      PROVE  id \in D!Held(Tab) /\ Desc'[id] = Desc[id]
  <2>1. PICK b \in Block : (Holders(b) # {})' /\ file'[b].id = id
    BY <1>1, <1>2 DEF DescOK
  <2>2. Holders(b) # {} /\ file'[b] = file[b]
    BY <2>1
  <2>3. Desc'[id] = Described(file[b])' /\ id \in D!Held(Tab) /\ Desc[id] = Described(file[b])
    BY <1>1, <2>1, <2>2 DEF DescOK
  <2> QED
    BY <2>2, <2>3, SameDescribed
<1>3. Desc' = [id \in D!Held(Tab') |-> Desc'[id]]
  BY <1>1 DEF DescOK
<1>4. Desc = [id \in D!Held(Tab) |-> Desc[id]]
  BY <1>1 DEF DescOK
<1>5. Desc' = D!Restrict(Desc, D!Held(Tab') \cap DOMAIN Desc)
  <2>1. DOMAIN Desc = D!Held(Tab)
    BY <1>4
  <2>2. D!Held(Tab') \cap DOMAIN Desc = D!Held(Tab')
    BY <1>2, <2>1
  <2> QED
    BY <1>2, <1>3, <2>2 DEF D!Restrict
<1>6. ASSUME \A b \in Block : Holders(b) # {} => (Holders(b) # {})'
      PROVE  Desc' = Desc
  <2>1. ASSUME NEW id \in D!Held(Tab) PROVE id \in D!Held(Tab')
    <3>1. PICK b \in Block : Holders(b) # {} /\ file[b].id = id
      BY <1>1, <2>1 DEF DescOK
    <3>2. (Holders(b) # {})'
      BY <1>6, <3>1
    <3>3. file'[b] = file[b] /\ file'[b].id \in D!Held(Tab')
      BY <1>1, <3>2 DEF DescOK
    <3> QED
      BY <3>1, <3>3
  <2>2. D!Held(Tab') = D!Held(Tab)
    BY <1>2, <2>1
  <2> QED
    BY <1>2, <1>3, <1>4, <2>2
<1> QED
  BY <1>5, <1>6

\* A step that sets the offset of a File somebody holds moves its description.
LEMMA Moved ==
    ASSUME RefInv, RefInv', nodes' = nodes, fds' = fds,
           NEW b \in Block, Holders(b) # {}, NEW p, set_offset(b, p)
    PROVE  D!MoveTo(file[b].id, p) /\ Desc'[file[b].id].pos = p
<1>0. TabOK /\ TabOK' /\ DescOK /\ DescOK'
  <2>1. (RefInv' => TabOK') /\ (RefInv' => DescOK')
    BY DescIs, TabIs, PTL
  <2> QED
    BY <2>1, DescIs, TabIs
<1>1. \A c \in Block : Holders(c)' = Holders(c)
  BY DEF Holders, Live
<1>2. file[b] = [inode |-> file[b].inode, offset |-> file[b].offset, id |-> file[b].id]
  BY <1>0 DEF RefInv, LiveInv, BlocksHoldFiles, DescOK
<1>3. /\ file'[b] = [inode |-> file[b].inode, offset |-> p, id |-> file[b].id]
      /\ \A c \in Block : c # b => file'[c] = file[c]
  BY <1>2 DEF set_offset, RefInv, LiveInv, TablesOK
<1>4. \A c \in Block : Holders(c) # {} => file'[c].id = file[c].id
  BY <1>3
<1>5. Tab' = Tab
  <2>1. ASSUME NEW t \in Task, fds[t] # NULL, NEW fd \in Fd PROVE Tab'[t][fd] = Tab[t][fd]
    <3>1. CASE fds[t][fd] = NULL
      BY <1>0, <2>1, <3>1 DEF TabOK
    <3>2. CASE fds[t][fd] # NULL
      <4>1. fds[t][fd] \in Block /\ t \in Holders(fds[t][fd])
        BY <1>0, <2>1, <3>2 DEF TabOK, Holders, Live
      <4> QED
        BY <1>0, <1>4, <2>1, <3>2, <4>1 DEF TabOK
    <3> QED
      BY <3>1, <3>2
  <2>2. ASSUME NEW t \in Task PROVE Tab'[t] = Tab[t]
    <3>1. CASE fds[t] = NULL
      BY <1>0, <3>1 DEF TabOK
    <3>2. CASE fds[t] # NULL
      <4>1. Tab[t] = [fd \in Fd |-> Tab[t][fd]] /\ Tab'[t] = [fd \in Fd |-> Tab'[t][fd]]
        BY <1>0, <3>2 DEF TabOK
      <4> QED
        BY <2>1, <3>2, <4>1
    <3> QED
      BY <3>1, <3>2
  <2>3. Tab = [t \in Task |-> Tab[t]] /\ Tab' = [t \in Task |-> Tab'[t]]
    BY <1>0 DEF TabOK
  <2> QED
    BY <2>2, <2>3
<1> DEFINE i == file[b].id
<1>6. i \in D!Held(Tab) /\ Desc[i] = Described(file[b]) /\ Desc'[i] = Described(file[b])'
  BY <1>0, <1>1, <1>4, <1>5 DEF DescOK
<1>7. Desc'[i] = [Desc[i] EXCEPT !.pos = p] /\ Desc'[i].pos = p
  <2>1. Desc[i] = [inode |-> AbstractInode(file[b].inode), pos |-> file[b].offset]
    BY <1>6 DEF Described
  <2>2. Desc'[i] = [inode |-> AbstractInode(file[b].inode), pos |-> p]
    BY <1>3, <1>6 DEF Described, AbstractInode, listing
  <2> QED
    BY <2>1, <2>2
<1>8. ASSUME NEW id \in D!Held(Tab), id # i PROVE Desc'[id] = Desc[id]
  <2>1. PICK c \in Block : Holders(c) # {} /\ file[c].id = id
    BY <1>0 DEF DescOK
  <2>2. c # b /\ file'[c] = file[c] /\ (Holders(c) # {})'
    BY <1>1, <1>3, <1>8, <2>1
  <2>3. Desc[id] = Described(file[c]) /\ Desc'[id] = Described(file[c])'
    BY <1>0, <2>1, <2>2 DEF DescOK
  <2> QED
    BY <2>2, <2>3, SameDescribed
<1>9. Desc = [id \in D!Held(Tab) |-> Desc[id]] /\ Desc' = [id \in D!Held(Tab) |-> Desc'[id]]
  BY <1>0, <1>5 DEF DescOK
<1>10. Desc' = [Desc EXCEPT ![i].pos = p]
  <2>1. Desc' = [Desc EXCEPT ![i] = [Desc[i] EXCEPT !.pos = p]]
    <3> DEFINE v == [Desc[i] EXCEPT !.pos = p]
    <3>1. Desc'[i] = v
      BY <1>7
    <3> HIDE DEF v
    <3>2. Desc' = [Desc EXCEPT ![i] = v]
      BY <1>6, <1>8, <1>9, <3>1
    <3> QED
      BY <3>2 DEF v
  <2> QED
    BY <2>1
<1> QED
  BY <1>5, <1>7, <1>10 DEF D!MoveTo

----------------------------------------------------------------------------
(* What the calls return *)

\* No entries take no bytes.
LEMMA TotalOfNone == total_reclen(<< >>) = 0
<1> DEFINE Q(f) == f = [s \in SUBSET (DOMAIN << >>) |->
                          IF s = {} THEN 0
                          ELSE LET x == Max(s) IN f[s \ {x}] + reclen(<< >>[x])]
           iter == CHOOSE f : Q(f)
<1>1. total_reclen(<< >>) = iter[DOMAIN << >>]
  BY DEF total_reclen, FoldLeft, MapThenFoldSet
<1>2. DOMAIN << >> = {}
  OBVIOUS
<1>3. Q([s \in SUBSET (DOMAIN << >>) |-> 0])
  BY <1>2
<1>4. Q(iter)
  <2> HIDE DEF Q
  <2> QED
    BY <1>3
<1>5. iter[{}] = 0
  <2> HIDE DEF iter
  <2> QED
    BY <1>2, <1>4
<1> QED
  BY <1>1, <1>2, <1>5

\* One entry takes its record.
LEMMA TotalOfOne ==
    ASSUME NEW d, reclen(d) \in Int
    PROVE  total_reclen(<<d>>) = reclen(d)
<1> DEFINE Q(f) == f = [s \in SUBSET (DOMAIN <<d>>) |->
                          IF s = {} THEN 0
                          ELSE LET x == Max(s) IN f[s \ {x}] + reclen(<<d>>[x])]
           iter == CHOOSE f : Q(f)
           w == [s \in SUBSET {1} |-> IF s = {} THEN 0 ELSE reclen(d)]
<1>1. total_reclen(<<d>>) = iter[DOMAIN <<d>>]
  BY DEF total_reclen, FoldLeft, MapThenFoldSet
<1>2. DOMAIN <<d>> = {1} /\ Max({1}) = 1 /\ <<d>>[1] = d
  BY DEF Max
<1>3. Q(w)
  <2>1. ASSUME NEW s \in SUBSET {1}, s # {}
        PROVE  w[s] = w[s \ {Max(s)}] + reclen(<<d>>[Max(s)])
    <3>1. s = {1} /\ s \ {1} = {}
      BY <2>1
    <3>2. w[s \ {1}] = 0 /\ w[s] = reclen(d)
      BY <3>1
    <3>3. Max(s) = 1
      BY <3>1, <1>2
    <3> HIDE DEF w
    <3> QED
      BY <3>2, <3>3, <1>2
  <2>2. w[{}] = 0 /\ w = [s \in SUBSET {1} |-> w[s]]
    OBVIOUS
  <2> HIDE DEF w
  <2>3. w = [s \in SUBSET {1} |->
               IF s = {} THEN 0 ELSE w[s \ {Max(s)}] + reclen(<<d>>[Max(s)])]
    BY <2>1, <2>2
  <2> QED
    BY <2>3, <1>2
<1>4. Q(iter)
  <2> HIDE DEF Q
  <2> QED
    BY <1>3
<1>5. iter[{1}] = iter[{}] + reclen(d) /\ iter[{}] = 0
  <2> HIDE DEF iter
  <2>1. {1} \ {1} = {}
    OBVIOUS
  <2> QED
    BY <1>2, <1>4, <2>1
<1> QED
  BY <1>1, <1>2, <1>5

\* Cutting names keeps the entries.
LEMMA ShownIs ==
    ASSUME NEW list \in Seq(Dirent)
    PROVE  shown(list) \in Seq(Dirent) /\ Len(shown(list)) = Len(list)
<1>1. DOMAIN list = 1..Len(list) /\ Len(list) \in Nat /\ \A k \in DOMAIN list : list[k] \in Dirent
  OBVIOUS
<1>2. shown(list) \in [1..Len(list) -> Dirent]
  BY <1>1, NamesAssumption DEF shown, Dirent
<1> QED
  BY <1>1, <1>2

\* getdents64() collects all of a directory that is small enough.
LEMMA CollectedIs ==
    ASSUME NEW inode, inode.is_dir, WholeInode(inode)
    PROVE  collected(inode) = shown(listing(inode))
<1> DEFINE list == listing(inode)
<1>1. list \in Seq(Dirent) /\ Len(list) <= MAX_ENTRIES
  BY DEF WholeInode
<1> HIDE DEF list
<1>2. read_chunks(list) = list
  BY <1>1, ChunksAreWhole
<1>3. Len(list) \in Nat /\ MAX_ENTRIES \in Nat
  BY <1>1, FilesAssumption
<1>4. collected(inode) = shown(SubSeq(list, 1, Len(list)))
  BY <1>1, <1>2, <1>3 DEF collected, list
<1>5. Len(list) \in 0..Len(list)
  BY <1>3
<1>6. /\ SubSeq(list, 1, Len(list)) \in Seq(Dirent) /\ Len(SubSeq(list, 1, Len(list))) = Len(list)
      /\ \A i \in 1..Len(list) : SubSeq(list, 1, Len(list))[i] = list[i]
  BY <1>1, <1>5, Prefix
<1>7. SubSeq(list, 1, Len(list)) = list
  BY <1>1, <1>6, SeqEqual
<1> QED
  BY <1>4, <1>7 DEF list

\* The entries of a directory that stand behind an offset.
Rest(f) == SubSeq(shown(listing(f.inode)), f.offset + 1, Len(shown(listing(f.inode))))

\* getdents64() gives out entries from the offset on, and none only when the
\* first does not fit.
LEMMA EmittedIs ==
    ASSUME NEW f, f.offset \in Nat, f.inode.is_dir, WholeInode(f.inode), NEW count \in Nat
    PROVE  /\ Rest(f) \in Seq(Dirent)
           /\ \E k \in 0..Len(Rest(f)) :
                /\ emitted(f, count) = SubSeq(Rest(f), 1, k) /\ Len(emitted(f, count)) = k
                /\ k = 0 /\ Rest(f) # << >> => ~(reclen(Rest(f)[1]) <= count)
<1> DEFINE R == Rest(f)
           fit == {k \in 0..Len(R) : total_reclen(SubSeq(R, 1, k)) <= count}
           m == Max(fit)
<1>1. emitted(f, count) = SubSeq(R, 1, m)
  <2>1. collected(f.inode) = shown(listing(f.inode))
    BY CollectedIs
  <2> QED
    BY <2>1 DEF emitted, Rest
<1>2. R \in Seq(Dirent)
  BY ShownIs DEF Rest, WholeInode
<1> HIDE DEF R
<1>3. Len(R) \in Nat
  BY <1>2
<1>4. 0 \in fit
  <2>1. SubSeq(R, 1, 0) = << >>
    BY <1>2
  <2>2. total_reclen(SubSeq(R, 1, 0)) = 0
    BY <2>1, TotalOfNone
  <2> QED
    BY <1>3, <2>2
<1>5. m \in fit /\ \A j \in fit : j <= m
  <2>1. fit \subseteq 0..Len(R) /\ fit # {}
    BY <1>4
  <2> HIDE DEF fit
  <2> QED
    BY <1>3, <2>1, MaxIsGreatest
<1>6. m \in 0..Len(R)
  BY <1>5
<1>7. Len(SubSeq(R, 1, m)) = m
  <2> HIDE DEF m
  <2> QED
    BY <1>2, <1>6
<1>8. ASSUME m = 0, R # << >> PROVE ~(reclen(R[1]) <= count)
  <2>1. Len(R) >= 1 /\ R[1] \in Dirent
    BY <1>2, <1>8
  <2>2. SubSeq(R, 1, 1) = <<R[1]>>
    <3>1. /\ SubSeq(R, 1, 1) \in Seq(Dirent) /\ Len(SubSeq(R, 1, 1)) = 1
          /\ SubSeq(R, 1, 1)[1] = R[1]
      <4>1. 1 \in 0..Len(R) /\ 1 \in 1..1
        BY <1>3, <2>1
      <4> QED
        BY <1>2, <4>1, Prefix
    <3>2. <<R[1]>> \in Seq(Dirent) /\ Len(<<R[1]>>) = 1 /\ <<R[1]>>[1] = R[1]
      BY <2>1
    <3>3. \A i \in 1..Len(SubSeq(R, 1, 1)) : SubSeq(R, 1, 1)[i] = <<R[1]>>[i]
      BY <3>1, <3>2
    <3>4. Len(SubSeq(R, 1, 1)) = Len(<<R[1]>>)
      BY <3>1, <3>2
    <3> QED
      BY <3>1, <3>2, <3>3, <3>4, SeqEqual
  <2>3. reclen(R[1]) \in Int
    <3> DEFINE bytes == 19 + NameLen[R[1].name] + 1 + 7
    <3>0. R[1].name \in Name
      BY <2>1 DEF Dirent
    <3>1. bytes \in Nat
      <4>1. NameLen[R[1].name] \in 1..99
        BY <3>0, TarfsAssumption, Zenon
      <4> QED
        BY <4>1
    <3>2. bytes \div 8 \in Nat
      <4> HIDE DEF bytes
      <4> QED
        BY <3>1, DivMod
    <3> QED
      BY <3>2 DEF reclen
  <2>4. total_reclen(SubSeq(R, 1, 1)) = reclen(R[1])
    BY <2>2, <2>3, TotalOfOne
  <2>5. 1 \notin fit
    <3> HIDE DEF fit
    <3> QED
      BY <1>5, <1>8
  <2>6. 1 \in 0..Len(R)
    BY <1>3, <2>1
  <2> QED
    BY <2>4, <2>5, <2>6
<1> HIDE DEF m
<1> QED
  BY <1>1, <1>2, <1>6, <1>7, <1>8 DEF R

\* read() gives what there is at the offset, up to what was asked for.
LEMMA BytesRead ==
    ASSUME NEW f, f.offset \in Nat, f.inode.size \in Nat, NEW len \in Nat \ {0}
    PROVE  /\ bytes_read(f, len) \in 0..f.inode.size
           /\ IF bytes_read(f, len) = 0 THEN f.offset >= f.inode.size
              ELSE f.offset + bytes_read(f, len) <= f.inode.size
  BY DEF bytes_read

----------------------------------------------------------------------------
(* The numbers and offsets of Files *)

\* A call is made by a task that runs, on a mounted tree that it leaves alone.
LEMMA CallsAreMounted ==
    ASSUME RefInv, NEW t \in Task, fds[t] # NULL
    PROVE  nodes # NULL
  BY DEF RefInv, FilesOK

\* The inode of a File that stays is as whole as it was.
LEMMA SameWhole ==
    ASSUME NEW b \in Block, nodes' = nodes, file'[b].inode = file[b].inode,
           WholeInode(file[b].inode)
    PROVE  WholeInode(file[b].inode)'
  BY DEF WholeInode, listing

\* FilesOK survives a step that only frees Files.
LEMMA FreedOK ==
    ASSUME FilesOK, nodes' = nodes, nodes # NULL, opened' \in Nat, opened' >= opened,
           \A b \in Block : file'[b] # NULL => file'[b] = file[b]
    PROVE  FilesOK'
<1>1. ASSUME NEW b \in Block, file'[b] # NULL
      PROVE  /\ file'[b].id \in 0..(opened' - 1) /\ file'[b].offset \in Nat
             /\ WholeInode(file[b].inode)'
  <2>1. file'[b] = file[b] /\ file[b] # NULL
    BY <1>1
  <2>2. file[b].id \in 0..(opened - 1) /\ file[b].offset \in Nat /\ WholeInode(file[b].inode)
        /\ opened \in Nat
    BY <2>1 DEF FilesOK
  <2>3. file'[b].inode = file[b].inode /\ WholeInode(file[b].inode)'
    BY <2>1, <2>2, SameWhole
  <2> QED
    BY <2>1, <2>2, <2>3
<1>2. ASSUME NEW b \in Block, NEW c \in Block, file'[b] # NULL, file'[c] # NULL,
             file'[b].id = file'[c].id
      PROVE  b = c
  BY <1>2 DEF FilesOK
<1> QED
  BY <1>1, <1>2 DEF FilesOK

\* FilesOK survives a new offset.
LEMMA OffsetOK ==
    ASSUME RefInv, nodes' = nodes, nodes # NULL, opened' = opened,
           NEW b \in Block, file[b] # NULL, NEW p \in Nat, set_offset(b, p)
    PROVE  FilesOK'
<1>1. file[b] = [inode |-> file[b].inode, offset |-> file[b].offset, id |-> file[b].id]
  BY DEF RefInv, LiveInv, BlocksHoldFiles
<1>2. /\ file'[b] = [inode |-> file[b].inode, offset |-> p, id |-> file[b].id]
      /\ \A c \in Block : c # b => file'[c] = file[c]
  BY <1>1 DEF set_offset, RefInv, LiveInv, TablesOK
<1>3. ASSUME NEW c \in Block, file'[c] # NULL
      PROVE  /\ file[c] # NULL /\ file'[c].id = file[c].id /\ file'[c].offset \in Nat
             /\ file'[c].inode = file[c].inode
  BY <1>2, <1>3 DEF RefInv, FilesOK
<1>4. ASSUME NEW c \in Block, file'[c] # NULL
      PROVE  /\ file'[c].id \in 0..(opened' - 1) /\ file'[c].offset \in Nat
             /\ WholeInode(file[c].inode)'
  <2>1. /\ file[c] # NULL /\ file'[c].id = file[c].id /\ file'[c].offset \in Nat
        /\ file'[c].inode = file[c].inode
    BY <1>3, <1>4
  <2>2. file[c].id \in 0..(opened - 1) /\ WholeInode(file[c].inode)
    BY <2>1 DEF RefInv, FilesOK
  <2>3. WholeInode(file[c].inode)'
    BY <2>1, <2>2, SameWhole
  <2> QED
    BY <2>1, <2>2, <2>3
<1>5. ASSUME NEW c \in Block, NEW d \in Block, file'[c] # NULL, file'[d] # NULL,
             file'[c].id = file'[d].id
      PROVE  c = d
  BY <1>3, <1>5 DEF RefInv, FilesOK
<1>6. opened' \in Nat
  BY DEF RefInv, FilesOK
<1> QED
  BY <1>4, <1>5, <1>6 DEF FilesOK

\* What read(), getdents64() and lseek() do to the offset of an open File.
LEMMA OffsetIs ==
    ASSUME RefInv, NEW t \in Task, NEW fd \in Fd, fds[t] # NULL, fds[t][fd] # NULL
    PROVE  LET b == fds[t][fd] IN
           /\ b \in Block /\ file[b] # NULL /\ Holders(b) # {}
           /\ file[b].offset \in Nat /\ WholeInode(file[b].inode) /\ file[b].inode.size \in Nat
           /\ Tab[t] # NULL /\ fd \in D!OpenFds(t) /\ Tab[t][fd] = file[b].id
           /\ Desc[file[b].id] = Described(file[b])
<1> DEFINE b == fds[t][fd]
<1>1. TabOK /\ DescOK
  BY TabIs, DescIs
<1>2. /\ b \in Block /\ file[b] # NULL
      /\ Tab[t] # NULL /\ Tab[t][fd] # NULL /\ Tab[t][fd] = file[b].id
  BY <1>1 DEF TabOK
<1>3. t \in Holders(b)
  BY DEF Holders, Live
<1>4. Desc[file[b].id] = Described(file[b])
  BY <1>1, <1>2, <1>3 DEF DescOK
<1>5. file[b].offset \in Nat /\ WholeInode(file[b].inode) /\ file[b].inode.size \in Nat
  BY <1>2 DEF RefInv, FilesOK, WholeInode
<1>6. fd \in D!OpenFds(t)
  BY <1>2 DEF D!OpenFds
<1> QED
  BY <1>2, <1>3, <1>4, <1>5, <1>6

\* FilesOK survives open(): the new File has the next number.
LEMMA OpenOK ==
    ASSUME RefInv, LookupsAreWhole, NEW t \in Task, NEW path \in Path, sys_openat(t, path)
    PROVE  FilesOK'
<1>0. fds[t] # NULL /\ nodes' = nodes /\ nodes # NULL /\ opened \in Nat
  BY CallsAreMounted DEF sys_openat, Live, Idle, RefInv, FilesOK
<1>1. CASE target(path) = NULL
  <2>1. file' = file /\ opened' = opened
    BY <1>1 DEF sys_openat
  <2> QED
    BY <1>0, <2>1, FreedOK DEF RefInv
<1>2. CASE target(path) # NULL
  <2>1. PICK b \in Block :
          /\ file[b] = NULL
          /\ file' = [file EXCEPT ![b] = keep_or_free(alloc_fd(t), NewFile(target(path)))]
    BY <1>2 DEF sys_openat
  <2>2. opened' = opened + 1
    BY <1>2 DEF sys_openat
  <2>3. \A c \in Block : c # b => file'[c] = file[c]
    BY <2>1
  <2>4. CASE file'[b] = NULL
    BY <1>0, <2>2, <2>3, <2>4, FreedOK DEF RefInv
  <2>5. CASE file'[b] # NULL
    <3>1. file'[b] = keep_or_free(alloc_fd(t), NewFile(target(path)))
      BY <2>1 DEF RefInv, LiveInv, TablesOK
    <3>2. file'[b] = [inode |-> target(path), offset |-> 0, id |-> opened]
      BY <2>5, <3>1 DEF keep_or_free, NewFile
    <3>3. WholeInode(file[b].inode)'
      <4>1. WholeInode(target(path))
        BY <1>0, <1>2 DEF LookupsAreWhole
      <4>2. file'[b].inode = target(path)
        BY <3>2
      <4> HIDE <3>2
      <4> QED
        BY <1>0, <4>1, <4>2 DEF WholeInode, listing
    <3>4. ASSUME NEW c \in Block, c # b, file'[c] # NULL
          PROVE  /\ file'[c].id \in 0..(opened - 1) /\ file'[c].offset \in Nat
                 /\ WholeInode(file[c].inode)'
      <4>1. file'[c] = file[c] /\ file[c] # NULL
        BY <2>3, <3>4
      <4>2. /\ file[c].id \in 0..(opened - 1) /\ file[c].offset \in Nat
            /\ WholeInode(file[c].inode)
        BY <4>1 DEF RefInv, FilesOK
      <4>3. file'[c].inode = file[c].inode
        BY <4>1
      <4> QED
        BY <1>0, <4>1, <4>2, <4>3, SameWhole
    <3>5. ASSUME NEW c \in Block, file'[c] # NULL
          PROVE  /\ file'[c].id \in 0..(opened' - 1) /\ file'[c].offset \in Nat
                 /\ WholeInode(file[c].inode)'
      <4>1. CASE c = b
        BY <1>0, <2>2, <3>2, <3>3, <4>1
      <4>2. CASE c # b
        BY <1>0, <2>2, <3>4, <3>5, <4>2
      <4> QED
        BY <4>1, <4>2
    <3>6. ASSUME NEW c \in Block, NEW d \in Block, file'[c] # NULL, file'[d] # NULL,
                 file'[c].id = file'[d].id
          PROVE  c = d
      <4>1. file'[b].id = opened
        BY <3>2
      <4>2. CASE c = b \/ d = b
        BY <1>0, <3>4, <3>6, <4>1, <4>2
      <4>3. CASE c # b /\ d # b
        BY <2>3, <3>6, <4>3 DEF RefInv, FilesOK
      <4> QED
        BY <4>2, <4>3
    <3>7. opened' \in Nat /\ nodes' # NULL
      BY <1>0, <2>2
    <3> QED
      BY <3>5, <3>6, <3>7 DEF FilesOK
  <2> QED
    BY <2>4, <2>5
<1> QED
  BY <1>1, <1>2

\* What read(), getdents64() and lseek() leave of an offset.
LEMMA OffsetsStayNatural ==
    ASSUME RefInv, NEW t \in Task, NEW fd \in Fd,
           \/ \E len \in ReadLen : sys_read(t, fd, len)
           \/ \E count \in Count : sys_getdents64(t, fd, count)
           \/ \E to \in SeekTo, whence \in {"SEEK_SET", "SEEK_CUR", "SEEK_END"} :
                sys_lseek(t, fd, to, whence)
    PROVE  FilesOK'
<1> DEFINE b == fds[t][fd]
<1>0. /\ fds[t] # NULL /\ nodes' = nodes /\ nodes # NULL /\ opened' = opened
      /\ real_file(t, fd) = b /\ opened \in Nat
  <2>1. fds[t] # NULL /\ nodes' = nodes /\ opened' = opened
    BY DEF sys_read, sys_getdents64, sys_lseek, Live, Idle
  <2>2. real_file(t, fd) = b
    BY DEF real_file
  <2>3. nodes # NULL /\ opened \in Nat
    BY <2>1, CallsAreMounted DEF RefInv, FilesOK
  <2> QED
    BY <2>1, <2>2, <2>3
<1>1. CASE file' = file
  BY <1>0, <1>1, FreedOK DEF RefInv
<1>2. ASSUME b # NULL, NEW p \in Nat, set_offset(b, p) PROVE FilesOK'
  <2>1. b \in Block /\ file[b] # NULL
    BY <1>0, <1>2, OffsetIs
  <2> QED
    BY <1>0, <1>2, <2>1, OffsetOK
<1>3. ASSUME b # NULL
      PROVE  file[b].offset \in Nat /\ WholeInode(file[b].inode) /\ file[b].inode.size \in Nat
  BY <1>0, <1>3, OffsetIs
<1>4. ASSUME NEW len \in ReadLen, sys_read(t, fd, len), file' # file PROVE FilesOK'
  <2>1. b # NULL /\ set_offset(b, file[b].offset + bytes_read(file[b], len))
    BY <1>0, <1>4 DEF sys_read
  <2>2. len \in Nat \ {0}
    BY FilesAssumption
  <2>3. bytes_read(file[b], len) \in Nat
    BY <1>3, <2>1, <2>2, BytesRead
  <2>4. file[b].offset + bytes_read(file[b], len) \in Nat
    BY <1>3, <2>1, <2>3
  <2> QED
    BY <1>2, <2>1, <2>4
<1>5. ASSUME NEW count \in Count, sys_getdents64(t, fd, count), file' # file PROVE FilesOK'
  <2>1. b # NULL /\ file[b].inode.is_dir
        /\ set_offset(b, file[b].offset + Len(emitted(file[b], count)))
    BY <1>0, <1>5 DEF sys_getdents64
  <2>2. count \in Nat
    BY FilesAssumption
  <2>3. Len(emitted(file[b], count)) \in Nat
    BY <1>3, <2>1, <2>2, EmittedIs
  <2>4. file[b].offset + Len(emitted(file[b], count)) \in Nat
    BY <1>3, <2>1, <2>3
  <2> QED
    BY <1>2, <2>1, <2>4
<1>6. ASSUME NEW to \in SeekTo, NEW whence \in {"SEEK_SET", "SEEK_CUR", "SEEK_END"},
             sys_lseek(t, fd, to, whence), file' # file
      PROVE  FilesOK'
  <2>1. b # NULL /\ ~(seek_base(file[b], whence) + to < 0)
        /\ set_offset(b, seek_base(file[b], whence) + to)
    BY <1>0, <1>6 DEF sys_lseek
  <2>2. to \in Int
    BY FilesAssumption
  <2>3. seek_base(file[b], whence) \in Nat
    BY <1>3, <2>1 DEF seek_base
  <2>4. seek_base(file[b], whence) + to \in Nat
    BY <2>1, <2>2, <2>3
  <2> QED
    BY <1>2, <2>1, <2>4
<1> QED
  BY <1>1, <1>4, <1>5, <1>6

\* Every step keeps the numbers apart and the offsets natural.
LEMMA RefStep ==
    ASSUME NullIsNoFile, TRUE \notin SharedClose
    PROVE  RefInv /\ LookupsAreWhole /\ [Next]_vars => RefInv'
<1> SUFFICES ASSUME RefInv, LookupsAreWhole, [Next]_vars PROVE FilesOK'
  BY LiveStep DEF RefInv
<1>0. FilesOK /\ opened \in Nat
  BY DEF RefInv, FilesOK
<1>1. ASSUME NEW t \in Task, fds[t] # NULL, Idle, opened' = opened,
             \A b \in Block : file'[b] # NULL => file'[b] = file[b]
      PROVE  FilesOK'
  <2>1. nodes' = nodes /\ nodes # NULL /\ opened' \in Nat /\ opened' >= opened
    BY <1>0, <1>1, CallsAreMounted DEF Idle
  <2> QED
    BY <1>0, <1>1, <2>1, FreedOK
<1>2. CASE kernel_main
  <2>1. UNCHANGED <<file, fds, opened>> /\ nodes = NULL
    BY <1>2 DEF kernel_main
  <2>2. (\A b \in Block : file[b] = NULL) /\ \A t \in Task : fds[t] = NULL
    BY <1>0, <2>1 DEF FilesOK
  <2> QED
    BY <1>0, <2>1, <2>2 DEF FilesOK
<1>3. CASE tick \/ UNCHANGED vars \/ \E t \in Task : spawn(t)
  <2>1. UNCHANGED <<file, opened, nodes>>
    BY <1>3 DEF tick, vars, spawn, Idle
  <2>2. CASE nodes # NULL
    <3>1. \A b \in Block : file'[b] # NULL => file'[b] = file[b]
      BY <2>1
    <3> QED
      BY <1>0, <2>1, <2>2, <3>1, FreedOK
  <2>3. CASE nodes = NULL
    <3>1. UNCHANGED fds
      BY <1>3, <2>3 DEF tick, vars, spawn
    <3>2. \A b \in Block : file[b] = NULL
      BY <1>0, <2>3 DEF FilesOK
    <3> QED
      BY <1>0, <2>1, <3>1, <3>2 DEF FilesOK
  <2> QED
    BY <2>2, <2>3
<1>4. ASSUME NEW t \in Task, exit(t) PROVE FilesOK'
  BY <1>1, <1>4 DEF exit, Live
<1>5. ASSUME NEW t \in Task, NEW c \in Task, sys_fork(t, c) PROVE FilesOK'
  BY <1>1, <1>5 DEF sys_fork, Live
<1>6. ASSUME NEW t \in Task, NEW path \in Path, sys_openat(t, path) PROVE FilesOK'
  BY <1>6, OpenOK
<1>7. ASSUME NEW t \in Task, NEW path \in Path, query(t, path) PROVE FilesOK'
  BY <1>1, <1>7 DEF query, Live
<1>8. ASSUME NEW t \in Task, NEW fd \in Fd, sys_close(t, fd) PROVE FilesOK'
  <2>1. \A b \in Block : file'[b] # NULL => file'[b] = file[b]
    BY <1>8 DEF sys_close, RefInv, LiveInv, TablesOK
  <2> QED
    BY <1>1, <1>8, <2>1 DEF sys_close, Live
<1>9. ASSUME NEW t \in Task, NEW fd \in Fd, sys_fstat(t, fd) PROVE FilesOK'
  BY <1>1, <1>9 DEF sys_fstat, Live
<1>10. ASSUME NEW t \in Task, NEW fd \in Fd,
              \/ \E len \in ReadLen : sys_read(t, fd, len)
              \/ \E count \in Count : sys_getdents64(t, fd, count)
              \/ \E to \in SeekTo, whence \in {"SEEK_SET", "SEEK_CUR", "SEEK_END"} :
                   sys_lseek(t, fd, to, whence)
       PROVE  FilesOK'
  BY <1>10, OffsetsStayNatural
<1> QED
  BY <1>2, <1>3, <1>4, <1>5, <1>6, <1>7, <1>8, <1>9, <1>10 DEF Next

----------------------------------------------------------------------------
(* Each call does what Descriptors says *)

\* Both views of a step's two states.
LEMMA Views ==
    ASSUME RefInv, RefInv'
    PROVE  TabOK /\ TabOK' /\ DescOK /\ DescOK'
<1>1. (RefInv' => TabOK') /\ (RefInv' => DescOK')
  BY DescIs, TabIs, PTL
<1> QED
  BY <1>1, DescIs, TabIs

\* A File that is allocated before and after a step is the same.
NoFileChanges == \A c \in Block : file[c] # NULL /\ file'[c] # NULL => file'[c] = file[c]

\* A slot that stays as it is keeps its number.
LEMMA SameSlot ==
    ASSUME RefInv, RefInv', NoFileChanges, NEW t \in Task, NEW u \in Task, NEW g \in Fd,
           fds[t] # NULL, fds'[u] # NULL, fds'[u][g] = fds[t][g]
    PROVE  Tab'[u][g] = Tab[t][g]
<1>1. TabOK /\ TabOK'
  BY Views
<1>2. CASE fds[t][g] = NULL
  BY <1>1, <1>2 DEF TabOK
<1>3. CASE fds[t][g] # NULL
  <2> DEFINE c == fds[t][g]
  <2>1. c \in Block /\ file[c] # NULL /\ Tab[t][g] = file[c].id
    BY <1>1, <1>3 DEF TabOK
  <2>2. file'[c] # NULL /\ Tab'[u][g] = file'[c].id
    BY <1>1, <1>3 DEF TabOK
  <2> QED
    BY <2>1, <2>2 DEF NoFileChanges
<1> QED
  BY <1>2, <1>3

\* A table that stays as it is keeps its numbers.
LEMMA SameTable ==
    ASSUME RefInv, RefInv', NoFileChanges, NEW t \in Task, NEW u \in Task, fds'[u] = fds[t]
    PROVE  Tab'[u] = Tab[t]
<1>1. TabOK /\ TabOK'
  BY Views
<1>2. CASE fds[t] = NULL
  BY <1>1, <1>2 DEF TabOK
<1>3. CASE fds[t] # NULL
  <2>1. \A g \in Fd : Tab'[u][g] = Tab[t][g]
    BY <1>3, SameSlot
  <2>2. Tab'[u] = [g \in Fd |-> Tab'[u][g]] /\ Tab[t] = [g \in Fd |-> Tab[t][g]]
    BY <1>1, <1>3 DEF TabOK
  <2> QED
    BY <2>1, <2>2
<1> QED
  BY <1>2, <1>3

\* Steps that change no table and no File.
LEMMA Unchanged ==
    ASSUME RefInv, RefInv', UNCHANGED <<file, fds, nodes>>
    PROVE  Tab' = Tab /\ Desc' = Desc
<1>1. Tab' = Tab
  BY DEF Tab
<1>2. \A b \in Block : Holders(b)' = Holders(b) /\ file'[b] = file[b]
  BY DEF Holders, Live
<1>3. \A b \in Block : (Holders(b) # {})' => Holders(b) # {} /\ file'[b] = file[b]
  BY <1>2
<1>4. \A b \in Block : Holders(b) # {} => (Holders(b) # {})'
  BY <1>2
<1> QED
  BY <1>1, <1>3, <1>4, Restricted

LEMMA ErrorSteps ==
    ASSUME RefInv, RefInv', UNCHANGED <<file, fds, nodes>>, NEW e, Fails(e)
    PROVE  D!Error(e)
  BY Unchanged DEF D!Error, Fails

\* One task's table becomes another one.
LEMMA TableSet ==
    ASSUME RefInv, RefInv', NoFileChanges, NEW t \in Task, NEW v,
           fds' = [fds EXCEPT ![t] = v]
    PROVE  Tab' = [Tab EXCEPT ![t] = Tab'[t]]
<1>1. TabOK /\ TabOK'
  BY Views
<1>2. \A u \in Task : u # t => fds'[u] = fds[u]
  BY DEF RefInv, LiveInv, TablesOK
<1>3. \A u \in Task : u # t => Tab'[u] = Tab[u]
  BY <1>2, SameTable
<1>4. Tab = [u \in Task |-> Tab[u]] /\ Tab' = [u \in Task |-> Tab'[u]]
  BY <1>1 DEF TabOK
<1> QED
  BY <1>3, <1>4

\* One slot is written.
LEMMA SlotSet ==
    ASSUME RefInv, RefInv', NoFileChanges, NEW t \in Task, NEW fd \in Fd,
           NEW v \in Block \cup {NULL}, fds[t] # NULL, fds' = written(t, fd, v)
    PROVE  Tab' = [Tab EXCEPT ![t][fd] = Tab'[t][fd]]
<1>1. TabOK /\ TabOK'
  BY Views
<1>2. /\ fds'[t] # NULL
      /\ \A u \in Task : fds'[u] # NULL <=> fds[u] # NULL
      /\ \A u \in Task, g \in Fd : u # t \/ g # fd => fds'[u][g] = fds[u][g]
  BY SlotWrite DEF RefInv, LiveInv
<1>3. \A u \in Task : u # t => fds'[u] = fds[u]
  BY DEF written, RefInv, LiveInv, TablesOK
<1>4. \A u \in Task : u # t => Tab'[u] = Tab[u]
  BY <1>3, SameTable
<1>5. \A g \in Fd : g # fd => Tab'[t][g] = Tab[t][g]
  BY <1>2, SameSlot
<1>6. Tab[t] = [g \in Fd |-> Tab[t][g]] /\ Tab'[t] = [g \in Fd |-> Tab'[t][g]]
  BY <1>1, <1>2 DEF TabOK
<1> DEFINE x == Tab'[t][fd]
<1>7. Tab'[t] = [Tab[t] EXCEPT ![fd] = x]
  BY <1>5, <1>6
<1>8. Tab = [u \in Task |-> Tab[u]] /\ Tab' = [u \in Task |-> Tab'[u]]
  BY <1>1 DEF TabOK
<1>9. Tab' = [Tab EXCEPT ![t] = [Tab[t] EXCEPT ![fd] = x]]
  <2> DEFINE y == [Tab[t] EXCEPT ![fd] = x]
  <2>1. Tab'[t] = y
    BY <1>7
  <2> HIDE DEF y, x
  <2>2. Tab' = [Tab EXCEPT ![t] = y]
    BY <1>4, <1>8, <2>1
  <2> QED
    BY <2>2 DEF y
<1> QED
  BY <1>9

LEMMA SpawnStarts ==
    ASSUME RefInv, RefInv', NEW t \in Task, spawn(t)
    PROVE  D!Start(t)
<1>1. /\ fds[t] = NULL /\ fds' = [fds EXCEPT ![t] = [fd \in Fd |-> NULL]]
      /\ file' = file /\ ret' = ret /\ nodes' = nodes
  BY DEF spawn, Live, Idle
<1>2. TabOK /\ TabOK' /\ NoFileChanges
  BY <1>1, Views DEF NoFileChanges
<1>3. fds'[t] = [fd \in Fd |-> NULL] /\ (\A u \in Task : u # t => fds'[u] = fds[u])
  BY <1>1 DEF RefInv, LiveInv, TablesOK
<1>4. fds'[t] # NULL
  <2>1. fds'[t] \in [Fd -> Block \cup {NULL}]
    BY <1>3
  <2> QED
    BY <2>1, FilesAssumption
<1>5. Tab'[t] = [fd \in Fd |-> NULL]
  <2>1. \A fd \in Fd : Tab'[t][fd] = NULL
    BY <1>2, <1>3, <1>4 DEF TabOK
  <2>2. Tab'[t] = [fd \in Fd |-> Tab'[t][fd]]
    BY <1>2, <1>4 DEF TabOK
  <2> QED
    BY <2>1, <2>2
<1>6. Tab' = [Tab EXCEPT ![t] = [fd \in Fd |-> NULL]]
  BY <1>1, <1>2, <1>5, TableSet
<1>7. \A b \in Block : Holders(b)' = Holders(b) /\ file'[b] = file[b]
  <2>1. ASSUME NEW b \in Block, NEW u \in Task PROVE u \in Holders(b)' <=> u \in Holders(b)
    <3>1. b # NULL
      BY FilesAssumption
    <3>2. CASE u = t
      BY <1>1, <1>3, <3>1, <3>2 DEF Holders, Live
    <3>3. CASE u # t
      BY <1>3, <3>3 DEF Holders, Live
    <3> QED
      BY <3>2, <3>3
  <2>2. \A b \in Block : Holders(b) \subseteq Task /\ Holders(b)' \subseteq Task
    BY DEF Holders, Live
  <2> QED
    BY <1>1, <2>1, <2>2
<1>8. \A b \in Block : (Holders(b) # {})' => Holders(b) # {} /\ file'[b] = file[b]
  BY <1>7
<1>9. \A b \in Block : Holders(b) # {} => (Holders(b) # {})'
  BY <1>7
<1>10. Desc' = Desc
  BY <1>1, <1>8, <1>9, Restricted
<1>11. t \notin D!Live
  BY <1>1, <1>2 DEF TabOK, D!Live
<1> QED
  BY <1>1, <1>6, <1>10, <1>11 DEF D!Start

LEMMA ExitEnds ==
    ASSUME RefInv, RefInv', NEW t \in Task, exit(t)
    PROVE  D!Exit(t)
<1>1. /\ fds[t] # NULL /\ fds' = [fds EXCEPT ![t] = NULL]
      /\ file' = file /\ ret' = ret /\ nodes' = nodes
  BY DEF exit, Live, Idle
<1>2. TabOK /\ TabOK' /\ NoFileChanges
  BY <1>1, Views DEF NoFileChanges
<1>3. fds'[t] = NULL /\ (\A u \in Task : u # t => fds'[u] = fds[u])
  BY <1>1 DEF RefInv, LiveInv, TablesOK
<1>4. Tab'[t] = NULL
  BY <1>2, <1>3 DEF TabOK
<1>5. Tab' = [Tab EXCEPT ![t] = NULL]
  BY <1>1, <1>2, <1>4, TableSet
<1>6. \A b \in Block : (Holders(b) # {})' => Holders(b) # {} /\ file'[b] = file[b]
  BY <1>1, <1>3 DEF Holders, Live
<1>7. Desc' = D!Restrict(Desc, D!Held(Tab') \cap DOMAIN Desc)
  BY <1>1, <1>6, Restricted
<1>8. D!SetTab([Tab EXCEPT ![t] = NULL])
  BY <1>5, <1>7 DEF D!SetTab
<1>9. t \in D!Live
  BY <1>1, <1>2 DEF TabOK, D!Live
<1> QED
  BY <1>1, <1>8, <1>9 DEF D!Exit

LEMMA ForkCopies ==
    ASSUME RefInv, RefInv', NEW t \in Task, NEW c \in Task, sys_fork(t, c)
    PROVE  D!Fork(t, c)
<1>1. /\ fds[t] # NULL /\ fds[c] = NULL /\ fds' = [fds EXCEPT ![c] = fds[t]]
      /\ file' = file /\ ret' = ret /\ nodes' = nodes
  BY DEF sys_fork, Live, Idle
<1>2. TabOK /\ TabOK' /\ NoFileChanges
  BY <1>1, Views DEF NoFileChanges
<1>3. fds'[c] = fds[t] /\ (\A u \in Task : u # c => fds'[u] = fds[u])
  BY <1>1 DEF RefInv, LiveInv, TablesOK
<1>4. Tab'[c] = Tab[t]
  BY <1>2, <1>3, SameTable
<1>5. Tab' = [Tab EXCEPT ![c] = Tab[t]]
  BY <1>1, <1>2, <1>4, TableSet
<1>6. \A b \in Block : (Holders(b) # {})' => Holders(b) # {} /\ file'[b] = file[b]
  BY <1>1, <1>3 DEF Holders, Live
<1>7. \A b \in Block : Holders(b) # {} => (Holders(b) # {})'
  BY <1>1, <1>3 DEF Holders, Live
<1>8. Desc' = Desc
  BY <1>1, <1>6, <1>7, Restricted
<1>9. t \in D!Live /\ c \notin D!Live
  BY <1>1, <1>2 DEF TabOK, D!Live
<1> QED
  BY <1>1, <1>5, <1>8, <1>9 DEF D!Fork

\* The free slots are the free descriptors.
LEMMA SlotsAre ==
    ASSUME RefInv, NEW t \in Task, fds[t] # NULL
    PROVE  t \in D!Live /\ FreeFds(t) = Fd \ D!OpenFds(t)
<1>1. TabOK
  BY TabIs
<1>2. \A fd \in Fd : Tab[t][fd] = NULL <=> fds[t][fd] = NULL
  BY <1>1 DEF TabOK
<1>3. t \in D!Live
  BY <1>1 DEF TabOK, D!Live
<1> QED
  BY <1>2, <1>3 DEF FreeFds, D!OpenFds

\* alloc_fd() gives the lowest free descriptor, and none only when none is.
LEMMA AllocatedIsLowest ==
    ASSUME RefInv, NEW t \in Task, fds[t] # NULL
    PROVE  /\ alloc_fd(t) = NULL => D!OpenFds(t) = Fd
           /\ alloc_fd(t) # NULL =>
                /\ alloc_fd(t) \in Fd \ D!OpenFds(t)
                /\ \A g \in Fd \ D!OpenFds(t) : alloc_fd(t) <= g
<1>1. FreeFds(t) = Fd \ D!OpenFds(t) /\ D!OpenFds(t) \subseteq Fd
  BY SlotsAre DEF D!OpenFds
<1>2. FreeFds(t) \subseteq Nat /\ NULL \notin Nat
  BY FilesAssumption DEF FreeFds, Fd
<1>3. CASE FreeFds(t) = {}
  BY <1>1, <1>3 DEF alloc_fd
<1>4. CASE FreeFds(t) # {}
  <2>1. Min(FreeFds(t)) \in FreeFds(t) /\ \A j \in FreeFds(t) : Min(FreeFds(t)) <= j
    BY <1>2, <1>4, MinIsLeast
  <2>2. alloc_fd(t) = Min(FreeFds(t)) /\ alloc_fd(t) # NULL
    BY <1>2, <1>4, <2>1 DEF alloc_fd
  <2> QED
    BY <1>1, <2>1, <2>2
<1> QED
  BY <1>3, <1>4

LEMMA OpenOpens ==
    ASSUME RefInv, RefInv', NullIsNoFile, NEW t \in Task, NEW path \in Path,
           sys_openat(t, path)
    PROVE  D!Open(t) \/ D!OpenFails(t)
<1>0. fds[t] # NULL /\ nodes' = nodes /\ t \in D!Live
  BY SlotsAre DEF sys_openat, Live, Idle
<1>1. CASE target(path) = NULL
  <2>1. Fails("ENOENT") /\ UNCHANGED <<file, fds, nodes>>
    BY <1>0, <1>1 DEF sys_openat
  <2>2. D!Error("ENOENT")
    BY <2>1, ErrorSteps
  <2> QED
    BY <1>0, <2>2 DEF D!OpenFails
<1>2. CASE target(path) # NULL
  <2> DEFINE fd == alloc_fd(t)
  <2>1. PICK b \in Block :
          /\ file[b] = NULL
          /\ file' = [file EXCEPT ![b] = keep_or_free(fd, NewFile(target(path)))]
          /\ IF fd = NULL THEN Fails("EMFILE") /\ UNCHANGED fds
             ELSE ret' = [fd |-> fd] /\ fds' = [fds EXCEPT ![t][fd] = b]
    BY <1>2 DEF sys_openat
  <2>2. file = [c \in Block |-> file[c]]
    BY DEF RefInv, LiveInv, TablesOK
  <2>3. CASE fd = NULL
    <3>1. file' = file
      BY <2>1, <2>2, <2>3 DEF keep_or_free
    <3>2. Fails("EMFILE") /\ UNCHANGED <<file, fds, nodes>>
      BY <1>0, <2>1, <2>3, <3>1
    <3>3. D!Error("EMFILE")
      BY <3>2, ErrorSteps
    <3>4. D!OpenFds(t) = Fd
      BY <1>0, <2>3, AllocatedIsLowest
    <3> QED
      BY <1>0, <3>3, <3>4 DEF D!OpenFails
  <2>4. CASE fd # NULL
    <3>0. fd \in Fd \ D!OpenFds(t) /\ (\A g \in Fd \ D!OpenFds(t) : fd <= g)
          /\ fds[t][fd] = NULL
      BY <1>0, <2>4, AllocatedIsLowest, AllocatedIsFree
    <3>1. file'[b] = NewFile(target(path)) /\ \A c \in Block : c # b => file'[c] = file[c]
      BY <2>1, <2>2, <2>4 DEF keep_or_free
    <3>2. fds' = written(t, fd, b) /\ ret' = [fd |-> fd]
      BY <2>1, <2>4 DEF written
    <3> HIDE DEF fd
    <3>3. NoFileChanges /\ TabOK /\ TabOK' /\ DescOK /\ DescOK'
      BY <2>1, <3>1, Views DEF NoFileChanges
    <3>4. /\ fds'[t] # NULL /\ fds'[t][fd] = b
          /\ \A u \in Task : fds'[u] # NULL <=> fds[u] # NULL
          /\ \A u \in Task, g \in Fd : u # t \/ g # fd => fds'[u][g] = fds[u][g]
      BY <1>0, <3>0, <3>2, SlotWrite DEF RefInv, LiveInv
    <3>5. Tab' = [Tab EXCEPT ![t][fd] = Tab'[t][fd]]
      BY <1>0, <3>0, <3>2, <3>3, SlotSet
    <3>6. b # NULL
      BY FilesAssumption
    <3>7. Tab'[t][fd] = opened /\ file'[b].offset = 0 /\ file'[b].id = opened
      <4>1. Tab'[t][fd] = file'[b].id
        BY <3>0, <3>3, <3>4, <3>6 DEF TabOK
      <4> QED
        BY <3>1, <4>1 DEF NewFile
    <3>8. \A c \in Block : c # b => (Holders(c)' = Holders(c))
      <4> SUFFICES ASSUME NEW c \in Block, c # b PROVE Holders(c)' = Holders(c)
        OBVIOUS
      <4>1. c # NULL
        BY FilesAssumption
      <4>2. ASSUME NEW u \in Task, NEW g \in Fd PROVE fds'[u][g] = c <=> fds[u][g] = c
        BY <3>0, <3>4, <4>1
      <4> QED
        BY <3>4, <4>2 DEF Holders, Live
    <3>9. t \in Holders(b)' /\ Holders(b) = {}
      <4>1. t \in Holders(b)'
        BY <3>0, <3>4 DEF Holders, Live
      <4>2. Holders(b) = {}
        BY <2>1, <3>3 DEF DescOK
      <4> QED
        BY <4>1, <4>2
    <3>10. opened \notin D!Held(Tab) /\ opened # NULL /\ opened \in D!Held(Tab')
      <4>1. opened \in Nat /\ \A c \in Block : file[c] # NULL => file[c].id # opened
        BY DEF RefInv, FilesOK
      <4>2. \A id \in D!Held(Tab) : \E c \in Block : file[c] # NULL /\ file[c].id = id
        BY <3>3 DEF DescOK
      <4>3. file'[b].id \in D!Held(Tab')
        BY <3>3, <3>9 DEF DescOK
      <4> QED
        BY <3>7, <4>1, <4>2, <4>3, FilesAssumption
    <3>11. ASSUME NEW id \in D!Held(Tab) PROVE id \in D!Held(Tab') /\ Desc'[id] = Desc[id]
      <4>1. PICK c \in Block : Holders(c) # {} /\ file[c].id = id
        BY <3>3 DEF DescOK
      <4>2. c # b /\ file'[c] = file[c] /\ (Holders(c) # {})'
        BY <3>1, <3>8, <3>9, <4>1
      <4>3. /\ Desc[id] = Described(file[c]) /\ Desc'[id] = Described(file[c])'
            /\ id \in D!Held(Tab')
        BY <3>3, <4>1, <4>2 DEF DescOK
      <4> QED
        BY <1>0, <4>2, <4>3, SameDescribed
    <3>12. ASSUME NEW id \in D!Held(Tab'), id # opened PROVE id \in D!Held(Tab)
      <4>1. PICK c \in Block : (Holders(c) # {})' /\ file'[c].id = id
        BY <3>3 DEF DescOK
      <4>2. c # b
        BY <3>7, <3>12, <4>1
      <4>3. file'[c] = file[c] /\ Holders(c) # {}
        BY <3>1, <3>8, <4>1, <4>2
      <4> QED
        BY <3>3, <4>1, <4>3 DEF DescOK
    <3>13. /\ Desc = [id \in D!Held(Tab) |-> Desc[id]]
           /\ Desc' = [id \in D!Held(Tab') |-> Desc'[id]]
      BY <3>3 DEF DescOK
    <3>14. DOMAIN Desc = D!Held(Tab) /\ DOMAIN Desc' = D!Held(Tab')
      BY <3>13
    <3>15. DOMAIN Desc' = DOMAIN Desc \cup {opened}
      BY <3>10, <3>11, <3>12, <3>14
    <3>16. D!Restrict(Desc', DOMAIN Desc) = Desc
      <4>1. D!Restrict(Desc', DOMAIN Desc) = [id \in D!Held(Tab) |-> Desc'[id]]
        BY <3>14 DEF D!Restrict
      <4> QED
        BY <3>11, <3>13, <4>1
    <3>17. Desc'[opened].pos = 0
      <4>1. Desc'[opened] = Described(file[b])'
        BY <3>3, <3>7, <3>9 DEF DescOK
      <4> QED
        BY <3>7, <4>1 DEF Described
    <3>18. opened \notin DOMAIN Desc \cup {NULL}
      BY <3>10, <3>14
    <3> QED
      BY <1>0, <3>0, <3>2, <3>5, <3>7, <3>15, <3>16, <3>17, <3>18 DEF D!Open
  <2> QED
    BY <2>3, <2>4
<1> QED
  BY <1>1, <1>2

\* A descriptor that is not open is refused.
LEMMA BadFdFails ==
    ASSUME RefInv, RefInv', NEW t \in Task, NEW fd \in Fd, fds[t] # NULL, fds[t][fd] = NULL,
           UNCHANGED <<file, fds, nodes>>, Fails("EBADF")
    PROVE  D!BadFd(t)
<1>1. t \in D!Live /\ fd \in FreeFds(t) /\ FreeFds(t) = Fd \ D!OpenFds(t)
  BY SlotsAre DEF FreeFds
<1>2. D!OpenFds(t) # Fd
  BY <1>1
<1>3. D!Error("EBADF")
  BY ErrorSteps
<1> QED
  BY <1>1, <1>2, <1>3 DEF D!BadFd

LEMMA CloseCloses ==
    ASSUME RefInv, RefInv', TRUE \notin SharedClose, NEW t \in Task, NEW fd \in Fd,
           sys_close(t, fd)
    PROVE  D!Close(t, fd) \/ D!BadFd(t)
<1> DEFINE b == fds[t][fd]
<1>0. fds[t] # NULL /\ nodes' = nodes /\ real_file(t, fd) = b
  BY DEF sys_close, Live, Idle, real_file
<1>1. CASE b = NULL
  <2>1. Fails("EBADF") /\ UNCHANGED <<file, fds, nodes>>
    BY <1>0, <1>1 DEF sys_close
  <2> QED
    BY <1>0, <1>1, <2>1, BadFdFails
<1>2. CASE b # NULL
  <2>1. /\ file' = [file EXCEPT ![b] = NULL] /\ fds' = written(t, fd, NULL)
        /\ ret' = [n |-> 0] /\ Holders(b) = {t}
    BY <1>0, <1>2 DEF sys_close, table_after_close, written
  <2>2. b \in Block /\ fd \in D!OpenFds(t) /\ file = [c \in Block |-> file[c]]
    BY <1>0, <1>2, OffsetIs DEF RefInv, LiveInv, TablesOK
  <2>3. file'[b] = NULL /\ \A c \in Block : c # b => file'[c] = file[c]
    BY <2>1, <2>2
  <2>4. NoFileChanges /\ TabOK /\ TabOK' /\ DescOK'
    BY <2>3, Views DEF NoFileChanges
  <2>5. /\ fds'[t] # NULL /\ fds'[t][fd] = NULL
        /\ \A u \in Task : fds'[u] # NULL <=> fds[u] # NULL
        /\ \A u \in Task, g \in Fd : u # t \/ g # fd => fds'[u][g] = fds[u][g]
    BY <1>0, <2>1, SlotWrite DEF RefInv, LiveInv
  <2>6. Tab'[t][fd] = NULL
    BY <2>4, <2>5 DEF TabOK
  <2>7. Tab' = [Tab EXCEPT ![t][fd] = NULL]
    BY <1>0, <2>1, <2>4, <2>6, SlotSet
  <2>8. ASSUME NEW c \in Block, (Holders(c) # {})'
        PROVE  Holders(c) # {} /\ file'[c] = file[c]
    <3>1. file'[c] # NULL
      BY <2>4, <2>8 DEF DescOK
    <3>2. c # b /\ file'[c] = file[c]
      BY <2>3, <3>1
    <3>3. PICK u \in Task, g \in Fd : fds'[u] # NULL /\ fds'[u][g] = c
      BY <2>8 DEF Holders, Live
    <3>4. c # NULL
      BY FilesAssumption
    <3>5. u \in Holders(c)
      BY <2>5, <3>3, <3>4 DEF Holders, Live
    <3> QED
      BY <3>2, <3>5
  <2>9. Desc' = D!Restrict(Desc, D!Held(Tab') \cap DOMAIN Desc)
    BY <1>0, <2>8, Restricted
  <2>10. D!SetTab([Tab EXCEPT ![t][fd] = NULL])
    BY <2>7, <2>9 DEF D!SetTab
  <2> QED
    BY <2>1, <2>2, <2>10 DEF D!Close
<1> QED
  BY <1>1, <1>2

\* What the description of an open descriptor says.
LEMMA DescriptionIs ==
    ASSUME RefInv, NEW t \in Task, NEW fd \in Fd, fds[t] # NULL, fds[t][fd] # NULL
    PROVE  LET f == file[fds[t][fd]]
               d == Desc[Tab[t][fd]]
           IN  /\ d.pos = f.offset /\ d.inode.is_dir = f.inode.is_dir
               /\ d.inode.size = f.inode.size /\ d.inode.at = f.inode.at
               /\ d.inode.list = shown(listing(f.inode))
<1>1. Desc[Tab[t][fd]] = Described(file[fds[t][fd]])
  BY OffsetIs
<1> QED
  BY <1>1 DEF Described, AbstractInode

LEMMA ReadReads ==
    ASSUME RefInv, RefInv', NEW t \in Task, NEW fd \in Fd, NEW len \in ReadLen,
           sys_read(t, fd, len)
    PROVE  D!Read(t, fd) \/ D!BadFd(t)
<1> DEFINE b == fds[t][fd]
           n == bytes_read(file[b], len)
           d == Desc[Tab[t][fd]]
<1>0. fds[t] # NULL /\ nodes' = nodes /\ fds' = fds /\ real_file(t, fd) = b
  BY DEF sys_read, Live, Idle, real_file
<1>1. CASE b = NULL
  <2>1. Fails("EBADF") /\ UNCHANGED <<file, fds, nodes>>
    BY <1>0, <1>1 DEF sys_read
  <2> QED
    BY <1>0, <1>1, <2>1, BadFdFails
<1>2. CASE b # NULL
  <2>0. /\ b \in Block /\ Holders(b) # {} /\ file[b].offset \in Nat /\ file[b].inode.size \in Nat
        /\ fd \in D!OpenFds(t) /\ Tab[t][fd] = file[b].id
    BY <1>0, <1>2, OffsetIs
  <2>1. /\ d.pos = file[b].offset /\ d.inode.is_dir = file[b].inode.is_dir
        /\ d.inode.size = file[b].inode.size /\ d.inode.at = file[b].inode.at
    BY <1>0, <1>2, DescriptionIs
  <2>2. CASE file[b].inode.is_dir
    <3>1. Fails("EIO") /\ UNCHANGED <<file, fds, nodes>>
      BY <1>0, <1>2, <2>2 DEF sys_read
    <3>2. D!Error("EIO")
      BY <3>1, ErrorSteps
    <3> QED
      BY <2>0, <2>1, <2>2, <3>2 DEF D!Read
  <2>3. CASE ~file[b].inode.is_dir
    <3>1. /\ set_offset(b, file[b].offset + n)
          /\ ret' = [at |-> file[b].inode.at, from |-> file[b].offset, n |-> n]
      BY <1>0, <1>2, <2>3 DEF sys_read
    <3>2. /\ n \in 0..file[b].inode.size
          /\ IF n = 0 THEN file[b].offset >= file[b].inode.size
             ELSE file[b].offset + n <= file[b].inode.size
      BY <2>0, BytesRead, FilesAssumption
    <3> HIDE DEF n
    <3>3. D!MoveTo(file[b].id, file[b].offset + n)
      BY <1>0, <2>0, <3>1, Moved
    <3>4. /\ n \in 0..d.inode.size /\ ~d.inode.is_dir
          /\ IF n = 0 THEN d.pos >= d.inode.size ELSE d.pos + n <= d.inode.size
          /\ ret' = [at |-> d.inode.at, from |-> d.pos, n |-> n]
      BY <2>1, <2>3, <3>1, <3>2
    <3>5. D!MoveTo(Tab[t][fd], d.pos + n)
      BY <2>0, <2>1, <3>3
    <3>6. \E m \in 0..d.inode.size :
            /\ ~d.inode.is_dir
            /\ IF m = 0 THEN d.pos >= d.inode.size ELSE d.pos + m <= d.inode.size
            /\ D!MoveTo(Tab[t][fd], d.pos + m)
            /\ ret' = [at |-> d.inode.at, from |-> d.pos, n |-> m]
      <4> HIDE DEF d
      <4> QED
        BY <3>4, <3>5, Zenon
    <3>7. D!Read(t, fd)
      BY <2>0, <3>6, Zenon DEF D!Read
    <3> QED
      BY <3>7
  <2> QED
    BY <2>2, <2>3
<1> QED
  BY <1>1, <1>2

LEMMA GetdentsLists ==
    ASSUME RefInv, RefInv', NEW t \in Task, NEW fd \in Fd, NEW count \in Count,
           sys_getdents64(t, fd, count)
    PROVE  D!Getdents(t, fd) \/ D!BadFd(t)
<1> DEFINE b == fds[t][fd]
           d == Desc[Tab[t][fd]]
           rest == SubSeq(d.inode.list, d.pos + 1, Len(d.inode.list))
<1>0. fds[t] # NULL /\ nodes' = nodes /\ fds' = fds /\ real_file(t, fd) = b
  BY DEF sys_getdents64, Live, Idle, real_file
<1>1. CASE b = NULL
  <2>1. Fails("EBADF") /\ UNCHANGED <<file, fds, nodes>>
    BY <1>0, <1>1 DEF sys_getdents64
  <2> QED
    BY <1>0, <1>1, <2>1, BadFdFails
<1>2. CASE b # NULL
  <2>0. /\ b \in Block /\ Holders(b) # {} /\ file[b].offset \in Nat /\ WholeInode(file[b].inode)
        /\ fd \in D!OpenFds(t) /\ Tab[t][fd] = file[b].id
    BY <1>0, <1>2, OffsetIs
  <2>1. /\ d.pos = file[b].offset /\ d.inode.is_dir = file[b].inode.is_dir
        /\ d.inode.list = shown(listing(file[b].inode))
    BY <1>0, <1>2, DescriptionIs
  <2>2. CASE ~file[b].inode.is_dir
    <3>1. Fails("EINVAL") /\ UNCHANGED <<file, fds, nodes>>
      BY <1>0, <1>2, <2>2 DEF sys_getdents64
    <3>2. D!Error("EINVAL")
      BY <3>1, ErrorSteps
    <3>3. ~d.inode.is_dir
      BY <2>1, <2>2
    <3>4. D!Getdents(t, fd)
      BY <2>0, <3>2, <3>3, Zenon DEF D!Getdents
    <3> QED
      BY <3>4
  <2>3. CASE file[b].inode.is_dir
    <3>1. /\ set_offset(b, file[b].offset + Len(emitted(file[b], count)))
          /\ ret' = [names |-> emitted(file[b], count), count |-> count]
      BY <1>0, <1>2, <2>3 DEF sys_getdents64
    <3>2. Rest(file[b]) = rest /\ count \in Nat
      BY <2>1, FilesAssumption DEF Rest
    <3>3. PICK k \in 0..Len(Rest(file[b])) :
            /\ emitted(file[b], count) = SubSeq(Rest(file[b]), 1, k)
            /\ Len(emitted(file[b], count)) = k
            /\ k = 0 /\ Rest(file[b]) # << >> => ~(reclen(Rest(file[b])[1]) <= count)
      <4> HIDE DEF b, d, rest
      <4> QED
        BY <2>0, <2>3, <3>2, EmittedIs
    <3>4. D!MoveTo(file[b].id, file[b].offset + k)
      BY <1>0, <2>0, <3>1, <3>3, Moved
    <3>5. D!MoveTo(Tab[t][fd], d.pos + k)
      BY <2>0, <2>1, <3>4
    <3> HIDE DEF rest
    <3>6. k \in 0..Len(rest) /\ (k = 0 /\ rest # << >> => ~(reclen(rest[1]) <= count))
      BY <3>2, <3>3
    <3>7. ret' = [names |-> SubSeq(rest, 1, k), count |-> count]
      BY <3>1, <3>2, <3>3
    <3>8. "count" \in DOMAIN ret' /\ ret'.count = count
      BY <3>7
    <3>9. d.inode.is_dir
      BY <2>1, <2>3
    <3>10. /\ k = 0 /\ rest # << >> => ~(reclen(rest[1]) <= ret'.count)
           /\ ret' = [names |-> SubSeq(rest, 1, k), count |-> ret'.count]
      BY <3>6, <3>7, <3>8
    <3>11. \E j \in 0..Len(rest) :
             /\ d.inode.is_dir /\ "count" \in DOMAIN ret'
             /\ j = 0 /\ rest # << >> => ~(reclen(rest[1]) <= ret'.count)
             /\ D!MoveTo(Tab[t][fd], d.pos + j)
             /\ ret' = [names |-> SubSeq(rest, 1, j), count |-> ret'.count]
      <4> HIDE DEF d
      <4> QED
        BY <3>5, <3>6, <3>8, <3>9, <3>10, Zenon
    <3>12. D!Getdents(t, fd)
      BY <2>0, <3>11, Zenon DEF D!Getdents, rest
    <3> QED
      BY <3>12
  <2> QED
    BY <2>2, <2>3
<1> QED
  BY <1>1, <1>2

LEMMA LseekSeeks ==
    ASSUME RefInv, RefInv', NEW t \in Task, NEW fd \in Fd, NEW to, NEW whence,
           sys_lseek(t, fd, to, whence)
    PROVE  D!Seek(t, fd) \/ D!BadFd(t)
<1> DEFINE b == fds[t][fd]
           p == seek_base(file[b], whence) + to
<1>0. fds[t] # NULL /\ nodes' = nodes /\ fds' = fds /\ real_file(t, fd) = b
  BY DEF sys_lseek, Live, Idle, real_file
<1>1. CASE b = NULL
  <2>1. Fails("EBADF") /\ UNCHANGED <<file, fds, nodes>>
    BY <1>0, <1>1 DEF sys_lseek
  <2> QED
    BY <1>0, <1>1, <2>1, BadFdFails
<1>2. CASE b # NULL
  <2>0. /\ b \in Block /\ Holders(b) # {}
        /\ fd \in D!OpenFds(t) /\ Tab[t][fd] = file[b].id
    BY <1>0, <1>2, OffsetIs
  <2>1. CASE p < 0
    <3>1. Fails("EINVAL") /\ UNCHANGED <<file, fds, nodes>>
      BY <1>0, <1>2, <2>1 DEF sys_lseek
    <3>2. D!Error("EINVAL")
      BY <3>1, ErrorSteps
    <3> QED
      BY <2>0, <3>2 DEF D!Seek
  <2>2. CASE ~(p < 0)
    <3>1. set_offset(b, p) /\ ret' = [pos |-> p]
      BY <1>0, <1>2, <2>2 DEF sys_lseek
    <3> HIDE DEF p
    <3>2. D!MoveTo(file[b].id, p) /\ Desc'[file[b].id].pos = p
      BY <1>0, <2>0, <3>1, Moved
    <3> QED
      BY <2>0, <3>1, <3>2 DEF D!Seek
  <2> QED
    BY <2>1, <2>2
<1> QED
  BY <1>1, <1>2

LEMMA FstatStats ==
    ASSUME RefInv, RefInv', NEW t \in Task, NEW fd \in Fd, sys_fstat(t, fd)
    PROVE  D!Stat(t, fd) \/ D!BadFd(t)
<1> DEFINE b == fds[t][fd]
<1>0. fds[t] # NULL /\ UNCHANGED <<file, fds, nodes>> /\ real_file(t, fd) = b
  BY DEF sys_fstat, Live, Idle, real_file
<1>1. CASE b = NULL
  <2>1. Fails("EBADF")
    BY <1>0, <1>1 DEF sys_fstat
  <2> QED
    BY <1>0, <1>1, <2>1, BadFdFails
<1>2. CASE b # NULL
  <2>1. ret' = [is_dir |-> file[b].inode.is_dir, size |-> file[b].inode.size]
    BY <1>0, <1>2 DEF sys_fstat
  <2>2. /\ Desc[Tab[t][fd]].inode.is_dir = file[b].inode.is_dir
        /\ Desc[Tab[t][fd]].inode.size = file[b].inode.size
    BY <1>0, <1>2, DescriptionIs
  <2>3. fd \in D!OpenFds(t) /\ Tab' = Tab /\ Desc' = Desc
    BY <1>0, <1>2, OffsetIs, Unchanged
  <2> QED
    BY <2>1, <2>2, <2>3 DEF D!Stat
<1> QED
  BY <1>1, <1>2

----------------------------------------------------------------------------
(* The refinement *)

LEMMA InitMaps == Init => RefInv /\ D!Init
<1> SUFFICES ASSUME Init PROVE RefInv /\ D!Init
  OBVIOUS
<1>1. /\ file = [b \in Block |-> NULL] /\ fds = [t \in Task |-> NULL]
      /\ ret = [n |-> 0] /\ opened = 0
  BY DEF Init
<1>2. RefInv
  BY <1>1, LiveInit DEF RefInv, FilesOK
<1>3. Tab = [t \in Task |-> NULL]
  BY <1>1 DEF Tab
<1>4. Desc = << >>
  <2>1. HeldIds = {}
    BY <1>1 DEF HeldIds
  <2>2. DOMAIN Desc = {}
    BY <2>1 DEF Desc
  <2>3. Desc = [id \in {} |-> Desc[id]]
    BY <2>1 DEF Desc
  <2> QED
    BY <2>2, <2>3
<1> QED
  BY <1>1, <1>2, <1>3, <1>4 DEF D!Init

\* Every step is a step of Descriptors, or changes nothing a program sees.
LEMMA StepMaps ==
    ASSUME NullIsNoFile, TRUE \notin SharedClose
    PROVE  RefInv /\ RefInv' /\ [Next]_vars => [D!Next]_<<Tab, Desc, ret>>
<1> SUFFICES ASSUME RefInv, RefInv', [Next]_vars
             PROVE  D!Next \/ UNCHANGED <<Tab, Desc, ret>>
  OBVIOUS
<1>1. CASE kernel_main
  <2>1. UNCHANGED <<file, fds, ret>> /\ nodes = NULL
    BY <1>1 DEF kernel_main
  <2>2. Tab' = Tab
    BY <2>1 DEF Tab
  <2>3. \A t \in Task : fds[t] = NULL
    BY <2>1 DEF RefInv, FilesOK
  <2>4. HeldIds = {} /\ HeldIds' = {}
    BY <2>1, <2>3 DEF HeldIds, Holders, Live
  <2>5. Desc' = Desc
    BY <2>4 DEF Desc
  <2> QED
    BY <2>1, <2>2, <2>5
<1>2. CASE tick \/ UNCHANGED vars
  <2>1. UNCHANGED <<file, fds, nodes, ret>>
    BY <1>2 DEF tick, vars
  <2> QED
    BY <2>1, Unchanged
<1>3. ASSUME NEW t \in Task, spawn(t) PROVE D!Next
  BY <1>3, SpawnStarts DEF D!Next
<1>4. ASSUME NEW t \in Task, exit(t) PROVE D!Next
  BY <1>4, ExitEnds DEF D!Next
<1>5. ASSUME NEW t \in Task, NEW c \in Task, sys_fork(t, c) PROVE D!Next
  BY <1>5, ForkCopies DEF D!Next
<1>6. ASSUME NEW t \in Task, NEW path \in Path, sys_openat(t, path) PROVE D!Next
  BY <1>6, OpenOpens DEF D!Next
<1>7. ASSUME NEW t \in Task, NEW path \in Path, query(t, path) PROVE D!Next
  <2>1. /\ fds[t] # NULL /\ UNCHANGED <<file, fds, nodes>>
        /\ ret' = [known |-> target(path) # NULL]
    BY <1>7 DEF query, Live, Idle
  <2>2. t \in D!Live /\ Tab' = Tab /\ Desc' = Desc
    BY <2>1, SlotsAre, Unchanged
  <2>3. (target(path) # NULL) \in BOOLEAN
    OBVIOUS
  <2>4. ret' \in [known : BOOLEAN]
    BY <2>1, <2>3
  <2>5. D!Query(t)
    BY <2>2, <2>4 DEF D!Query
  <2> QED
    BY <2>5 DEF D!Next
<1>8. ASSUME NEW t \in Task, NEW fd \in Fd, D!BadFd(t) PROVE D!Next
  BY <1>8 DEF D!Next
<1>9. ASSUME NEW t \in Task, NEW fd \in Fd, fds[t] # NULL,
             \/ D!Close(t, fd) \/ D!Read(t, fd) \/ D!Getdents(t, fd)
             \/ D!Seek(t, fd) \/ D!Stat(t, fd)
      PROVE  D!Next
  <2>1. t \in D!Live
    BY <1>9, SlotsAre
  <2> QED
    BY <1>9, <2>1 DEF D!Next
<1>10. ASSUME NEW t \in Task, NEW fd \in Fd, sys_close(t, fd) PROVE D!Next
  <2>1. fds[t] # NULL /\ (D!Close(t, fd) \/ D!BadFd(t))
    BY <1>10, CloseCloses DEF sys_close, Live
  <2> QED
    BY <1>8, <1>9, <2>1
<1>11. ASSUME NEW t \in Task, NEW fd \in Fd, sys_fstat(t, fd) PROVE D!Next
  <2>1. fds[t] # NULL /\ (D!Stat(t, fd) \/ D!BadFd(t))
    BY <1>11, FstatStats DEF sys_fstat, Live
  <2> QED
    BY <1>8, <1>9, <2>1
<1>12. ASSUME NEW t \in Task, NEW fd \in Fd, NEW len \in ReadLen, sys_read(t, fd, len)
       PROVE  D!Next
  <2>1. fds[t] # NULL /\ (D!Read(t, fd) \/ D!BadFd(t))
    BY <1>12, ReadReads DEF sys_read, Live
  <2> QED
    BY <1>8, <1>9, <2>1
<1>13. ASSUME NEW t \in Task, NEW fd \in Fd, NEW count \in Count, sys_getdents64(t, fd, count)
       PROVE  D!Next
  <2>1. fds[t] # NULL /\ (D!Getdents(t, fd) \/ D!BadFd(t))
    BY <1>13, GetdentsLists DEF sys_getdents64, Live
  <2> QED
    BY <1>8, <1>9, <2>1
<1>14. ASSUME NEW t \in Task, NEW fd \in Fd, NEW to, NEW whence, sys_lseek(t, fd, to, whence)
       PROVE  D!Next
  <2>1. fds[t] # NULL /\ (D!Seek(t, fd) \/ D!BadFd(t))
    BY <1>14, LseekSeeks DEF sys_lseek, Live
  <2> QED
    BY <1>8, <1>9, <2>1
<1> QED
  BY <1>1, <1>2, <1>3, <1>4, <1>5, <1>6, <1>7, <1>10, <1>11, <1>12, <1>13, <1>14 DEF Next

----------------------------------------------------------------------------
(* The tree of the initrd *)

Node == [name : Name \cup {EMPTY}, is_dir : BOOLEAN, data : Nat, size : Nat,
         first_child : Int, next_sibling : Int]

\* The path of an entry of the directory q.
Below(q, name) == Append(q, name)

\* k is the node of a name in the directory of node p, where P tells the path
\* that each node stands for.
Child(T, n, P, p, k) == k \in 1..(n - 1) /\ P[k] = Below(P[p], T[k].name)

\* The n nodes of T are a tree: each has a path of its own, that of a directory
\* entry below its parent's, and the sibling list of a directory leads through
\* all of its entries, to older ones only.
Tree(T, n, P) ==
    /\ n \in Nat \ {0}
    /\ T \in [0..(n - 1) -> Node] /\ T[0].is_dir
    /\ P \in [0..(n - 1) -> Seq(Name)] /\ P[0] = << >>
    /\ \A j, k \in 0..(n - 1) : P[j] = P[k] => j = k
    /\ \A k \in 1..(n - 1) : T[k].name \in Name /\ \E p \in 0..(n - 1) : Child(T, n, P, p, k)
    /\ \A k \in 0..(n - 1) : /\ T[k].next_sibling \in {NONE} \cup 1..(k - 1)
                             /\ T[k].first_child \in {NONE} \cup 1..(n - 1)
    /\ \A p \in 0..(n - 1) :
         /\ T[p].first_child # NONE => Child(T, n, P, p, T[p].first_child)
         /\ \A k \in 1..(n - 1) : Child(T, n, P, p, k) =>
              /\ T[k].next_sibling # NONE => Child(T, n, P, p, T[k].next_sibling)
              /\ \/ k = T[p].first_child
                 \/ \E j \in 1..(n - 1) : Child(T, n, P, p, j) /\ T[j].next_sibling = k

\* f[k] is the list of siblings from node k on, for the first m nodes.
Linked(T, m, f) ==
    f = [k \in 0..(m - 1) \cup {NONE} |->
           IF k = NONE THEN << >> ELSE <<k>> \o f[T[k].next_sibling]]

\* Sibling lists that lead to older nodes only come to an end.
LEMMA ListsExist ==
    ASSUME NEW n \in Nat, NEW T, \A k \in 0..(n - 1) : T[k].next_sibling \in {NONE} \cup 0..(k - 1)
    PROVE  \E f \in [0..(n - 1) \cup {NONE} -> Seq(0..(n - 1))] : Linked(T, n, f)
<1> DEFINE V == Seq(0..(n - 1))
           Good(m) == \E f \in [0..(m - 1) \cup {NONE} -> V] : Linked(T, m, f)
           Bad == {m \in 0..n : ~Good(m)}
<1>0. NONE = -1
  BY DEF NONE
<1>1. Good(0)
  <2> DEFINE f == [k \in 0..(0 - 1) \cup {NONE} |-> << >>]
  <2>1. 0..(0 - 1) = {}
    OBVIOUS
  <2>2. f \in [0..(0 - 1) \cup {NONE} -> V]
    OBVIOUS
  <2>3. Linked(T, 0, f)
    BY <2>1 DEF Linked
  <2> QED
    BY <2>2, <2>3
<1>2. ASSUME NEW m \in 1..n, Good(m - 1) PROVE Good(m)
  <2> DEFINE A == 0..((m - 1) - 1) \cup {NONE}
             B == 0..(m - 1) \cup {NONE}
  <2>1. PICK f \in [A -> V] : Linked(T, m - 1, f)
    BY <1>2
  <2> DEFINE nx(k) == T[k].next_sibling
             g == [k \in B |-> IF k = m - 1 THEN <<k>> \o f[nx(k)] ELSE f[k]]
  <2>2. ASSUME NEW k \in 0..(m - 1) PROVE nx(k) \in A /\ nx(k) # m - 1
    <3>1. k \in 0..(n - 1)
      OBVIOUS
    <3>2. nx(k) \in {NONE} \cup 0..(k - 1)
      BY <3>1
    <3> HIDE DEF nx
    <3> QED
      BY <1>0, <3>2
  <2>3. \A k \in B : k \in A \/ k = m - 1
    BY <1>0
  <2>a. \A k \in A : k \in B /\ k # m - 1
    BY <1>0
  <2>4. m - 1 \in 0..(n - 1) /\ m - 1 # NONE /\ m - 1 \in B /\ m - 1 \in 0..(m - 1)
    BY <1>0
  <2> HIDE DEF A, B, nx, V
  <2>5. g \in [B -> V]
    <3>1. ASSUME NEW k \in B PROVE g[k] \in V
      <4>1. CASE k = m - 1
        <5>1. f[nx(k)] \in V
          BY <2>1, <2>2, <2>4, <4>1
        <5>2. <<k>> \o f[nx(k)] \in V
          BY <2>4, <4>1, <5>1, ConsIs DEF V
        <5> QED
          BY <4>1, <5>2
      <4>2. CASE k # m - 1
        BY <2>1, <2>3, <4>2
      <4> QED
        BY <4>1, <4>2
    <3> QED
      BY <3>1
  <2>6. ASSUME NEW k \in B PROVE g[k] = IF k = NONE THEN << >> ELSE <<k>> \o g[nx(k)]
    <3>1. CASE k = m - 1
      <4>1. g[nx(k)] = f[nx(k)]
        BY <2>2, <2>4, <2>a, <3>1
      <4>2. g[k] = <<k>> \o f[nx(k)]
        BY <3>1
      <4> HIDE DEF g
      <4> QED
        BY <2>4, <3>1, <4>1, <4>2
    <3>2. CASE k # m - 1
      <4>1. k \in A /\ g[k] = f[k]
        BY <2>3, <3>2
      <4>2. f[k] = IF k = NONE THEN << >> ELSE <<k>> \o f[nx(k)]
        BY <2>1, <4>1 DEF Linked, A, nx
      <4>3. k # NONE => g[nx(k)] = f[nx(k)]
        <5>1. k # NONE => k \in 0..(m - 1)
          BY DEF B
        <5> QED
          BY <2>2, <2>a, <5>1
      <4> HIDE DEF g
      <4> QED
        BY <4>1, <4>2, <4>3
    <3> QED
      BY <3>1, <3>2
  <2>7. g = [k \in B |-> g[k]]
    OBVIOUS
  <2>8. Linked(T, m, g)
    <3> HIDE DEF g
    <3> QED
      BY <2>6, <2>7 DEF Linked, B, nx
  <2> HIDE DEF g
  <2> QED
    BY <2>5, <2>8 DEF B
<1>3. Bad = {}
  <2> HIDE DEF Good
  <2> SUFFICES ASSUME Bad # {} PROVE FALSE
    OBVIOUS
  <2>1. PICK m \in Bad : \A j \in Bad : m <= j
    <3>1. Bad \subseteq Nat
      OBVIOUS
    <3> HIDE DEF Bad
    <3> QED
      BY <3>1, LeastNatural
  <2>2. m \in 1..n /\ m - 1 \in 0..n
    BY <1>1, <2>1
  <2>3. Good(m - 1)
    BY <2>1, <2>2
  <2> QED
    BY <1>2, <2>1, <2>2, <2>3
<1>4. Good(n)
  <2>1. n \in 0..n
    OBVIOUS
  <2> HIDE DEF Good
  <2> QED
    BY <1>3, <2>1
<1> QED
  BY <1>4

\* children() follows the sibling list.
Siblings(T) == CHOOSE f : Linked(T, Cardinality(DOMAIN T), f)

\* Every sibling list is its first node and the list behind it.
LEMMA SiblingsAre ==
    ASSUME NEW T, NEW n, NEW P, Tree(T, n, P)
    PROVE  /\ Cardinality(DOMAIN T) = n
           /\ Siblings(T)[NONE] = << >>
           /\ \A k \in 0..(n - 1) : Siblings(T)[k] = <<k>> \o Siblings(T)[T[k].next_sibling]
           /\ \A p \in 0..(n - 1) : children(T, p) = Siblings(T)[T[p].first_child]
<1>1. n \in Nat /\ 0 <= n - 1 /\ DOMAIN T = 0..(n - 1)
  BY DEF Tree
<1>2. Cardinality(DOMAIN T) = n
  <2>1. 0 \in Int /\ n - 1 \in Int
    BY <1>1
  <2>2. Cardinality(0..(n - 1)) = IF 0 > n - 1 THEN 0 ELSE (n - 1) - 0 + 1
    BY <2>1, FS_Interval
  <2> QED
    BY <1>1, <2>2
<1>3. \E f : Linked(T, n, f)
  <2>1. \A k \in 0..(n - 1) : T[k].next_sibling \in {NONE} \cup 0..(k - 1)
    <3>1. \A k \in 0..(n - 1) : T[k].next_sibling \in {NONE} \cup 1..(k - 1)
      BY DEF Tree
    <3>2. \A k \in 0..(n - 1) : 1..(k - 1) \subseteq 0..(k - 1)
      OBVIOUS
    <3> QED
      BY <3>1, <3>2
  <2> QED
    BY <1>1, <2>1, ListsExist
<1>4. Linked(T, n, Siblings(T))
  BY <1>2, <1>3 DEF Siblings
<1>5. /\ Siblings(T)[NONE] = << >>
      /\ \A k \in 0..(n - 1) : Siblings(T)[k] = <<k>> \o Siblings(T)[T[k].next_sibling]
  <2>1. NONE \notin 0..(n - 1)
    BY DEF NONE
  <2> HIDE DEF Siblings
  <2> QED
    BY <1>4, <2>1 DEF Linked
<1>6. ASSUME NEW p \in 0..(n - 1) PROVE children(T, p) = Siblings(T)[T[p].first_child]
  BY <1>1, <1>2 DEF children, Siblings, Linked
<1> QED
  BY <1>2, <1>5, <1>6

\* The list from node k on starts there, stays in the directory and leads on.
ListFrom(T, n, P, k) ==
    LET list == Siblings(T)[k] IN
    /\ list \in Seq(1..(n - 1)) /\ 1 \in 1..Len(list) /\ list[1] = k
    /\ \A p \in 0..(n - 1) : Child(T, n, P, p, k) =>
         \A i \in 1..Len(list) : Child(T, n, P, p, list[i])
    /\ \A i \in 1..Len(list) : T[list[i]].next_sibling # NONE =>
         \E j \in 1..Len(list) : list[j] = T[list[i]].next_sibling

\* By induction over the age of nodes.
LEMMA ListsLead ==
    ASSUME NEW T, NEW n, NEW P, Tree(T, n, P), NEW k \in 1..(n - 1)
    PROVE  ListFrom(T, n, P, k)
<1> DEFINE Bad == {m \in 1..(n - 1) : ~ListFrom(T, n, P, m)}
           L == Siblings(T)
           nx(m) == T[m].next_sibling
<1>0. n \in Nat /\ 0 <= n - 1
  BY DEF Tree
<1>1. ASSUME NEW m \in 1..(n - 1), nx(m) # NONE => ListFrom(T, n, P, nx(m))
      PROVE  ListFrom(T, n, P, m)
  <2> DEFINE list == L[m]
             rest == L[nx(m)]
             c(p, j) == Child(T, n, P, p, j)
  <2>0. m \in 0..(n - 1)
    BY <1>0
  <2>1. list = <<m>> \o rest /\ L[NONE] = << >>
    BY <2>0, SiblingsAre
  <2>2. rest \in Seq(1..(n - 1)) /\ Len(rest) \in Nat
    <3>1. CASE nx(m) = NONE
      <4>1. rest = << >>
        BY <2>1, <3>1, Zenon
      <4> HIDE DEF rest
      <4> QED
        BY <4>1
    <3>2. CASE nx(m) # NONE
      BY <1>1, <3>2 DEF ListFrom
    <3> QED
      BY <3>1, <3>2
  <2>3. /\ list \in Seq(1..(n - 1)) /\ Len(list) = Len(rest) + 1 /\ list[1] = m
        /\ \A i \in 1..Len(rest) : list[i + 1] = rest[i]
    <3> HIDE DEF list, rest
    <3> QED
      BY <2>1, <2>2, ConsIs
  <2>4. ASSUME NEW i \in 1..Len(list), i # 1
        PROVE  i - 1 \in 1..Len(rest) /\ list[i] = rest[i - 1] /\ nx(m) # NONE
    <3>1. i - 1 \in 1..Len(rest) /\ (i - 1) + 1 = i
      BY <2>2, <2>3, <2>4
    <3>2. CASE nx(m) = NONE
      <4>1. Len(rest) = 0
        BY <2>1, <3>2
      <4> HIDE DEF rest
      <4> QED
        BY <3>1, <4>1
    <3> HIDE DEF list, rest, nx
    <3> QED
      BY <2>3, <3>1, <3>2
  <2>5. ASSUME NEW p \in 0..(n - 1), c(p, m), NEW i \in 1..Len(list) PROVE c(p, list[i])
    <3>1. CASE i = 1
      BY <2>3, <2>5, <3>1
    <3>2. CASE i # 1
      <4>1. i - 1 \in 1..Len(rest) /\ list[i] = rest[i - 1] /\ nx(m) # NONE
        BY <2>4, <3>2
      <4>2. c(p, nx(m))
        BY <2>5, <4>1 DEF Tree
      <4>3. c(p, rest[i - 1])
        BY <1>1, <4>1, <4>2 DEF ListFrom
      <4> QED
        BY <4>1, <4>3
    <3> QED
      BY <3>1, <3>2
  <2>6. ASSUME NEW i \in 1..Len(list), nx(list[i]) # NONE
        PROVE  \E j \in 1..Len(list) : list[j] = nx(list[i])
    <3>0. \A j \in 1..Len(rest) : j + 1 \in 1..Len(list) /\ list[j + 1] = rest[j]
      BY <2>2, <2>3
    <3>1. CASE i = 1
      <4>1. nx(m) # NONE
        BY <2>3, <2>6, <3>1
      <4>2. 1 \in 1..Len(rest) /\ rest[1] = nx(m)
        BY <1>1, <4>1 DEF ListFrom
      <4>3. 1 + 1 \in 1..Len(list) /\ list[1 + 1] = nx(m)
        BY <3>0, <4>2
      <4>4. nx(list[i]) = nx(m)
        BY <2>3, <3>1
      <4> HIDE DEF list, rest, nx
      <4> QED
        BY <4>3, <4>4
    <3>2. CASE i # 1
      <4>1. i - 1 \in 1..Len(rest) /\ list[i] = rest[i - 1] /\ nx(m) # NONE
        BY <2>4, <3>2
      <4>2. \A h \in 1..Len(rest) : nx(rest[h]) # NONE => \E j \in 1..Len(rest) : rest[j] = nx(rest[h])
        BY <1>1, <4>1 DEF ListFrom
      <4> HIDE DEF list, rest, nx
      <4>3. PICK j \in 1..Len(rest) : rest[j] = nx(rest[i - 1])
        BY <2>6, <4>1, <4>2
      <4>4. j + 1 \in 1..Len(list) /\ list[j + 1] = nx(list[i])
        BY <3>0, <4>1, <4>3
      <4> QED
        BY <4>4
    <3> QED
      BY <3>1, <3>2
  <2>7. 1 \in 1..Len(list)
    BY <2>2, <2>3
  <2> QED
    BY <2>3, <2>5, <2>6, <2>7 DEF ListFrom
<1>2. Bad = {}
  <2> SUFFICES ASSUME Bad # {} PROVE FALSE
    OBVIOUS
  <2>1. PICK m \in Bad : \A j \in Bad : m <= j
    <3>1. Bad \subseteq Nat
      BY <1>0
    <3> HIDE DEF Bad
    <3> QED
      BY <3>1, LeastNatural
  <2>2. m \in 1..(n - 1) /\ m \in 0..(n - 1) /\ ~ListFrom(T, n, P, m)
    BY <1>0, <2>1
  <2>3. nx(m) \in {NONE} \cup 1..(m - 1)
    BY <2>2 DEF Tree
  <2>4. ASSUME nx(m) # NONE PROVE ListFrom(T, n, P, nx(m))
    <3>1. nx(m) \in 1..(m - 1)
      BY <2>3, <2>4
    <3> HIDE DEF nx
    <3>2. nx(m) \in 1..(n - 1) /\ ~(m <= nx(m))
      BY <1>0, <2>2, <3>1
    <3> QED
      BY <2>1, <3>2
  <2> QED
    BY <1>1, <2>2, <2>4
<1> QED
  BY <1>2

\* The sibling list of a directory holds its entries, and all of them.
LEMMA ChildrenAre ==
    ASSUME NEW T, NEW n, NEW P, Tree(T, n, P), NEW p \in 0..(n - 1)
    PROVE  /\ children(T, p) \in Seq(1..(n - 1))
           /\ \A i \in 1..Len(children(T, p)) : Child(T, n, P, p, children(T, p)[i])
           /\ \A k \in 1..(n - 1) : Child(T, n, P, p, k) =>
                \E i \in 1..Len(children(T, p)) : children(T, p)[i] = k
<1> DEFINE list == children(T, p)
           first == T[p].first_child
           c(k) == Child(T, n, P, p, k)
           In(k) == \E i \in 1..Len(list) : list[i] = k
           Missing == {k \in 1..(n - 1) : c(k) /\ ~In(k)}
<1>0. n \in Nat /\ list = Siblings(T)[first] /\ Siblings(T)[NONE] = << >>
  <2>1. n \in Nat
    BY DEF Tree
  <2> QED
    BY <2>1, SiblingsAre
<1>1. first \in {NONE} \cup 1..(n - 1) /\ (first # NONE => c(first))
  BY DEF Tree
<1>2. CASE first = NONE
  <2>1. list = << >>
    BY <1>0, <1>2
  <2>2. Missing = {}
    <3> SUFFICES ASSUME Missing # {} PROVE FALSE
      OBVIOUS
    <3>1. Missing \subseteq 0..(n - 1) /\ n - 1 \in Nat
      BY <1>0
    <3>2. PICK k \in Missing : \A j \in Missing : j <= k
      <4> HIDE DEF Missing
      <4> QED
        BY <3>1, MaxIsGreatest
    <3>3. k \in 1..(n - 1) /\ c(k) /\ k # first
      BY <1>0, <1>2, <3>2 DEF NONE
    <3>4. PICK j \in 1..(n - 1) : c(j) /\ T[j].next_sibling = k
      BY <3>3 DEF Tree
    <3>5. j \in 0..(n - 1) /\ T[j].next_sibling \in {NONE} \cup 1..(j - 1)
      BY <1>0 DEF Tree
    <3>6. k < j
      BY <1>0, <3>3, <3>4, <3>5 DEF NONE
    <3>7. j \in Missing
      BY <2>1, <3>4
    <3> QED
      BY <1>0, <3>2, <3>3, <3>6, <3>7
  <2> QED
    BY <2>1, <2>2
<1>3. CASE first # NONE
  <2>1. ListFrom(T, n, P, first)
    BY <1>1, <1>3, ListsLead
  <2>2. /\ list \in Seq(1..(n - 1)) /\ 1 \in 1..Len(list) /\ list[1] = first
        /\ \A i \in 1..Len(list) : c(list[i])
        /\ \A i \in 1..Len(list) : T[list[i]].next_sibling # NONE => In(T[list[i]].next_sibling)
    BY <1>0, <1>1, <1>3, <2>1 DEF ListFrom
  <2>3. Missing = {}
    <3> SUFFICES ASSUME Missing # {} PROVE FALSE
      OBVIOUS
    <3>1. Missing \subseteq 0..(n - 1) /\ n - 1 \in Nat
      BY <1>0
    <3>2. PICK k \in Missing : \A j \in Missing : j <= k
      <4> HIDE DEF Missing
      <4> QED
        BY <3>1, MaxIsGreatest
    <3>3. k \in 1..(n - 1) /\ c(k) /\ ~In(k)
      BY <3>2
    <3>3a. k # first
      BY <2>2, <3>3
    <3>4. PICK j \in 1..(n - 1) : c(j) /\ T[j].next_sibling = k
      BY <3>3, <3>3a DEF Tree
    <3>5. j \in 0..(n - 1) /\ T[j].next_sibling \in {NONE} \cup 1..(j - 1)
      BY <1>0 DEF Tree
    <3>6. k < j /\ k # NONE
      BY <1>0, <3>3, <3>4, <3>5 DEF NONE
    <3>7. ~In(j)
      BY <2>2, <3>3, <3>4, <3>6
    <3>8. j \in Missing
      BY <3>4, <3>7
    <3> HIDE DEF Missing
    <3> QED
      BY <1>0, <3>2, <3>3, <3>6, <3>8
  <2> QED
    BY <2>2, <2>3
<1> QED
  BY <1>1, <1>2, <1>3

\* find_child() finds the entry of a name, if the directory has one.
LEMMA FindChildIs ==
    ASSUME NEW T, NEW n, NEW P, Tree(T, n, P), NEW p \in 0..(n - 1), NEW name
    PROVE  LET k == find_child(T, p, name) IN
           \/ k = NONE /\ \A j \in 1..(n - 1) : ~(Child(T, n, P, p, j) /\ T[j].name = name)
           \/ k \in 1..(n - 1) /\ Child(T, n, P, p, k) /\ T[k].name = name
<1> DEFINE list == children(T, p)
           I == {i \in 1..Len(list) : T[list[i]].name = name}
<1>1. /\ list \in Seq(1..(n - 1))
      /\ \A i \in 1..Len(list) : Child(T, n, P, p, list[i])
      /\ \A k \in 1..(n - 1) : Child(T, n, P, p, k) => \E i \in 1..Len(list) : list[i] = k
  BY ChildrenAre
<1>2. find_child(T, p, name) =
        LET at == IF I # {} THEN Min(I) ELSE 0 IN IF at = 0 THEN NONE ELSE list[at]
  BY DEF find_child, SelectInSeq
<1> HIDE DEF list
<1>3. CASE I = {}
  <2>1. \A j \in 1..(n - 1) : ~(Child(T, n, P, p, j) /\ T[j].name = name)
    BY <1>1, <1>3
  <2> QED
    BY <1>2, <1>3, <2>1
<1>4. CASE I # {}
  <2>1. I \subseteq Nat
    OBVIOUS
  <2>2. Min(I) \in I
    <3> HIDE DEF I
    <3> QED
      BY <1>4, <2>1, MinIsLeast
  <2>3. Min(I) \in 1..Len(list) /\ T[list[Min(I)]].name = name
    BY <2>2
  <2>4. find_child(T, p, name) = list[Min(I)]
    <3>1. Min(I) # 0
      BY <2>3
    <3> HIDE DEF I
    <3> QED
      BY <1>2, <1>4, <3>1
  <2>5. list[Min(I)] \in 1..(n - 1) /\ Child(T, n, P, p, list[Min(I)])
    <3> DEFINE i == Min(I)
    <3>1. i \in 1..Len(list)
      BY <2>3
    <3> HIDE DEF i
    <3>2. list[i] \in 1..(n - 1)
      BY <1>1, <3>1, ElementOfSeq
    <3>3. Child(T, n, P, p, list[i])
      BY <1>1, <3>1, Zenon
    <3> QED
      BY <3>2, <3>3 DEF i
  <2> QED
    BY <2>3, <2>4, <2>5
<1> QED
  BY <1>3, <1>4

\* Two paths that end alike are alike.
LEMMA SamePath ==
    ASSUME NEW S
    PROVE  \A s, t \in Seq(S) : \A x, y \in S : Below(s, x) = Below(t, y) => s = t /\ x = y
<1> TAKE s, t \in Seq(S)
<1> TAKE x, y \in S
<1> HAVE Below(s, x) = Below(t, y)
<1>0. Append(s, x) = Append(t, y)
  BY DEF Below
<1>1. /\ Len(Append(s, x)) = Len(s) + 1 /\ Append(s, x)[Len(s) + 1] = x
      /\ \A i \in 1..Len(s) : Append(s, x)[i] = s[i]
  BY AppendProperties
<1>2. /\ Len(Append(t, y)) = Len(t) + 1 /\ Append(t, y)[Len(t) + 1] = y
      /\ \A i \in 1..Len(t) : Append(t, y)[i] = t[i]
  BY AppendProperties
<1>3. Len(s) \in Nat /\ Len(t) \in Nat
  OBVIOUS
<1>4. Len(s) = Len(t)
  BY <1>0, <1>1, <1>2, <1>3
<1>5. \A i \in 1..Len(s) : s[i] = t[i]
  BY <1>0, <1>1, <1>2, <1>4
<1>6. s = t
  BY <1>4, <1>5, SeqEqual
<1> QED
  BY <1>0, <1>1, <1>2, <1>6

\* One more node has path q.
grown(P, n, q) == [k \in 0..n |-> IF k = n THEN q ELSE P[k]]

\* A name that a directory does not have yet is a path no node has.
LEMMA NewPath ==
    ASSUME NEW T, NEW n, NEW P, Tree(T, n, P), NEW p \in 0..(n - 1), NEW name \in Name,
           \A j \in 1..(n - 1) : ~(Child(T, n, P, p, j) /\ T[j].name = name),
           NEW k \in 0..(n - 1)
    PROVE  P[k] # Below(P[p], name)
<1> SUFFICES ASSUME P[k] = Below(P[p], name) PROVE FALSE
  OBVIOUS
<1>0. n \in Nat /\ (\A j \in 0..(n - 1) : P[j] \in Seq(Name)) /\ P[0] = << >>
  BY DEF Tree
<1>1. k # 0
  <2>1. Below(P[p], name) # << >>
    BY <1>0, AppendProperties DEF Below
  <2> QED
    BY <1>0, <2>1
<1>2. k \in 1..(n - 1)
  BY <1>0, <1>1
<1>3. PICK o \in 0..(n - 1) : Child(T, n, P, o, k)
  BY <1>2 DEF Tree
<1>4. T[k].name \in Name
  BY <1>2 DEF Tree
<1>5. Below(P[o], T[k].name) = Below(P[p], name)
  BY <1>3 DEF Child
<1>6. P[o] = P[p] /\ T[k].name = name
  <2>1. P[o] \in Seq(Name) /\ P[p] \in Seq(Name)
    BY <1>0
  <2> QED
    BY <1>4, <1>5, <2>1, SamePath
<1>7. o = p
  BY <1>6 DEF Tree
<1> QED
  BY <1>2, <1>3, <1>6, <1>7

\* An entry's path is one component longer than its directory's.
LEMMA BelowIs ==
    ASSUME NEW s \in Seq(Name), NEW x \in Name
    PROVE  /\ Below(s, x) \in Seq(Name) /\ Below(s, x) # << >> /\ Below(s, x) # s
           /\ Len(Below(s, x)) = Len(s) + 1 /\ Below(s, x)[Len(s) + 1] = x
           /\ \A i \in 1..Len(s) : Below(s, x)[i] = s[i]
<1>1. /\ Append(s, x) \in Seq(Name) /\ Append(s, x) # << >> /\ Len(Append(s, x)) = Len(s) + 1
      /\ Append(s, x)[Len(s) + 1] = x /\ \A i \in 1..Len(s) : Append(s, x)[i] = s[i]
  BY AppendProperties
<1>2. Len(s) \in Nat
  OBVIOUS
<1>3. Append(s, x) # s
  BY <1>1, <1>2
<1> QED
  BY <1>1, <1>3 DEF Below

\* U is T with one more node for a name in the directory of node p.
Grows(T, n, U, p, name) ==
    /\ U = [k \in 0..n |-> U[k]]
    /\ U[n] = [name |-> name, is_dir |-> TRUE, data |-> 0, size |-> 0,
               first_child |-> NONE, next_sibling |-> T[p].first_child]
    /\ \A k \in 0..(n - 1) :
         /\ U[k] \in Node /\ U[k].name = T[k].name /\ U[k].is_dir = T[k].is_dir
         /\ U[k].data = T[k].data /\ U[k].size = T[k].size
         /\ U[k].next_sibling = T[k].next_sibling
         /\ U[k].first_child = IF k = p THEN n ELSE T[k].first_child

\* link_child() adds one node and writes one link.
LEMMA LinkGrows ==
    ASSUME NEW T, NEW n, NEW P, Tree(T, n, P), NEW p \in 0..(n - 1), NEW name \in Name
    PROVE  Grows(T, n, link_child(T, p, name), p, name)
<1> DEFINE U == link_child(T, p, name)
<1>1. n \in Nat /\ DOMAIN T = 0..(n - 1) /\ (\A k \in 0..(n - 1) : T[k] \in Node)
      /\ 0..(n - 1) \cup {n} = 0..n /\ n \notin 0..(n - 1)
  BY DEF Tree
<1>2. Cardinality(DOMAIN T) = n
  BY SiblingsAre
<1>3. U = [k \in 0..n |->
             IF k = n THEN [NewNode(name) EXCEPT !.next_sibling = T[p].first_child]
             ELSE IF k = p THEN [T[k] EXCEPT !.first_child = n] ELSE T[k]]
  BY <1>1, <1>2 DEF link_child
<1> HIDE DEF U
<1>4. U = [k \in 0..n |-> U[k]]
  BY <1>3
<1>5. U[n] = [name |-> name, is_dir |-> TRUE, data |-> 0, size |-> 0,
              first_child |-> NONE, next_sibling |-> T[p].first_child]
  <2>1. n \in 0..n
    BY <1>1
  <2>2. U[n] = [NewNode(name) EXCEPT !.next_sibling = T[p].first_child]
    BY <1>3, <2>1
  <2> QED
    BY <2>2 DEF NewNode
<1>6. ASSUME NEW k \in 0..(n - 1)
      PROVE  /\ U[k] \in Node /\ U[k].name = T[k].name /\ U[k].is_dir = T[k].is_dir
             /\ U[k].data = T[k].data /\ U[k].size = T[k].size
             /\ U[k].next_sibling = T[k].next_sibling
             /\ U[k].first_child = IF k = p THEN n ELSE T[k].first_child
  <2>1. k \in 0..n /\ k # n /\ T[k] \in Node /\ n \in Int
    BY <1>1
  <2>2. U[k] = IF k = p THEN [T[k] EXCEPT !.first_child = n] ELSE T[k]
    BY <1>3, <2>1
  <2> QED
    BY <2>1, <2>2 DEF Node
<1> QED
  BY <1>4, <1>5, <1>6 DEF Grows, U

\* The tree with one more entry is a tree.
LEMMA TreeGrows ==
    ASSUME NEW T, NEW n, NEW P, Tree(T, n, P), NEW p \in 0..(n - 1), NEW name \in Name,
           \A j \in 1..(n - 1) : ~(Child(T, n, P, p, j) /\ T[j].name = name),
           NEW U, Grows(T, n, U, p, name)
    PROVE  Tree(U, n + 1, grown(P, n, Below(P[p], name)))
<1> DEFINE q == Below(P[p], name)
           Q == grown(P, n, q)
           C(o, k) == Child(T, n, P, o, k)
           m == n + 1
           K(o, k) == Child(U, m, Q, o, k)
<1>0. n \in Nat /\ n >= 1 /\ m - 1 = n /\ n \in 0..n /\ n \notin 0..(n - 1)
      /\ NONE \in Int /\ NONE # n
  BY DEF Tree, NONE
<1>a. \A k \in 0..n : k = n \/ k \in 0..(n - 1)
  BY <1>0
<1>b. \A k \in 0..(n - 1) : k \in 0..n
  BY <1>0
<1>c. \A k \in 1..n : (k = n \/ k \in 1..(n - 1)) /\ k \in 0..n
  BY <1>0
<1>d. \A k \in 1..(n - 1) : k \in 1..n /\ k \in 0..(n - 1) /\ k # n
  BY <1>0
<1>1. \A k \in 0..(n - 1) : P[k] \in Seq(Name)
  BY DEF Tree
<1>2. q \in Seq(Name) /\ q # << >>
  BY <1>1, BelowIs
<1>3. Q = [k \in 0..n |-> Q[k]] /\ Q[n] = q /\ \A k \in 0..(n - 1) : Q[k] = P[k]
  BY <1>0, <1>b DEF grown
<1>4. \A k \in 0..(n - 1) : P[k] # q
  BY NewPath
<1> HIDE DEF q, Q, m
<1>5. \A k \in 0..(n - 1) : U[k] \in Node /\ U[k].name = T[k].name
                            /\ U[k].next_sibling = T[k].next_sibling
  BY DEF Grows
<1>6. /\ U[n].name = name /\ U[n].first_child = NONE /\ U[n].next_sibling = T[p].first_child
      /\ U = [k \in 0..n |-> U[k]]
  BY DEF Grows
<1>7. \A k \in 0..(n - 1) : U[k].first_child = IF k = p THEN n ELSE T[k].first_child
  BY DEF Grows
<1>8. \A k \in 0..(n - 1) : /\ T[k].first_child \in {NONE} \cup 1..(n - 1)
                            /\ T[k].next_sibling \in {NONE} \cup 1..(k - 1)
  BY DEF Tree
<1>9. \A o \in 0..(n - 1), k \in 1..(n - 1) : K(o, k) <=> C(o, k)
  BY <1>0, <1>3, <1>5, <1>d DEF Child
<1>10. \A k \in 1..(n - 1) : T[k].name \in Name /\ \E o \in 0..(n - 1) : C(o, k)
  BY DEF Tree
<1>11. K(p, n)
  <2>1. n \in 1..n
    BY <1>0
  <2>2. Q[p] = P[p]
    BY <1>3
  <2> QED
    BY <1>0, <1>3, <1>6, <2>1, <2>2 DEF Child, q
<1>12. ASSUME NEW o \in 0..(n - 1), K(o, n) PROVE o = p
  <2>1. q = Below(P[o], name)
    BY <1>3, <1>6, <1>12 DEF Child
  <2>2. P[o] = P[p]
    BY <1>1, <2>1, SamePath DEF q
  <2> QED
    BY <2>2 DEF Tree
<1>13. ASSUME NEW k \in 1..n PROVE ~K(n, k)
  <2>1. CASE k = n
    <3>1. Below(q, name) # q
      BY <1>2, BelowIs
    <3> QED
      BY <1>3, <1>6, <2>1, <3>1 DEF Child
  <2>2. CASE k \in 1..(n - 1)
    <3>1. PICK o \in 0..(n - 1) : C(o, k)
      BY <1>10, <2>2
    <3>2. P[k] = Below(P[o], T[k].name)
      BY <3>1 DEF Child
    <3>3. SUFFICES ASSUME K(n, k) PROVE FALSE
      OBVIOUS
    <3>4. P[k] = Below(q, T[k].name)
      BY <1>3, <1>5, <1>d, <2>2, <3>3 DEF Child
    <3>5. P[o] = q
      <4>1. P[o] \in Seq(Name)
        BY <1>1
      <4>2. T[k].name \in Name
        BY <1>10, <2>2
      <4> QED
        <5>1. Below(P[o], T[k].name) = Below(q, T[k].name)
          BY <3>2, <3>4
        <5> QED
          BY <1>2, <4>1, <4>2, <5>1, SamePath
    <3> QED
      BY <1>4, <3>5
  <2> QED
    BY <1>c, <2>1, <2>2
<1>14. U \in [0..n -> Node] /\ U[0].is_dir
  <2>1. U[n] \in Node
    <3>1. T[p].first_child \in Int
      BY <1>0, <1>8
    <3>2. U[n] = [name |-> name, is_dir |-> TRUE, data |-> 0, size |-> 0,
                  first_child |-> NONE, next_sibling |-> T[p].first_child]
      BY DEF Grows
    <3> QED
      BY <1>0, <3>1, <3>2 DEF Node
  <2>2. \A k \in 0..n : U[k] \in Node
    BY <1>5, <1>a, <2>1
  <2>3. 0 \in 0..(n - 1)
    BY <1>0
  <2>4. U[0].is_dir
    BY <2>3 DEF Grows, Tree
  <2> QED
    BY <1>6, <2>2, <2>4
<1>15. Q \in [0..n -> Seq(Name)] /\ Q[0] = << >>
  <2>1. \A k \in 0..n : Q[k] \in Seq(Name)
    BY <1>1, <1>2, <1>3, <1>a
  <2>2. 0 \in 0..(n - 1) /\ P[0] = << >>
    BY <1>0 DEF Tree
  <2> QED
    BY <1>3, <2>1, <2>2
<1>16. \A j, k \in 0..n : Q[j] = Q[k] => j = k
  <2>1. \A j, k \in 0..(n - 1) : P[j] = P[k] => j = k
    BY DEF Tree
  <2> QED
    BY <1>3, <1>4, <1>a, <2>1
<1>17. \A k \in 1..n : U[k].name \in Name /\ \E o \in 0..n : K(o, k)
  BY <1>5, <1>6, <1>9, <1>10, <1>11, <1>b, <1>c, <1>d
<1>18. ASSUME NEW k \in 0..n
       PROVE  /\ U[k].next_sibling \in {NONE} \cup 1..(k - 1)
              /\ U[k].first_child \in {NONE} \cup 1..n
  <2>1. CASE k = n
    BY <1>6, <1>8, <2>1
  <2>2. CASE k \in 0..(n - 1)
    BY <1>0, <1>5, <1>7, <1>8, <1>d, <2>2
  <2> QED
    BY <1>a, <2>1, <2>2
<1>19. ASSUME NEW o \in 0..n
       PROVE  U[o].first_child # NONE => K(o, U[o].first_child)
  <2>1. CASE o = n
    BY <1>6, <2>1
  <2>2. CASE o \in 0..(n - 1) /\ o = p
    BY <1>7, <1>11, <2>2
  <2>3. CASE o \in 0..(n - 1) /\ o # p
    <3>1. T[o].first_child # NONE => C(o, T[o].first_child)
      BY <2>3 DEF Tree
    <3>2. T[o].first_child \in {NONE} \cup 1..(n - 1)
      BY <1>8, <2>3
    <3> QED
      BY <1>7, <1>9, <2>3, <3>1, <3>2
  <2> QED
    BY <1>a, <2>1, <2>2, <2>3
<1>20. ASSUME NEW o \in 0..n, NEW k \in 1..n, K(o, k)
       PROVE  /\ U[k].next_sibling # NONE => K(o, U[k].next_sibling)
              /\ \/ k = U[o].first_child
                 \/ \E j \in 1..n : K(o, j) /\ U[j].next_sibling = k
  <2>1. o \in 0..(n - 1)
    BY <1>13, <1>20, <1>a
  <2>2. CASE k = n
    <3>1. o = p
      BY <1>12, <1>20, <2>1, <2>2
    <3>2. U[o].first_child = n
      BY <1>7, <2>1, <3>1
    <3>3. T[p].first_child # NONE => C(p, T[p].first_child)
      BY DEF Tree
    <3>4. T[p].first_child \in {NONE} \cup 1..(n - 1)
      BY <1>8
    <3> QED
      BY <1>6, <1>9, <2>2, <3>1, <3>2, <3>3, <3>4
  <2>3. CASE k \in 1..(n - 1)
    <3>1. C(o, k)
      BY <1>9, <1>20, <2>1, <2>3
    <3>2. /\ T[k].next_sibling # NONE => C(o, T[k].next_sibling)
          /\ \/ k = T[o].first_child
             \/ \E j \in 1..(n - 1) : C(o, j) /\ T[j].next_sibling = k
      BY <2>1, <2>3, <3>1 DEF Tree
    <3>3. U[k].next_sibling = T[k].next_sibling
      BY <1>5, <1>d, <2>3
    <3>4. T[k].next_sibling # NONE => T[k].next_sibling \in 1..(n - 1)
      BY <3>2 DEF Child
    <3>5. U[k].next_sibling # NONE => K(o, U[k].next_sibling)
      BY <1>9, <2>1, <3>2, <3>3, <3>4
    <3>6. CASE k = T[o].first_child /\ o # p
      BY <1>7, <2>1, <3>5, <3>6
    <3>7. CASE k = T[o].first_child /\ o = p
      <4>1. n \in 1..n /\ K(o, n) /\ U[n].next_sibling = k
        BY <1>0, <1>6, <1>11, <3>7
      <4> QED
        BY <3>5, <4>1
    <3>8. CASE \E j \in 1..(n - 1) : C(o, j) /\ T[j].next_sibling = k
      <4>1. PICK j \in 1..(n - 1) : C(o, j) /\ T[j].next_sibling = k
        BY <3>8
      <4>2. j \in 1..n /\ K(o, j) /\ U[j].next_sibling = k
        BY <1>5, <1>9, <1>d, <2>1, <4>1
      <4> QED
        BY <3>5, <4>2
    <3> QED
      BY <3>2, <3>6, <3>7, <3>8
  <2> QED
    BY <1>c, <2>2, <2>3
<1>22. m \in Nat \ {0} /\ 0..n = 0..(m - 1) /\ 1..n = 1..(m - 1)
  BY <1>0 DEF m
<1>23. Tree(U, m, Q)
  <2>1. U \in [0..(m - 1) -> Node] /\ Q \in [0..(m - 1) -> Seq(Name)]
    BY <1>14, <1>15, <1>22
  <2>2. \A j, k \in 0..(m - 1) : Q[j] = Q[k] => j = k
    BY <1>16, <1>22
  <2>3. \A k \in 1..(m - 1) : U[k].name \in Name /\ \E o \in 0..(m - 1) : K(o, k)
    BY <1>17, <1>22
  <2>4. \A k \in 0..(m - 1) : /\ U[k].next_sibling \in {NONE} \cup 1..(k - 1)
                              /\ U[k].first_child \in {NONE} \cup 1..(m - 1)
    BY <1>18, <1>22
  <2>5. \A o \in 0..(m - 1) :
          /\ U[o].first_child # NONE => K(o, U[o].first_child)
          /\ \A k \in 1..(m - 1) : K(o, k) =>
               /\ U[k].next_sibling # NONE => K(o, U[k].next_sibling)
               /\ \/ k = U[o].first_child
                  \/ \E j \in 1..(m - 1) : K(o, j) /\ U[j].next_sibling = k
    <3> HIDE DEF K
    <3> QED
      BY <1>19, <1>20, <1>22
  <2> QED
    BY <1>14, <1>15, <1>22, <2>1, <2>2, <2>3, <2>4, <2>5, Zenon DEF Tree
<1> QED
  BY <1>23 DEF m, Q, q

\* An entry may say again what a node is.
stamp(T, c, d, at, sz) == [T EXCEPT ![c].is_dir = d, ![c].data = at, ![c].size = sz]

Restamped(T, n, P, c, d, at, sz, U) ==
    /\ Tree(U, n, P)
    /\ U[c].is_dir = d /\ U[c].data = at /\ U[c].size = sz
    /\ \A k \in 0..(n - 1) : k # c => U[k] = T[k]

\* The links and so the paths stay as they are.
LEMMA TreeStamped ==
    ASSUME NEW T, NEW n, NEW P, Tree(T, n, P), NEW c \in 1..(n - 1),
           NEW d \in BOOLEAN, NEW at \in Nat, NEW sz \in Nat, NEW U, U = stamp(T, c, d, at, sz)
    PROVE  Restamped(T, n, P, c, d, at, sz, U)
<1>0. n \in Nat /\ T \in [0..(n - 1) -> Node] /\ c \in 0..(n - 1) /\ c # 0 /\ 0 \in 0..(n - 1)
  BY DEF Tree
<1>1. /\ U[c] = [T[c] EXCEPT !.is_dir = d, !.data = at, !.size = sz]
      /\ U = [k \in 0..(n - 1) |-> U[k]]
      /\ \A k \in 0..(n - 1) : k # c => U[k] = T[k]
  BY <1>0 DEF stamp
<1>2. T[c] \in Node
  BY <1>0
<1>3. /\ U[c] \in Node /\ U[c].is_dir = d /\ U[c].data = at /\ U[c].size = sz
      /\ U[c].name = T[c].name /\ U[c].next_sibling = T[c].next_sibling
      /\ U[c].first_child = T[c].first_child
  BY <1>1, <1>2 DEF Node
<1>4. \A k \in 0..(n - 1) : /\ U[k] \in Node /\ U[k].name = T[k].name
                            /\ U[k].next_sibling = T[k].next_sibling
                            /\ U[k].first_child = T[k].first_child
  BY <1>0, <1>1, <1>3
<1>5. \A p, k \in 0..(n - 1) : Child(U, n, P, p, k) <=> Child(T, n, P, p, k)
  BY <1>4 DEF Child
<1>6. Tree(U, n, P)
  <2>1. U \in [0..(n - 1) -> Node] /\ U[0].is_dir
    <3>1. T[0].is_dir
      BY DEF Tree
    <3> QED
      BY <1>0, <1>1, <1>4, <3>1
  <2>2. \A k \in 1..(n - 1) : k \in 0..(n - 1)
    BY <1>0
  <2>3. \A k \in 1..(n - 1) : U[k].name \in Name /\ \E p \in 0..(n - 1) : Child(U, n, P, p, k)
    BY <1>4, <1>5, <2>2 DEF Tree
  <2>4. \A k \in 0..(n - 1) : /\ U[k].next_sibling \in {NONE} \cup 1..(k - 1)
                              /\ U[k].first_child \in {NONE} \cup 1..(n - 1)
    BY <1>4 DEF Tree
  <2>5. ASSUME NEW p \in 0..(n - 1)
        PROVE  /\ U[p].first_child # NONE => Child(U, n, P, p, U[p].first_child)
               /\ \A k \in 1..(n - 1) : Child(U, n, P, p, k) =>
                    /\ U[k].next_sibling # NONE => Child(U, n, P, p, U[k].next_sibling)
                    /\ \/ k = U[p].first_child
                       \/ \E j \in 1..(n - 1) : Child(U, n, P, p, j) /\ U[j].next_sibling = k
    <3>1. /\ T[p].first_child # NONE => Child(T, n, P, p, T[p].first_child)
          /\ \A k \in 1..(n - 1) : Child(T, n, P, p, k) =>
               /\ T[k].next_sibling # NONE => Child(T, n, P, p, T[k].next_sibling)
               /\ \/ k = T[p].first_child
                  \/ \E j \in 1..(n - 1) : Child(T, n, P, p, j) /\ T[j].next_sibling = k
      BY DEF Tree
    <3>2. \A k : Child(T, n, P, p, k) => k \in 0..(n - 1)
      BY <2>2 DEF Child
    <3> QED
      BY <1>4, <1>5, <2>2, <3>1, <3>2
  <2> QED
    BY <2>1, <2>3, <2>4, <2>5 DEF Tree
<1> QED
  BY <1>1, <1>3, <1>6 DEF Restamped

\* Some node has path q.
Has(P, n, q) == \E k \in 0..(n - 1) : P[k] = q

\* With a path the tree has all of its prefixes.
LEMMA PrefixesExist ==
    ASSUME NEW T, NEW n, NEW P, Tree(T, n, P), NEW q \in Seq(Name), Has(P, n, q),
           NEW l \in 0..Len(q)
    PROVE  Has(P, n, SubSeq(q, 1, l))
<1> DEFINE Lack(s) == Has(P, n, s) /\ \E i \in 0..Len(s) : ~Has(P, n, SubSeq(s, 1, i))
           Bad == {m \in Nat : \E s \in Seq(Name) : Len(s) = m /\ Lack(s)}
<1>0. n \in Nat /\ P[0] = << >> /\ \A k \in 0..(n - 1) : P[k] \in Seq(Name)
  BY DEF Tree
<1>1. Bad = {}
  <2> SUFFICES ASSUME Bad # {} PROVE FALSE
    OBVIOUS
  <2>1. PICK m \in Bad : \A j \in Bad : m <= j
    <3>1. Bad \subseteq Nat
      OBVIOUS
    <3> HIDE DEF Bad
    <3> QED
      BY <3>1, LeastNatural
  <2>2. PICK s \in Seq(Name) : Len(s) = m /\ Lack(s)
    BY <2>1
  <2>3. PICK i \in 0..Len(s) : ~Has(P, n, SubSeq(s, 1, i))
    BY <2>2
  <2>4. Has(P, n, s) /\ Len(s) \in Nat
    BY <2>2
  <2>5. PICK k \in 0..(n - 1) : P[k] = s
    BY <2>4 DEF Has
  <2>6. i # Len(s)
    <3>1. ASSUME i = Len(s) PROVE SubSeq(s, 1, i) = s
      <4>1. /\ SubSeq(s, 1, i) \in Seq(Name) /\ Len(SubSeq(s, 1, i)) = i
            /\ \A j \in 1..i : SubSeq(s, 1, i)[j] = s[j]
        BY Prefix
      <4> QED
        BY <3>1, <4>1, SeqEqual
    <3> QED
      BY <2>3, <2>4, <3>1
  <2>7. k \in 1..(n - 1)
    <3>1. Len(s) # 0
      BY <2>4, <2>6
    <3>2. s # << >>
      BY <3>1
    <3> QED
      BY <1>0, <2>5, <3>2
  <2>8. PICK p \in 0..(n - 1) : Child(T, n, P, p, k)
    BY <2>7 DEF Tree
  <2> DEFINE r == P[p]
             x == T[k].name
  <2>9. r \in Seq(Name) /\ x \in Name /\ s = Below(r, x) /\ Has(P, n, r)
    <3>1. r \in Seq(Name)
      BY <1>0
    <3>2. x \in Name
      BY <2>7 DEF Tree
    <3>3. s = Below(r, x)
      BY <2>5, <2>8 DEF Child
    <3>4. Has(P, n, r)
      BY DEF Has
    <3> QED
      BY <3>1, <3>2, <3>3, <3>4
  <2> HIDE DEF r, x
  <2>10. Len(s) = Len(r) + 1 /\ (\A j \in 1..Len(r) : s[j] = r[j]) /\ Len(r) \in Nat
    <3>1. Len(r) \in Nat
      BY <2>9
    <3>2. /\ Len(Below(r, x)) = Len(r) + 1
          /\ \A j \in 1..Len(r) : Below(r, x)[j] = r[j]
      BY <2>9, BelowIs
    <3> QED
      BY <2>9, <3>1, <3>2
  <2>11. SubSeq(s, 1, i) = SubSeq(r, 1, i) /\ i \in 0..Len(r)
    <3>1. i \in 0..Len(r)
      BY <2>6, <2>10
    <3>2. /\ SubSeq(r, 1, i) \in Seq(Name) /\ Len(SubSeq(r, 1, i)) = i
          /\ \A j \in 1..i : SubSeq(r, 1, i)[j] = r[j]
      BY <2>9, <3>1, Prefix
    <3>3. /\ SubSeq(s, 1, i) \in Seq(Name) /\ Len(SubSeq(s, 1, i)) = i
          /\ \A j \in 1..i : SubSeq(s, 1, i)[j] = s[j]
      BY Prefix
    <3>4. \A j \in 1..i : s[j] = r[j]
      BY <2>10, <3>1
    <3>5. SubSeq(s, 1, i) = SubSeq(r, 1, i)
      BY <3>2, <3>3, <3>4, SeqEqual
    <3> QED
      BY <3>1, <3>5
  <2>12. Lack(r)
    BY <2>3, <2>9, <2>11
  <2>13. Len(r) \in Bad
    BY <2>9, <2>10, <2>12
  <2> HIDE DEF Bad
  <2> QED
    BY <2>1, <2>2, <2>10, <2>13
<1>2. ~Lack(q)
  <2>1. Len(q) \in Nat
    OBVIOUS
  <2> HIDE DEF Lack
  <2> QED
    BY <1>1, <2>1
<1> QED
  BY <1>2

----------------------------------------------------------------------------
(* Paths *)

\* g[m] are the components among the first m pieces of a path.
Splits(path, g) ==
    /\ g \in [0..Len(path) -> Seq(Name)] /\ g[0] = << >>
    /\ \A m \in 1..Len(path) :
         g[m] = IF path[m] = EMPTY THEN g[m - 1] ELSE Below(g[m - 1], path[m])

\* components() takes a path apart from left to right.
LEMMA ComponentsAre ==
    ASSUME NEW path \in Seq(Name \cup {EMPTY})
    PROVE  \E g : Splits(path, g) /\ components(path) = g[Len(path)]
<1> DEFINE n == Len(path)
           take(s, c) == IF c = EMPTY THEN s ELSE Append(s, c)
           Q(f) == f = [s \in SUBSET (DOMAIN path) |->
                          IF s = {} THEN << >>
                          ELSE LET x == Max(s)
                               IN  IF path[x] = EMPTY THEN f[s \ {x}]
                                   ELSE Append(f[s \ {x}], path[x])]
           iter == CHOOSE f : Q(f)
           step == [k \in 1..n |-> [s \in Seq(Name) |->
                      IF path[k] = EMPTY THEN s ELSE Append(s, path[k])]]
<1>0. n \in Nat /\ DOMAIN path = 1..n
  OBVIOUS
<1>1. components(path) = iter[1..n]
  <2>1. components(path) = iter[DOMAIN path]
    BY DEF components, FoldLeft, MapThenFoldSet
  <2> QED
    BY <1>0, <2>1
<1>2. \A k \in 1..n : path[k] = EMPTY \/ path[k] \in Name
  OBVIOUS
<1>3. ASSUME NEW s \in Seq(Name), NEW k \in 1..n
      PROVE  /\ step[k][s] = IF path[k] = EMPTY THEN s ELSE Append(s, path[k])
             /\ step[k][s] \in Seq(Name)
  <2>1. step[k][s] = IF path[k] = EMPTY THEN s ELSE Append(s, path[k])
    OBVIOUS
  <2>2. path[k] \in Name => Append(s, path[k]) \in Seq(Name)
    BY AppendProperties
  <2> HIDE DEF step
  <2> QED
    BY <1>2, <2>1, <2>2
<1> HIDE DEF n, step
<1>4. PICK f \in [SUBSET (1..n) -> Seq(Name)] : FoldsUp(n, << >>, step, f)
  <2>1. << >> \in Seq(Name)
    OBVIOUS
  <2>2. \A s \in Seq(Name), k \in 1..n : step[k][s] \in Seq(Name)
    BY <1>3
  <2> QED
    BY <1>0, <2>1, <2>2, FoldsExist
<1>5. Q(f)
  <2>1. ASSUME NEW s \in SUBSET (1..n), s # {}
        PROVE  f[s] = IF path[Max(s)] = EMPTY THEN f[s \ {Max(s)}]
                      ELSE Append(f[s \ {Max(s)}], path[Max(s)])
    <3>1. f[s] = step[Max(s)][f[s \ {Max(s)}]]
      BY <1>4, <2>1 DEF FoldsUp
    <3>2. f[s \ {Max(s)}] \in Seq(Name) /\ Max(s) \in 1..n
      BY <1>0, <1>4, <2>1, MaxOf
    <3> QED
      BY <1>3, <3>1, <3>2, Zenon
  <2>2. f[{}] = << >>
    BY <1>4 DEF FoldsUp
  <2>3. f = [s \in SUBSET (1..n) |-> f[s]]
    BY <1>4
  <2>4. \A s \in SUBSET (1..n) :
          f[s] = IF s = {} THEN << >>
                 ELSE IF path[Max(s)] = EMPTY THEN f[s \ {Max(s)}]
                      ELSE Append(f[s \ {Max(s)}], path[Max(s)])
    BY <2>1, <2>2, Zenon
  <2>5. f = [s \in SUBSET (1..n) |->
               IF s = {} THEN << >>
               ELSE IF path[Max(s)] = EMPTY THEN f[s \ {Max(s)}]
                    ELSE Append(f[s \ {Max(s)}], path[Max(s)])]
    BY <2>3, <2>4, Zenon
  <2> QED
    BY <1>0, <2>5
<1>6. Q(iter)
  <2> HIDE DEF Q
  <2> QED
    BY <1>5
<1>7. iter = [s \in SUBSET (1..n) |->
                IF s = {} THEN << >>
                ELSE IF path[Max(s)] = EMPTY THEN iter[s \ {Max(s)}]
                     ELSE Append(iter[s \ {Max(s)}], path[Max(s)])]
  <2> HIDE DEF iter
  <2> QED
    BY <1>0, <1>6
<1> HIDE DEF iter, Q
<1> DEFINE g == [m \in 0..n |-> iter[1..m]]
<1>8. g[0] = << >>
  <2>1. 1..0 = {} /\ 0 \in 0..n
    BY <1>0
  <2> QED
    BY <1>7, <2>1
<1>9. ASSUME NEW m \in 1..n
      PROVE  g[m] = IF path[m] = EMPTY THEN g[m - 1] ELSE Below(g[m - 1], path[m])
  <2>0. m \in 0..n /\ m - 1 \in 0..n
    BY <1>0
  <2>a. m \in Nat /\ m \in 1..m /\ 1..m \in SUBSET (1..n)
    BY <1>0
  <2>1. 1..m \in SUBSET (1..n) /\ 1..m # {} /\ m \in 1..m /\ 1..m \in SUBSET (1..m) /\ m \in Nat
    BY <2>a
  <2>2. Max(1..m) = m
    BY <2>1, MaxOf
  <2>3. (1..m) \ {m} = 1..(m - 1)
    OBVIOUS
  <2>4. iter[1..m] = IF path[m] = EMPTY THEN iter[1..(m - 1)] ELSE Append(iter[1..(m - 1)], path[m])
    <3>1. iter[1..m] = IF path[Max(1..m)] = EMPTY THEN iter[(1..m) \ {Max(1..m)}]
                       ELSE Append(iter[(1..m) \ {Max(1..m)}], path[Max(1..m)])
      BY <1>7, <2>1, Zenon
    <3> QED
      BY <2>2, <2>3, <3>1
  <2>5. g[m] = iter[1..m] /\ g[m - 1] = iter[1..(m - 1)]
    BY <2>0
  <2> HIDE DEF g
  <2> QED
    BY <2>4, <2>5 DEF Below
<1> DEFINE Bad == {m \in 0..n : g[m] \notin Seq(Name)}
<1>10. Bad = {}
  <2> SUFFICES ASSUME Bad # {} PROVE FALSE
    OBVIOUS
  <2>1. PICK m \in Bad : \A i \in Bad : m <= i
    <3>1. Bad \subseteq Nat
      OBVIOUS
    <3> HIDE DEF Bad
    <3> QED
      BY <3>1, LeastNatural
  <2> HIDE DEF g
  <2>2. m \in 0..n /\ g[m] \notin Seq(Name)
    BY <2>1
  <2>3. m # 0
    <3>1. << >> \in Seq(Name)
      OBVIOUS
    <3> QED
      BY <1>8, <2>2, <3>1, Zenon
  <2>4. m \in 1..n /\ m - 1 \in 0..n /\ ~(m <= m - 1)
    BY <1>0, <2>2, <2>3
  <2>5. g[m - 1] \in Seq(Name)
    <3>1. m - 1 \notin Bad
      <4> HIDE DEF Bad
      <4> QED
        BY <2>1, <2>4
    <3> QED
      BY <2>4, <3>1
  <2>6. path[m] \in Name => Below(g[m - 1], path[m]) \in Seq(Name)
    BY <2>5, BelowIs
  <2> QED
    BY <1>2, <1>9, <2>2, <2>4, <2>5, <2>6
<1>11. g \in [0..n -> Seq(Name)]
  <2>1. \A m \in 0..n : g[m] \in Seq(Name)
    BY <1>10
  <2>2. g = [m \in 0..n |-> g[m]]
    OBVIOUS
  <2> HIDE DEF g
  <2> QED
    BY <2>1, <2>2
<1>12. components(path) = g[n]
  BY <1>0, <1>1
<1>13. Splits(path, g)
  <2> HIDE DEF g
  <2> QED
    BY <1>8, <1>9, <1>11 DEF Splits, n
<1> HIDE DEF g
<1> QED
  BY <1>12, <1>13 DEF n

----------------------------------------------------------------------------
(* mount() *)

Walk(T, c, cap) == [nodes |-> T, cur |-> c, cap |-> cap]

\* No entry of the directory of node p has the name.
Lacks(T, n, P, p, name) == \A j \in 1..(n - 1) : ~(Child(T, n, P, p, j) /\ T[j].name = name)

\* A component leads to the entry of that name, to a new one, or nowhere.
LEMMA StepIs ==
    ASSUME NEW T, NEW n, NEW P, Tree(T, n, P), NEW c \in {NONE} \cup 0..(n - 1),
           NEW cap \in Nat, NEW name \in Name
    PROVE  LET w == get_or_create_child(Walk(T, c, cap), name) IN
           \/ c = NONE /\ w = Walk(T, NONE, cap)
           \/ \E k \in 1..(n - 1) :
                c # NONE /\ Child(T, n, P, c, k) /\ T[k].name = name /\ w = Walk(T, k, cap)
           \/ c # NONE /\ Lacks(T, n, P, c, name) /\ n >= cap /\ w = Walk(T, NONE, cap)
           \/ c # NONE /\ Lacks(T, n, P, c, name) /\ n < cap
                /\ w = Walk(link_child(T, c, name), n, cap)
<1> DEFINE walk == Walk(T, c, cap)
           k == find_child(T, c, name)
<1>0. n \in Nat /\ Cardinality(DOMAIN T) = n
  <2>1. n \in Nat
    BY DEF Tree
  <2> QED
    BY <2>1, SiblingsAre
<1>1. get_or_create_child(walk, name) =
        CASE c = NONE -> Walk(T, c, cap)
          [] c # NONE /\ k # NONE -> Walk(T, k, cap)
          [] OTHER -> IF Cardinality(DOMAIN T) >= cap THEN Walk(T, NONE, cap)
                      ELSE Walk(link_child(T, c, name), Cardinality(DOMAIN T), cap)
  <2>1. walk.nodes = T /\ walk.cur = c /\ walk.cap = cap
    BY DEF Walk
  <2>2. \A d : [walk EXCEPT !.cur = d] = Walk(T, d, cap)
    BY DEF Walk
  <2>3. ASSUME NEW U, NEW d PROVE [walk EXCEPT !.nodes = U, !.cur = d] = Walk(U, d, cap)
    <3> DEFINE moved == [walk EXCEPT !.nodes = U]
    <3>1. moved = Walk(U, c, cap)
      BY DEF Walk
    <3> HIDE DEF moved
    <3>2. [moved EXCEPT !.cur = d] = Walk(U, d, cap)
      BY <3>1 DEF Walk
    <3> QED
      BY <3>2 DEF moved
  <2>4. get_or_create_child(walk, name) =
          CASE c = NONE -> walk
            [] c # NONE /\ k # NONE -> [walk EXCEPT !.cur = k]
            [] OTHER -> IF Cardinality(DOMAIN T) >= cap THEN [walk EXCEPT !.cur = NONE]
                        ELSE [walk EXCEPT !.nodes = link_child(T, c, name),
                                          !.cur = Cardinality(DOMAIN T)]
    <3> HIDE DEF walk
    <3>1. get_or_create_child(walk, name) =
            CASE walk.cur = NONE -> walk
              [] walk.cur # NONE /\ find_child(walk.nodes, walk.cur, name) # NONE ->
                   [walk EXCEPT !.cur = find_child(walk.nodes, walk.cur, name)]
              [] OTHER ->
                   IF Cardinality(DOMAIN walk.nodes) >= walk.cap THEN [walk EXCEPT !.cur = NONE]
                   ELSE [walk EXCEPT !.nodes = link_child(walk.nodes, walk.cur, name),
                                     !.cur = Cardinality(DOMAIN walk.nodes)]
      BY Zenon DEF get_or_create_child
    <3> QED
      BY <2>1, <3>1
  <2>5. walk = Walk(T, c, cap)
    OBVIOUS
  <2> HIDE DEF walk, k
  <2>6. [walk EXCEPT !.cur = k] = Walk(T, k, cap) /\ [walk EXCEPT !.cur = NONE] = Walk(T, NONE, cap)
    BY <2>2, Zenon
  <2>7. [walk EXCEPT !.nodes = link_child(T, c, name), !.cur = Cardinality(DOMAIN T)]
          = Walk(link_child(T, c, name), Cardinality(DOMAIN T), cap)
    BY <2>3, Zenon
  <2> QED
    BY <2>4, <2>5, <2>6, <2>7, Zenon
<1> HIDE DEF walk
<1>2. CASE c = NONE
  <2>1. get_or_create_child(walk, name) = Walk(T, NONE, cap)
    BY <1>1, <1>2
  <2> QED
    BY <1>2, <2>1 DEF walk
<1>3. CASE c # NONE
  <2>1. c \in 0..(n - 1)
    BY <1>3
  <2>2. \/ k = NONE /\ Lacks(T, n, P, c, name)
        \/ k \in 1..(n - 1) /\ Child(T, n, P, c, k) /\ T[k].name = name
    BY <2>1, FindChildIs DEF Lacks
  <2> HIDE DEF k
  <2>3. CASE k # NONE
    <3>1. get_or_create_child(walk, name) = Walk(T, k, cap)
      BY <1>1, <1>3, <2>3
    <3> QED
      BY <1>3, <2>2, <2>3, <3>1 DEF walk
  <2>4. CASE k = NONE
    <3>1. get_or_create_child(walk, name) =
            IF n >= cap THEN Walk(T, NONE, cap) ELSE Walk(link_child(T, c, name), n, cap)
      BY <1>0, <1>1, <1>3, <2>4
    <3>2. Lacks(T, n, P, c, name)
      <4>1. NONE \notin 1..(n - 1)
        BY DEF NONE
      <4> QED
        BY <2>2, <2>4, <4>1
    <3>3. n >= cap \/ n < cap
      BY <1>0
    <3>4. ~(n >= cap) <=> n < cap
      BY <1>0
    <3> QED
      BY <1>3, <3>1, <3>2, <3>4 DEF walk
  <2> QED
    BY <2>3, <2>4
<1> QED
  BY <1>2, <1>3

\* The components of an archive's j-th entry, and the entries up to the i-th
\* with components q.
Comps(a, j) == components(a[j].path)
EntriesUpTo(a, i, q) == {j \in 1..i : Comps(a, j) = q}

\* Of the first i entries of an archive, every node is part of one ...
Rooted(a, i, n, P) ==
    \A k \in 0..(n - 1) : P[k] = << >> \/ \E j \in 1..i : IsPrefix(P[k], Comps(a, j))

\* ... and is what the last one with its path says ...
Stamped(a, i, T, n, P) ==
    \A k \in 1..(n - 1) :
        LET E == EntriesUpTo(a, i, P[k])
            e == a[Max(E)]
        IN  /\ E = {} => T[k].is_dir
            /\ E # {} => /\ T[k].is_dir = e.is_dir
                         /\ ~e.is_dir => T[k].data = Max(E) /\ T[k].size = e.size

\* ... and none is missing while there is room.
Whole(a, i, cap, n, P) == n < cap => \A j \in 1..i : Has(P, n, Comps(a, j))

Built(a, i, cap, T, n, P) ==
    Tree(T, n, P) /\ Rooted(a, i, n, P) /\ Stamped(a, i, T, n, P) /\ Whole(a, i, cap, n, P)

\* The i-th entry has been followed along its first m components.
Climbed(a, i, cap, m, w) ==
    \E T, n, P, c :
        /\ w = Walk(T, c, cap) /\ Tree(T, n, P)
        /\ Rooted(a, i, n, P) /\ Stamped(a, i - 1, T, n, P) /\ Whole(a, i - 1, cap, n, P)
        /\ \/ c \in 0..(n - 1) /\ P[c] = SubSeq(Comps(a, i), 1, m)
           \/ c = NONE /\ n >= cap /\ ~Has(P, n, Comps(a, i))

\* Components are names, none of them empty.
LEMMA CompsAre ==
    ASSUME NEW a \in Seq(Entry), NEW i \in 1..Len(a)
    PROVE  Comps(a, i) \in Seq(Name)
<1>0. a[i] \in Entry
  BY ElementOfSeq
<1>1. a[i].path \in Seq(Name \cup {EMPTY})
  BY <1>0 DEF Entry
<1>2. PICK g : Splits(a[i].path, g) /\ components(a[i].path) = g[Len(a[i].path)]
  BY <1>1, ComponentsAre
<1>3. Len(a[i].path) \in 0..Len(a[i].path)
  BY <1>1
<1>4. g[Len(a[i].path)] \in Seq(Name)
  BY <1>2, <1>3 DEF Splits
<1> QED
  BY <1>2, <1>4 DEF Comps

\* A prefix with one component more.
LEMMA NextPrefix ==
    ASSUME NEW s \in Seq(Name), NEW m \in 1..Len(s)
    PROVE  SubSeq(s, 1, m) = Below(SubSeq(s, 1, m - 1), s[m]) /\ s[m] \in Name
           /\ SubSeq(s, 1, m) \in Seq(Name) /\ SubSeq(s, 1, m - 1) \in Seq(Name)
<1>1. m - 1 \in 0..Len(s) /\ m \in 0..Len(s) /\ s[m] \in Name
  OBVIOUS
<1> DEFINE u == SubSeq(s, 1, m - 1)
           v == SubSeq(s, 1, m)
<1>2. u \in Seq(Name) /\ Len(u) = m - 1 /\ \A i \in 1..(m - 1) : u[i] = s[i]
  BY <1>1, Prefix
<1>3. v \in Seq(Name) /\ Len(v) = m /\ \A i \in 1..m : v[i] = s[i]
  BY <1>1, Prefix
<1> HIDE DEF u, v
<1>4. /\ Below(u, s[m]) \in Seq(Name) /\ Len(Below(u, s[m])) = Len(u) + 1
      /\ Below(u, s[m])[Len(u) + 1] = s[m]
      /\ \A i \in 1..Len(u) : Below(u, s[m])[i] = u[i]
  BY <1>1, <1>2, BelowIs
<1>5. Len(u) + 1 = m /\ Len(Below(u, s[m])) = Len(v)
  BY <1>2, <1>3, <1>4
<1>6. \A i \in 1..Len(v) : Below(u, s[m])[i] = v[i]
  <2> TAKE i \in 1..Len(v)
  <2>1. CASE i = m
    BY <1>3, <1>4, <1>5, <2>1
  <2>2. CASE i # m
    <3>1. i \in 1..(m - 1) /\ i \in 1..m
      BY <1>3, <2>2
    <3> QED
      BY <1>2, <1>3, <1>4, <3>1
  <2> QED
    BY <2>1, <2>2
<1>7. v = Below(u, s[m])
  BY <1>3, <1>4, <1>5, <1>6, SeqEqual
<1> QED
  BY <1>1, <1>2, <1>3, <1>7 DEF u, v

\* The first m components are a prefix.
LEMMA PrefixIs ==
    ASSUME NEW s \in Seq(Name), NEW m \in 0..Len(s)
    PROVE  IsPrefix(SubSeq(s, 1, m), s)
<1> DEFINE v == SubSeq(s, 1, m)
<1>1. v \in Seq(Name) /\ Len(v) = m
  BY Prefix
<1>2. m \in 0..Len(v) /\ m <= Len(s)
  BY <1>1
<1> HIDE DEF v
<1>3. /\ SubSeq(v, 1, m) \in Seq(Name) /\ Len(SubSeq(v, 1, m)) = m
      /\ \A i \in 1..m : SubSeq(v, 1, m)[i] = v[i]
  BY <1>1, <1>2, Prefix
<1>4. SubSeq(v, 1, m) = v
  BY <1>1, <1>3, SeqEqual
<1> QED
  BY <1>1, <1>2, <1>4 DEF IsPrefix, v

\* A new node for a prefix of the i-th entry takes nothing from the others.
LEMMA GrownBuilt ==
    ASSUME NEW a \in Seq(Entry), NEW i \in 1..Len(a), NEW cap \in Nat,
           NEW T, NEW n, NEW P, Tree(T, n, P), n < cap,
           Rooted(a, i, n, P), Stamped(a, i - 1, T, n, P), Whole(a, i - 1, cap, n, P),
           NEW c \in 0..(n - 1), NEW name \in Name, Lacks(T, n, P, c, name),
           NEW U, Grows(T, n, U, c, name),
           IsPrefix(Below(P[c], name), Comps(a, i))
    PROVE  LET q == Below(P[c], name)
               Q == grown(P, n, q)
           IN  /\ Tree(U, n + 1, Q) /\ Q[n] = q /\ n \in 0..((n + 1) - 1)
               /\ Rooted(a, i, n + 1, Q) /\ Stamped(a, i - 1, U, n + 1, Q)
               /\ Whole(a, i - 1, cap, n + 1, Q)
<1> DEFINE q == Below(P[c], name)
           m == n + 1
           Q == grown(P, n, q)
<1>0. n \in Nat /\ n >= 1 /\ 0..(m - 1) = 0..n /\ 1..(m - 1) = 1..n /\ n \in 0..n /\ n \notin 0..(n - 1)
  <2>1. n \in Nat \ {0}
    BY DEF Tree
  <2> QED
    BY <2>1
<1>a. \A k \in 0..n : k = n \/ k \in 0..(n - 1)
  BY <1>0
<1>b. \A k \in 0..(n - 1) : k \in 0..n
  BY <1>0
<1>c. \A k \in 1..n : k = n \/ k \in 1..(n - 1)
  BY <1>0
<1>d. \A k \in 1..(n - 1) : k \in 0..(n - 1)
  BY <1>0
<1>1. Tree(U, m, Q)
  BY TreeGrows DEF Lacks
<1>2. Q[n] = q /\ \A k \in 0..(n - 1) : Q[k] = P[k]
  BY <1>0, <1>b DEF grown
<1>3. ~Has(P, n, q)
  BY NewPath DEF Lacks, Has
<1>4. U[n].is_dir /\ \A k \in 0..(n - 1) : /\ U[k].is_dir = T[k].is_dir
                                           /\ U[k].data = T[k].data /\ U[k].size = T[k].size
  <2>1. U[n] = [name |-> name, is_dir |-> TRUE, data |-> 0, size |-> 0,
                first_child |-> NONE, next_sibling |-> T[c].first_child]
    BY DEF Grows
  <2>2. \A k \in 0..(n - 1) : U[k].is_dir = T[k].is_dir /\ U[k].data = T[k].data
                              /\ U[k].size = T[k].size
    BY DEF Grows
  <2>3. U[n].is_dir = TRUE
    BY <2>1
  <2> QED
    BY <2>2, <2>3
<1>e. n < m
  BY <1>0
<1> HIDE DEF q, m, Q
<1>5. Rooted(a, i, m, Q)
  <2> SUFFICES ASSUME NEW k \in 0..(m - 1)
               PROVE  Q[k] = << >> \/ \E j \in 1..i : IsPrefix(Q[k], Comps(a, j))
    BY DEF Rooted
  <2>1. CASE k = n
    <3>1. i \in 1..i
      OBVIOUS
    <3> QED
      BY <1>2, <2>1, <3>1 DEF q
  <2>2. CASE k \in 0..(n - 1)
    BY <1>2, <2>2 DEF Rooted
  <2> QED
    BY <1>0, <1>a, <2>1, <2>2
<1>6. Stamped(a, i - 1, U, m, Q)
  <2> DEFINE E(r) == EntriesUpTo(a, i - 1, r)
             Says(N, r) == /\ E(r) = {} => N.is_dir
                           /\ E(r) # {} => /\ N.is_dir = a[Max(E(r))].is_dir
                                           /\ ~a[Max(E(r))].is_dir =>
                                                N.data = Max(E(r)) /\ N.size = a[Max(E(r))].size
  <2>1. \A k \in 1..(n - 1) : Says(T[k], P[k])
    BY DEF Stamped
  <2>2. \A k \in 1..(n - 1) : Says(U[k], Q[k])
    <3> HIDE DEF E
    <3> QED
      BY <1>2, <1>4, <1>d, <2>1
  <2>3. E(Q[n]) = {}
    <3>1. \A j \in 1..(i - 1) : Has(P, n, Comps(a, j))
      BY DEF Whole
    <3>2. \A j \in 1..(i - 1) : Comps(a, j) # q
      BY <1>3, <3>1
    <3> QED
      BY <1>2, <3>2 DEF EntriesUpTo
  <2>4. Says(U[n], Q[n])
    <3> HIDE DEF E
    <3> QED
      BY <1>4, <2>3
  <2>5. \A k \in 1..(m - 1) : Says(U[k], Q[k])
    <3> HIDE DEF Says
    <3> QED
      BY <1>0, <1>c, <2>2, <2>4
  <2> QED
    BY <2>5 DEF Stamped
<1>7. Whole(a, i - 1, cap, m, Q)
  <2> SUFFICES ASSUME NEW j \in 1..(i - 1) PROVE Has(Q, m, Comps(a, j))
    BY DEF Whole
  <2>1. PICK k \in 0..(n - 1) : P[k] = Comps(a, j)
    BY DEF Whole, Has
  <2>2. k \in 0..(m - 1) /\ Q[k] = Comps(a, j)
    BY <1>0, <1>2, <1>b, <2>1
  <2> QED
    BY <2>2 DEF Has
<1> QED
  BY <1>0, <1>1, <1>2, <1>5, <1>6, <1>7 DEF q, m, Q

\* One more component of the i-th entry.
LEMMA ClimbStep ==
    ASSUME NEW a \in Seq(Entry), NEW i \in 1..Len(a), NEW cap \in Nat,
           NEW m \in 1..Len(Comps(a, i)), NEW w, Climbed(a, i, cap, m - 1, w)
    PROVE  Climbed(a, i, cap, m, get_or_create_child(w, Comps(a, i)[m]))
<1> DEFINE s == Comps(a, i)
           x == s[m]
           v == get_or_create_child(w, x)
           q == SubSeq(s, 1, m)
<1>1. s \in Seq(Name)
  BY CompsAre
<1>2. /\ q = Below(SubSeq(s, 1, m - 1), x) /\ x \in Name /\ q \in Seq(Name)
      /\ m \in 0..Len(s) /\ IsPrefix(q, s)
  <2>1. m \in 1..Len(s) /\ m \in 0..Len(s)
    OBVIOUS
  <2> HIDE DEF s
  <2> QED
    BY <1>1, <2>1, NextPrefix, PrefixIs
<1>3. PICK T, n, P, c :
        /\ w = Walk(T, c, cap) /\ Tree(T, n, P)
        /\ Rooted(a, i, n, P) /\ Stamped(a, i - 1, T, n, P) /\ Whole(a, i - 1, cap, n, P)
        /\ \/ c \in 0..(n - 1) /\ P[c] = SubSeq(s, 1, m - 1)
           \/ c = NONE /\ n >= cap /\ ~Has(P, n, s)
  BY DEF Climbed
<1> HIDE DEF s, x, q
<1>4. c \in {NONE} \cup 0..(n - 1) /\ NONE \notin 0..(n - 1)
  BY <1>3 DEF NONE
<1>5. \/ c = NONE /\ v = Walk(T, NONE, cap)
      \/ \E k \in 1..(n - 1) :
           c # NONE /\ Child(T, n, P, c, k) /\ T[k].name = x /\ v = Walk(T, k, cap)
      \/ c # NONE /\ Lacks(T, n, P, c, x) /\ n >= cap /\ v = Walk(T, NONE, cap)
      \/ c # NONE /\ Lacks(T, n, P, c, x) /\ n < cap /\ v = Walk(link_child(T, c, x), n, cap)
  BY <1>2, <1>3, <1>4, StepIs
<1> HIDE DEF v
<1>6. c # NONE => c \in 0..(n - 1) /\ Below(P[c], x) = q
  BY <1>2, <1>3, <1>4
<1>7. CASE c = NONE /\ v = Walk(T, NONE, cap)
  <2>1. n >= cap /\ ~Has(P, n, s)
    BY <1>3, <1>4, <1>7
  <2> QED
    BY <1>3, <1>7, <2>1 DEF Climbed, s, x, v
<1>8. CASE \E k \in 1..(n - 1) :
             c # NONE /\ Child(T, n, P, c, k) /\ T[k].name = x /\ v = Walk(T, k, cap)
  <2>1. PICK k \in 1..(n - 1) :
          c # NONE /\ Child(T, n, P, c, k) /\ T[k].name = x /\ v = Walk(T, k, cap)
    BY <1>8
  <2>2. P[k] = q
    BY <1>6, <2>1 DEF Child
  <2>3. k \in 0..(n - 1)
    BY <1>3 DEF Tree
  <2> QED
    BY <1>3, <2>1, <2>2, <2>3 DEF Climbed, s, x, v, q
<1>9. CASE c # NONE /\ Lacks(T, n, P, c, x) /\ n >= cap /\ v = Walk(T, NONE, cap)
  <2>1. ~Has(P, n, q)
    BY <1>2, <1>3, <1>6, <1>9, NewPath DEF Lacks, Has
  <2>2. ~Has(P, n, s)
    BY <1>1, <1>2, <1>3, <2>1, PrefixesExist DEF q
  <2> QED
    BY <1>3, <1>9, <2>2 DEF Climbed, s, x, v
<1>10. CASE c # NONE /\ Lacks(T, n, P, c, x) /\ n < cap /\ v = Walk(link_child(T, c, x), n, cap)
  <2> DEFINE U == link_child(T, c, x)
             Q == grown(P, n, q)
  <2>1. Grows(T, n, U, c, x)
    BY <1>2, <1>3, <1>6, <1>10, LinkGrows
  <2> HIDE DEF U
  <2>2. /\ Tree(U, n + 1, Q) /\ Q[n] = q /\ n \in 0..((n + 1) - 1)
        /\ Rooted(a, i, n + 1, Q) /\ Stamped(a, i - 1, U, n + 1, Q)
        /\ Whole(a, i - 1, cap, n + 1, Q)
    <3>1. Below(P[c], x) = q /\ c \in 0..(n - 1) /\ IsPrefix(Below(P[c], x), Comps(a, i))
      BY <1>2, <1>6, <1>10 DEF s
    <3> QED
      BY <1>2, <1>3, <1>10, <2>1, <3>1, GrownBuilt
  <2>3. v = Walk(U, n, cap)
    BY <1>10 DEF U
  <2> HIDE DEF Q
  <2> QED
    BY <2>2, <2>3 DEF Climbed, s, x, v, q
<1> QED
  BY <1>5, <1>7, <1>8, <1>9, <1>10 DEF v, x, s

\* What a walk may come to.
Walks(cap) ==
    {w \in [nodes : UNION {[0..(n - 1) -> Node] : n \in Nat}, cur : Int, cap : Nat] :
       \E T, n, P, c : w = Walk(T, c, cap) /\ Tree(T, n, P) /\ c \in {NONE} \cup 0..(n - 1)}

\* A node of a tree or none is what a walk may come to ...
LEMMA IsWalk ==
    ASSUME NEW cap \in Nat, NEW T, NEW n, NEW P, NEW c, Tree(T, n, P),
           c \in {NONE} \cup 0..(n - 1)
    PROVE  Walk(T, c, cap) \in Walks(cap)
<1>1. n \in Nat /\ T \in [0..(n - 1) -> Node]
  BY DEF Tree
<1>2. c \in Int
  BY <1>1 DEF NONE
<1> DEFINE all == UNION {[0..(k - 1) -> Node] : k \in Nat}
<1>3. T \in all
  BY <1>1
<1> HIDE DEF all
<1>4. Walk(T, c, cap) \in [nodes : all, cur : Int, cap : Nat]
  BY <1>2, <1>3 DEF Walk
<1> QED
  BY <1>4 DEF Walks, all

\* ... and get_or_create_child() leads to another one.
LEMMA WalksOn ==
    ASSUME NEW cap \in Nat, NEW w \in Walks(cap), NEW name \in Name
    PROVE  get_or_create_child(w, name) \in Walks(cap)
<1>1. PICK T, n, P, c : w = Walk(T, c, cap) /\ Tree(T, n, P) /\ c \in {NONE} \cup 0..(n - 1)
  BY DEF Walks
<1> DEFINE v == get_or_create_child(w, name)
<1>2. \/ c = NONE /\ v = Walk(T, NONE, cap)
      \/ \E k \in 1..(n - 1) :
           c # NONE /\ Child(T, n, P, c, k) /\ T[k].name = name /\ v = Walk(T, k, cap)
      \/ c # NONE /\ Lacks(T, n, P, c, name) /\ n >= cap /\ v = Walk(T, NONE, cap)
      \/ c # NONE /\ Lacks(T, n, P, c, name) /\ n < cap /\ v = Walk(link_child(T, c, name), n, cap)
  BY <1>1, StepIs
<1> HIDE DEF v
<1>3. n \in Nat /\ n >= 1
  <2>1. n \in Nat \ {0}
    BY <1>1 DEF Tree
  <2> QED
    BY <2>1
<1>4. CASE v = Walk(T, NONE, cap)
  BY <1>1, <1>4, IsWalk DEF v
<1>5. CASE \E k \in 1..(n - 1) : v = Walk(T, k, cap)
  <2>1. PICK k \in 1..(n - 1) : v = Walk(T, k, cap)
    BY <1>5
  <2>2. k \in {NONE} \cup 0..(n - 1)
    BY <1>3
  <2> QED
    BY <1>1, <2>1, <2>2, IsWalk DEF v
<1>6. CASE c # NONE /\ Lacks(T, n, P, c, name) /\ v = Walk(link_child(T, c, name), n, cap)
  <2>1. c \in 0..(n - 1)
    BY <1>1, <1>6
  <2>2. Grows(T, n, link_child(T, c, name), c, name)
    BY <1>1, <2>1, LinkGrows
  <2>3. Tree(link_child(T, c, name), n + 1, grown(P, n, Below(P[c], name)))
    BY <1>1, <1>6, <2>1, <2>2, TreeGrows DEF Lacks
  <2>4. n \in {NONE} \cup 0..((n + 1) - 1)
    BY <1>3
  <2> QED
    BY <1>6, <2>3, <2>4, IsWalk DEF v
<1> QED
  BY <1>2, <1>4, <1>5, <1>6 DEF v

\* insert_path() follows the components of an entry from left to right.
LEMMA WalkIs ==
    ASSUME NEW cap \in Nat, NEW T, NEW n, NEW P, Tree(T, n, P), NEW s \in Seq(Name)
    PROVE  \E g : /\ g[0] = Walk(T, 0, cap)
                  /\ \A m \in 1..Len(s) : g[m] = get_or_create_child(g[m - 1], s[m])
                  /\ FoldLeft(get_or_create_child, Walk(T, 0, cap), s) = g[Len(s)]
<1> DEFINE l == Len(s)
           W == Walks(cap)
           start == Walk(T, 0, cap)
           Q(f) == f = [u \in SUBSET (DOMAIN s) |->
                          IF u = {} THEN start
                          ELSE LET x == Max(u) IN get_or_create_child(f[u \ {x}], s[x])]
           iter == CHOOSE f : Q(f)
           step == [k \in 1..l |-> [w \in W |-> get_or_create_child(w, s[k])]]
<1>0. l \in Nat /\ DOMAIN s = 1..l
  OBVIOUS
<1>1. FoldLeft(get_or_create_child, start, s) = iter[1..l]
  <2>1. FoldLeft(get_or_create_child, start, s) = iter[DOMAIN s]
    BY DEF FoldLeft, MapThenFoldSet
  <2> QED
    BY <1>0, <2>1
<1>2. \A k \in 1..l : s[k] \in Name
  OBVIOUS
<1>a. start \in W
  <2>1. 0 \in {NONE} \cup 0..(n - 1)
    <3>1. n \in Nat \ {0}
      BY DEF Tree
    <3> QED
      BY <3>1
  <2> QED
    BY <2>1, IsWalk
<1> HIDE DEF W, start
<1>3. ASSUME NEW w \in W, NEW k \in 1..l
      PROVE  step[k][w] = get_or_create_child(w, s[k]) /\ step[k][w] \in W
  <2>1. step[k][w] = get_or_create_child(w, s[k])
    OBVIOUS
  <2>2. get_or_create_child(w, s[k]) \in W
    BY <1>2, WalksOn DEF W
  <2> HIDE DEF step
  <2> QED
    BY <2>1, <2>2
<1> HIDE DEF l, step
<1>4. PICK f \in [SUBSET (1..l) -> W] : FoldsUp(l, start, step, f)
  <2>1. \A w \in W, k \in 1..l : step[k][w] \in W
    BY <1>3
  <2> QED
    BY <1>0, <1>a, <2>1, FoldsExist
<1>5. Q(f)
  <2>1. ASSUME NEW u \in SUBSET (1..l), u # {}
        PROVE  f[u] = get_or_create_child(f[u \ {Max(u)}], s[Max(u)])
    <3>1. f[u] = step[Max(u)][f[u \ {Max(u)}]]
      BY <1>4, <2>1 DEF FoldsUp
    <3>2. f[u \ {Max(u)}] \in W /\ Max(u) \in 1..l
      BY <1>0, <1>4, <2>1, MaxOf
    <3> QED
      BY <1>3, <3>1, <3>2, Zenon
  <2>2. f[{}] = start
    BY <1>4 DEF FoldsUp
  <2>3. f = [u \in SUBSET (1..l) |-> f[u]]
    BY <1>4
  <2>4. \A u \in SUBSET (1..l) :
          f[u] = IF u = {} THEN start ELSE get_or_create_child(f[u \ {Max(u)}], s[Max(u)])
    BY <2>1, <2>2, Zenon
  <2>5. f = [u \in SUBSET (1..l) |->
               IF u = {} THEN start ELSE get_or_create_child(f[u \ {Max(u)}], s[Max(u)])]
    BY <2>3, <2>4, Zenon
  <2> QED
    BY <1>0, <2>5
<1>6. Q(iter)
  <2> HIDE DEF Q
  <2> QED
    BY <1>5
<1>7. iter = [u \in SUBSET (1..l) |->
                IF u = {} THEN start ELSE get_or_create_child(iter[u \ {Max(u)}], s[Max(u)])]
  <2> HIDE DEF iter
  <2> QED
    BY <1>0, <1>6
<1> HIDE DEF iter, Q
<1> DEFINE g == [m \in 0..l |-> iter[1..m]]
<1>8. g[0] = start
  <2>1. 1..0 = {} /\ 0 \in 0..l
    BY <1>0
  <2> QED
    BY <1>7, <2>1
<1>9. ASSUME NEW m \in 1..l PROVE g[m] = get_or_create_child(g[m - 1], s[m])
  <2>0. m \in 0..l /\ m - 1 \in 0..l
    BY <1>0
  <2>a. m \in Nat /\ m \in 1..m /\ 1..m \in SUBSET (1..l)
    BY <1>0
  <2>1. 1..m \in SUBSET (1..l) /\ 1..m # {} /\ m \in 1..m /\ 1..m \in SUBSET (1..m) /\ m \in Nat
    BY <2>a
  <2>2. Max(1..m) = m
    BY <2>1, MaxOf
  <2>3. (1..m) \ {m} = 1..(m - 1)
    OBVIOUS
  <2>4. iter[1..m] = get_or_create_child(iter[1..(m - 1)], s[m])
    <3>1. iter[1..m] = get_or_create_child(iter[(1..m) \ {Max(1..m)}], s[Max(1..m)])
      BY <1>7, <2>1, Zenon
    <3> QED
      BY <2>2, <2>3, <3>1
  <2>5. g[m] = iter[1..m] /\ g[m - 1] = iter[1..(m - 1)]
    BY <2>0
  <2> HIDE DEF g
  <2> QED
    BY <2>4, <2>5
<1>10. FoldLeft(get_or_create_child, start, s) = g[l]
  BY <1>0, <1>1
<1> HIDE DEF g
<1> QED
  BY <1>8, <1>9, <1>10 DEF start, l

\* insert_path() comes to the end of the i-th entry's path.
LEMMA WalkClimbs ==
    ASSUME NEW a \in Seq(Entry), NEW i \in 1..Len(a), NEW cap \in Nat,
           NEW T, NEW n, NEW P, Built(a, i - 1, cap, T, n, P)
    PROVE  Climbed(a, i, cap, Len(Comps(a, i)),
                   FoldLeft(get_or_create_child, Walk(T, 0, cap), Comps(a, i)))
<1> DEFINE s == Comps(a, i)
           l == Len(s)
<1>0. Tree(T, n, P) /\ Rooted(a, i - 1, n, P) /\ Stamped(a, i - 1, T, n, P)
      /\ Whole(a, i - 1, cap, n, P)
  BY DEF Built
<1>1. s \in Seq(Name)
  BY CompsAre
<1>2. l \in Nat
  <2> HIDE DEF s
  <2> QED
    BY <1>1
<1>3. PICK g : /\ g[0] = Walk(T, 0, cap)
               /\ \A m \in 1..Len(s) : g[m] = get_or_create_child(g[m - 1], s[m])
               /\ FoldLeft(get_or_create_child, Walk(T, 0, cap), s) = g[Len(s)]
  <2> HIDE DEF s
  <2> QED
    BY <1>0, <1>1, WalkIs
<1>4. Climbed(a, i, cap, 0, g[0])
  <2>1. Rooted(a, i, n, P)
    <3>1. 1..(i - 1) \subseteq 1..i
      OBVIOUS
    <3> QED
      BY <1>0, <3>1 DEF Rooted
  <2>2. 0 \in 0..(n - 1)
    <3>1. n \in Nat \ {0}
      BY <1>0 DEF Tree
    <3> QED
      BY <3>1
  <2>3. P[0] = SubSeq(Comps(a, i), 1, 0)
    <3>1. P[0] = << >>
      BY <1>0 DEF Tree
    <3>2. 0 \in 0..l
      BY <1>2
    <3> HIDE DEF s
    <3>3. SubSeq(s, 1, 0) \in Seq(Name) /\ Len(SubSeq(s, 1, 0)) = 0
      BY <1>1, <3>2, Prefix
    <3>4. SubSeq(s, 1, 0) = << >>
      BY <3>3
    <3> QED
      BY <3>1, <3>4 DEF s
  <2> QED
    BY <1>0, <1>3, <2>1, <2>2, <2>3 DEF Climbed
<1> DEFINE Bad == {m \in 0..l : ~Climbed(a, i, cap, m, g[m])}
<1>5. Bad = {}
  <2> SUFFICES ASSUME Bad # {} PROVE FALSE
    OBVIOUS
  <2>1. PICK m \in Bad : \A j \in Bad : m <= j
    <3>1. Bad \subseteq Nat
      BY <1>2
    <3> HIDE DEF Bad
    <3> QED
      BY <3>1, LeastNatural
  <2>2. m \in 0..l /\ ~Climbed(a, i, cap, m, g[m])
    BY <2>1
  <2>3. m # 0
    BY <1>4, <2>2
  <2>4. m \in 1..l /\ m - 1 \in 0..l /\ m - 1 < m /\ m \in Int
    BY <1>2, <2>2, <2>3
  <2>5. m - 1 \notin Bad
    <3> HIDE DEF Bad
    <3> QED
      BY <2>1, <2>4
  <2>6. Climbed(a, i, cap, m - 1, g[m - 1])
    BY <2>4, <2>5
  <2>7. Climbed(a, i, cap, m, get_or_create_child(g[m - 1], Comps(a, i)[m]))
    BY <2>4, <2>6, ClimbStep
  <2>8. g[m] = get_or_create_child(g[m - 1], s[m])
    BY <1>3, <2>4
  <2> QED
    BY <2>2, <2>7, <2>8
<1>6. Climbed(a, i, cap, l, g[l])
  <2>1. l \in 0..l
    BY <1>2
  <2> QED
    BY <1>5, <2>1
<1> QED
  BY <1>3, <1>6

\* The i-th entry counts for its own path only.
LEMMA OtherEntries ==
    ASSUME NEW a, NEW i \in Nat \ {0}, NEW q, q # Comps(a, i)
    PROVE  EntriesUpTo(a, i, q) = EntriesUpTo(a, i - 1, q)
<1>1. \A j \in 1..i : j # i => j \in 1..(i - 1)
  OBVIOUS
<1>2. \A j \in 1..(i - 1) : j \in 1..i
  OBVIOUS
<1> QED
  BY <1>1, <1>2 DEF EntriesUpTo

\* The i-th entry is the last of its path.
LEMMA OwnEntry ==
    ASSUME NEW a, NEW i \in Nat \ {0}
    PROVE  /\ EntriesUpTo(a, i, Comps(a, i)) # {}
           /\ Max(EntriesUpTo(a, i, Comps(a, i))) = i
<1> DEFINE E == EntriesUpTo(a, i, Comps(a, i))
<1>1. E \in SUBSET (1..i) /\ i \in E
  BY DEF EntriesUpTo
<1> HIDE DEF E
<1>2. Max(E) = i
  BY <1>1, MaxOf
<1> QED
  BY <1>1, <1>2 DEF E

\* An entry leaves the tree that the archive up to it describes.
LEMMA InsertBuilt ==
    ASSUME NEW a \in Seq(Entry), NEW i \in 1..Len(a), NEW cap \in Nat,
           NEW T, NEW n, NEW P, Built(a, i - 1, cap, T, n, P)
    PROVE  \E m, Q : Built(a, i, cap, insert_path(T, cap, a[i], i), m, Q)
<1> DEFINE s == Comps(a, i)
           e == a[i]
           w == FoldLeft(get_or_create_child, Walk(T, 0, cap), s)
           R == insert_path(T, cap, e, i)
<1>1. s \in Seq(Name) /\ i \in Nat \ {0}
  BY CompsAre
<1>2. R = IF s = << >> \/ w.cur = NONE THEN w.nodes
          ELSE [w.nodes EXCEPT ![w.cur].is_dir = e.is_dir,
                               ![w.cur].data = IF e.is_dir THEN 0 ELSE i,
                               ![w.cur].size = IF e.is_dir THEN 0 ELSE e.size]
  BY DEF insert_path, Comps, Walk
<1>3. Climbed(a, i, cap, Len(s), w)
  BY WalkClimbs
<1> HIDE DEF w, R, s
<1>4. PICK U, m, Q, c :
        /\ w = Walk(U, c, cap) /\ Tree(U, m, Q)
        /\ Rooted(a, i, m, Q) /\ Stamped(a, i - 1, U, m, Q) /\ Whole(a, i - 1, cap, m, Q)
        /\ \/ c \in 0..(m - 1) /\ Q[c] = SubSeq(s, 1, Len(s))
           \/ c = NONE /\ m >= cap /\ ~Has(Q, m, s)
  BY <1>3 DEF Climbed, s
<1>5. w.cur = c /\ w.nodes = U
  BY <1>4 DEF Walk
<1>6. /\ m \in Nat /\ m >= 1 /\ Q[0] = << >> /\ 0 \in 0..(m - 1)
      /\ \A j, k \in 0..(m - 1) : Q[j] = Q[k] => j = k
  <2>1. m \in Nat \ {0}
    BY <1>4 DEF Tree
  <2>2. Q[0] = << >> /\ \A j, k \in 0..(m - 1) : Q[j] = Q[k] => j = k
    BY <1>4 DEF Tree
  <2> QED
    BY <2>1, <2>2
<1>7. SubSeq(s, 1, Len(s)) = s
  <2>1. Len(s) \in 0..Len(s) /\ Len(s) \in Nat
    BY <1>1
  <2>2. /\ SubSeq(s, 1, Len(s)) \in Seq(Name) /\ Len(SubSeq(s, 1, Len(s))) = Len(s)
        /\ \A j \in 1..Len(s) : SubSeq(s, 1, Len(s))[j] = s[j]
    BY <1>1, <2>1, Prefix
  <2> QED
    BY <1>1, <2>2, SeqEqual
<1>8. \A j \in 1..i : j \in 1..(i - 1) \/ j = i
  BY <1>1
<1>9. ASSUME Has(Q, m, s) \/ m >= cap PROVE Whole(a, i, cap, m, Q)
  <2>1. ASSUME m < cap, NEW j \in 1..i PROVE Has(Q, m, Comps(a, j))
    <3>1. Has(Q, m, s)
      BY <1>6, <1>9, <2>1
    <3>2. \A k \in 1..(i - 1) : Has(Q, m, Comps(a, k))
      BY <1>4, <2>1 DEF Whole
    <3> QED
      BY <1>8, <3>1, <3>2 DEF s
  <2> QED
    BY <2>1 DEF Whole
<1>10. ASSUME NEW V, NEW k \in 1..(m - 1), V[k] = U[k], Q[k] # s
       PROVE  LET E == EntriesUpTo(a, i, Q[k])
                  f == a[Max(E)]
              IN  /\ E = {} => V[k].is_dir
                  /\ E # {} => /\ V[k].is_dir = f.is_dir
                               /\ ~f.is_dir => V[k].data = Max(E) /\ V[k].size = f.size
  <2>1. EntriesUpTo(a, i, Q[k]) = EntriesUpTo(a, i - 1, Q[k])
    BY <1>1, <1>10, OtherEntries DEF s
  <2> DEFINE E == EntriesUpTo(a, i - 1, Q[k])
             f == a[Max(E)]
  <2>2. /\ E = {} => U[k].is_dir
        /\ E # {} => /\ U[k].is_dir = f.is_dir
                     /\ ~f.is_dir => U[k].data = Max(E) /\ U[k].size = f.size
    BY <1>4 DEF Stamped
  <2> QED
    BY <1>10, <2>1, <2>2
<1>11. CASE s = << >> \/ c = NONE
  <2>1. R = U
    BY <1>2, <1>5, <1>11
  <2>2. \A k \in 1..(m - 1) : Q[k] # s
    <3>1. CASE s = << >>
      BY <1>6, <3>1
    <3>2. CASE c = NONE
      <4>1. ~Has(Q, m, s)
        BY <1>4, <1>6, <3>2 DEF NONE
      <4> QED
        BY <1>6, <4>1 DEF Has
    <3> QED
      BY <1>11, <3>1, <3>2
  <2>3. Stamped(a, i, U, m, Q)
    BY <1>10, <2>2 DEF Stamped
  <2>4. Has(Q, m, s) \/ m >= cap
    <3>1. CASE s = << >>
      BY <1>6, <3>1 DEF Has
    <3>2. CASE c = NONE
      BY <1>4, <1>6, <3>2 DEF NONE
    <3> QED
      BY <1>11, <3>1, <3>2
  <2>5. Whole(a, i, cap, m, Q)
    BY <1>9, <2>4
  <2> QED
    BY <1>4, <2>1, <2>3, <2>5 DEF Built, R
<1>12. CASE s # << >> /\ c # NONE
  <2>1. c \in 0..(m - 1) /\ Q[c] = s
    BY <1>4, <1>7, <1>12
  <2>2. c \in 1..(m - 1)
    BY <1>6, <1>12, <2>1
  <2> DEFINE d == e.is_dir
             at == IF e.is_dir THEN 0 ELSE i
             sz == IF e.is_dir THEN 0 ELSE e.size
             V == stamp(U, c, d, at, sz)
  <2>3. R = V
    BY <1>2, <1>5, <1>12 DEF stamp
  <2>4. d \in BOOLEAN /\ at \in Nat /\ sz \in Nat
    <3>1. e \in Entry
      BY ElementOfSeq
    <3> HIDE DEF e
    <3> QED
      BY <1>1, <3>1 DEF Entry
  <2>5. /\ ~d => at = i /\ sz = e.size
    OBVIOUS
  <2> HIDE DEF d, at, sz, e, V
  <2>6. /\ Tree(V, m, Q)
        /\ V[c].is_dir = d /\ V[c].data = at /\ V[c].size = sz
        /\ \A k \in 0..(m - 1) : k # c => V[k] = U[k]
    <3>1. V = stamp(U, c, d, at, sz)
      BY DEF V
    <3>2. Tree(U, m, Q)
      BY <1>4
    <3>3. Restamped(U, m, Q, c, d, at, sz, V)
      BY <2>2, <2>4, <3>1, <3>2, TreeStamped, Zenon
    <3> QED
      BY <3>3 DEF Restamped
  <2>7. Stamped(a, i, V, m, Q)
    <3>1. ASSUME NEW k \in 1..(m - 1)
          PROVE  LET E == EntriesUpTo(a, i, Q[k])
                     f == a[Max(E)]
                 IN  /\ E = {} => V[k].is_dir
                     /\ E # {} => /\ V[k].is_dir = f.is_dir
                                  /\ ~f.is_dir => V[k].data = Max(E) /\ V[k].size = f.size
      <4>0. k \in 0..(m - 1)
        BY <1>6
      <4>1. CASE k = c
        <5>1. EntriesUpTo(a, i, Q[k]) # {} /\ Max(EntriesUpTo(a, i, Q[k])) = i
          BY <1>1, <2>1, <4>1, OwnEntry DEF s
        <5>2. a[i] = e /\ d = e.is_dir
          BY DEF e, d
        <5> QED
          BY <2>5, <2>6, <4>1, <5>1, <5>2
      <4>2. CASE k # c
        <5>1. V[k] = U[k] /\ Q[k] # s
          BY <1>6, <2>1, <2>6, <4>0, <4>2
        <5> QED
          BY <1>10, <5>1
      <4> QED
        BY <4>1, <4>2
    <3> QED
      BY <3>1 DEF Stamped
  <2>8. Whole(a, i, cap, m, Q)
    <3>1. Has(Q, m, s)
      BY <2>1 DEF Has
    <3> QED
      BY <1>9, <3>1
  <2>9. Built(a, i, cap, V, m, Q)
    BY <1>4, <2>6, <2>7, <2>8 DEF Built
  <2> QED
    BY <2>3, <2>9 DEF R, e
<1> QED
  BY <1>11, <1>12

\* T is the tree of the first i entries.
IsBuilt(a, i, cap, T) == \E n, P : Built(a, i, cap, T, n, P)

\* Before the first entry there is the root.
LEMMA RootBuilt ==
    ASSUME NEW a, NEW cap
    PROVE  IsBuilt(a, 0, cap, Root)
<1> DEFINE P == [k \in {0} |-> << >>]
           n == 1
<1>1. n \in Nat \ {0} /\ 0..(n - 1) = {0} /\ 1..(n - 1) = {} /\ 1..0 = {}
  OBVIOUS
<1>2. /\ Root[0].is_dir /\ Root[0].next_sibling = NONE /\ Root[0].first_child = NONE
      /\ Root \in [{0} -> Node]
  BY DEF Root, NewNode, Node, NONE
<1>3. P \in [{0} -> Seq(Name)] /\ P[0] = << >>
  OBVIOUS
<1> HIDE DEF P, n
<1>4. Tree(Root, n, P)
  <2>1. Root \in [0..(n - 1) -> Node] /\ P \in [0..(n - 1) -> Seq(Name)]
    BY <1>1, <1>2, <1>3
  <2>2. \A j, k \in 0..(n - 1) : P[j] = P[k] => j = k
    BY <1>1
  <2>3. \A k \in 0..(n - 1) : /\ Root[k].next_sibling \in {NONE} \cup 1..(k - 1)
                              /\ Root[k].first_child \in {NONE} \cup 1..(n - 1)
    BY <1>1, <1>2
  <2>4. \A p \in 0..(n - 1) : Root[p].first_child = NONE
    BY <1>1, <1>2
  <2> QED
    BY <1>1, <1>2, <1>3, <2>1, <2>2, <2>3, <2>4 DEF Tree
<1>5. Rooted(a, 0, n, P)
  BY <1>1, <1>3 DEF Rooted
<1>6. Stamped(a, 0, Root, n, P) /\ Whole(a, 0, cap, n, P)
  BY <1>1 DEF Stamped, Whole
<1> QED
  BY <1>4, <1>5, <1>6 DEF Built, IsBuilt

\* By induction over the entries.
LEMMA StagesBuilt ==
    ASSUME NEW a \in Seq(Entry), NEW cap \in Nat, NEW f, f[0] = Root,
           \A i \in 1..Len(a) : IsBuilt(a, i - 1, cap, f[i - 1]) =>
               f[i] = insert_path(f[i - 1], cap, a[i], i)
    PROVE  \A i \in 0..Len(a) : IsBuilt(a, i, cap, f[i])
<1> DEFINE Bad == {i \in 0..Len(a) : ~IsBuilt(a, i, cap, f[i])}
<1>0. Len(a) \in Nat
  OBVIOUS
<1> SUFFICES ASSUME Bad # {} PROVE FALSE
  OBVIOUS
<1>1. PICK i \in Bad : \A j \in Bad : i <= j
  <2>1. Bad \subseteq Nat
    BY <1>0
  <2> HIDE DEF Bad
  <2> QED
    BY <2>1, LeastNatural
<1>2. i \in 0..Len(a) /\ ~IsBuilt(a, i, cap, f[i])
  BY <1>1
<1>3. i # 0
  BY <1>2, RootBuilt
<1>4. i \in 1..Len(a) /\ i - 1 \in 0..Len(a) /\ i - 1 < i /\ i \in Int
  BY <1>0, <1>2, <1>3
<1>5. i - 1 \notin Bad
  <2> HIDE DEF Bad
  <2> QED
    BY <1>1, <1>4
<1>6. IsBuilt(a, i - 1, cap, f[i - 1])
  BY <1>4, <1>5
<1>7. IsBuilt(a, i, cap, insert_path(f[i - 1], cap, a[i], i))
  BY <1>4, <1>6, InsertBuilt DEF IsBuilt
<1> QED
  BY <1>2, <1>4, <1>6, <1>7

\* The node table has a size.
LEMMA CapacityIs ==
    ASSUME NEW a \in Seq(Entry)
    PROVE  capacity(a) \in Nat
<1>1. Len(a) \in Nat /\ NodesPerEntry \in Nat /\ SpareNodes \in Nat
  BY TarfsAssumption
<1> QED
  BY <1>1 DEF capacity

\* mount() leaves the tree the archive describes.
LEMMA MountBuilt ==
    ASSUME NEW a \in Seq(Entry)
    PROVE  IsBuilt(a, Len(a), capacity(a), mount(a))
<1> DEFINE l == Len(a)
           cap == capacity(a)
           Q(f) == f = [i \in 0..l |-> IF i = 0 THEN Root ELSE insert_path(f[i - 1], cap, a[i], i)]
           after == CHOOSE f : Q(f)
           V == {T \in UNION {[0..(n - 1) -> Node] : n \in Nat} : \E n, P : Tree(T, n, P)}
           step == [i \in 1..l |-> [T \in V |-> IF IsBuilt(a, i - 1, cap, T)
                                                THEN insert_path(T, cap, a[i], i) ELSE Root]]
<1>0. l \in Nat /\ cap \in Nat /\ l \in 0..l
  BY CapacityIs
<1>1. mount(a) = after[l]
  BY DEF mount
<1>2. ASSUME NEW i, NEW T, IsBuilt(a, i, cap, T) PROVE T \in V
  <2>1. PICK n, P : Tree(T, n, P)
    BY <1>2 DEF IsBuilt, Built
  <2>2. n \in Nat /\ T \in [0..(n - 1) -> Node]
    BY <2>1 DEF Tree
  <2> QED
    BY <2>1, <2>2
<1>3. Root \in V
  BY <1>2, RootBuilt
<1> HIDE DEF V, cap
<1>4. ASSUME NEW T \in V, NEW i \in 1..l
      PROVE  /\ step[i][T] = IF IsBuilt(a, i - 1, cap, T) THEN insert_path(T, cap, a[i], i)
                             ELSE Root
             /\ step[i][T] \in V
  <2>1. step[i][T] = IF IsBuilt(a, i - 1, cap, T) THEN insert_path(T, cap, a[i], i) ELSE Root
    OBVIOUS
  <2>2. ASSUME IsBuilt(a, i - 1, cap, T) PROVE insert_path(T, cap, a[i], i) \in V
    <3>1. IsBuilt(a, i, cap, insert_path(T, cap, a[i], i))
      BY <1>0, <2>2, InsertBuilt DEF IsBuilt
    <3> QED
      BY <1>2, <3>1
  <2> HIDE DEF step
  <2> QED
    BY <1>3, <2>1, <2>2
<1> HIDE DEF step
<1>5. PICK f \in [0..l -> V] : Recurs(l, Root, step, f)
  <2>1. \A T \in V, i \in 1..l : step[i][T] \in V
    BY <1>4
  <2> HIDE DEF l
  <2> QED
    BY <1>0, <1>3, <2>1, RecursionExists
<1>6. /\ f = [i \in 0..l |-> f[i]] /\ f[0] = Root
      /\ \A i \in 1..l : f[i] = step[i][f[i - 1]] /\ f[i - 1] \in V
  <2>1. \A i \in 1..l : i \in 0..l /\ i - 1 \in 0..l /\ i # 0
    BY <1>0
  <2>2. 0 \in 0..l
    BY <1>0
  <2> HIDE DEF l
  <2> QED
    BY <1>5, <2>1, <2>2 DEF Recurs
<1>7. \A i \in 1..l : IsBuilt(a, i - 1, cap, f[i - 1]) =>
          f[i] = insert_path(f[i - 1], cap, a[i], i)
  BY <1>4, <1>6
<1>8. \A i \in 0..l : IsBuilt(a, i, cap, f[i])
  BY <1>0, <1>6, <1>7, StagesBuilt
<1>9. Q(f)
  <2>1. \A i \in 0..l : i # 0 => i \in 1..l /\ i - 1 \in 0..l
    BY <1>0
  <2>2. \A i \in 0..l : f[i] = IF i = 0 THEN Root ELSE insert_path(f[i - 1], cap, a[i], i)
    BY <1>6, <1>7, <1>8, <2>1
  <2> QED
    BY <1>6, <2>2
<1>10. Q(after)
  <2> HIDE DEF Q
  <2> QED
    BY <1>9
<1>11. /\ after[0] = Root
       /\ \A i \in 1..l : after[i] = insert_path(after[i - 1], cap, a[i], i)
  <2>1. \A i \in 1..l : i \in 0..l /\ i # 0
    BY <1>0
  <2>2. 0 \in 0..l
    BY <1>0
  <2> HIDE DEF after, l
  <2> QED
    BY <1>10, <2>1, <2>2
<1> HIDE DEF after, Q
<1>12. \A i \in 0..l : IsBuilt(a, i, cap, after[i])
  BY <1>0, <1>11, StagesBuilt
<1> QED
  BY <1>0, <1>1, <1>12 DEF cap

----------------------------------------------------------------------------
(* open() *)

\* What readdir() lists of a node.
LEMMA TarListIs ==
    ASSUME NEW T, NEW n, NEW P, Tree(T, n, P), NEW k \in 0..(n - 1)
    PROVE  /\ tar_list(T, k) \in Seq(Dirent)
           /\ ~T[k].is_dir => tar_list(T, k) = << >>
           /\ T[k].is_dir =>
                /\ Len(tar_list(T, k)) = Len(children(T, k))
                /\ \A i \in 1..Len(children(T, k)) :
                     tar_list(T, k)[i] = [ino |-> children(T, k)[i],
                                          name |-> T[children(T, k)[i]].name]
<1> DEFINE kids == children(T, k)
           list == [i \in DOMAIN kids |-> [ino |-> kids[i], name |-> T[kids[i]].name]]
<1>1. /\ kids \in Seq(1..(n - 1))
      /\ \A j \in 1..(n - 1) : T[j].name \in Name
      /\ n \in Nat
  <2>1. kids \in Seq(1..(n - 1))
    BY ChildrenAre
  <2>2. n \in Nat /\ \A j \in 1..(n - 1) : T[j].name \in Name
    BY DEF Tree
  <2> QED
    BY <2>1, <2>2
<1>2. tar_list(T, k) = IF T[k].is_dir THEN list ELSE << >>
  BY DEF tar_list
<1> HIDE DEF kids
<1>3. DOMAIN kids = 1..Len(kids) /\ Len(kids) \in Nat
  BY <1>1
<1>4. \A i \in 1..Len(kids) : kids[i] \in 1..(n - 1)
  BY <1>1
<1>5. \A i \in 1..Len(kids) : [ino |-> kids[i], name |-> T[kids[i]].name] \in Dirent
  <2> TAKE i \in 1..Len(kids)
  <2> DEFINE j == kids[i]
  <2>1. j \in 1..(n - 1) /\ T[j].name \in Name
    BY <1>1, <1>4
  <2> HIDE DEF j
  <2>2. [ino |-> j, name |-> T[j].name] \in Dirent
    BY <1>1, <2>1 DEF Dirent
  <2> QED
    BY <2>2 DEF j
<1>6. /\ list \in Seq(Dirent) /\ Len(list) = Len(kids)
      /\ \A i \in 1..Len(kids) : list[i] = [ino |-> kids[i], name |-> T[kids[i]].name]
  <2>1. list = [i \in 1..Len(kids) |-> list[i]]
    BY <1>3
  <2>2. \A i \in 1..Len(kids) : list[i] = [ino |-> kids[i], name |-> T[kids[i]].name]
    BY <1>3
  <2>3. \A i \in 1..Len(kids) : list[i] \in Dirent
    BY <1>5, <2>2
  <2> HIDE DEF list
  <2>4. list \in Seq(Dirent)
    BY <1>3, <2>1, <2>3, IsASeq
  <2>5. DOMAIN list = 1..Len(kids)
    BY <2>1
  <2>6. Len(list) = Len(kids)
    BY <1>3, <2>4, <2>5, LenProperties
  <2> QED
    BY <2>2, <2>4, <2>6
<1> HIDE DEF list
<1>7. << >> \in Seq(Dirent)
  OBVIOUS
<1> QED
  BY <1>2, <1>6, <1>7 DEF kids

\* make_vfs_inode() copies a node.
LEMMA InodeIs ==
    ASSUME NEW n, NEW P, Tree(nodes, n, P), NEW k \in 0..(n - 1)
    PROVE  /\ make_vfs_inode(k) \in Inode /\ make_vfs_inode(k) # NULL
           /\ make_vfs_inode(k).fs = "tar" /\ make_vfs_inode(k).ino = k
           /\ make_vfs_inode(k).is_dir = nodes[k].is_dir
           /\ make_vfs_inode(k).size = nodes[k].size
           /\ make_vfs_inode(k).at = nodes[k].data
<1>1. n \in Nat /\ nodes[k] \in Node
  BY DEF Tree
<1>2. k \in Nat
  BY <1>1
<1>3. make_vfs_inode(k) \in Inode
  BY <1>1, <1>2 DEF make_vfs_inode, Inode, Node
<1>4. make_vfs_inode(k) # NULL
  BY <1>3, FilesAssumption
<1> QED
  BY <1>3, <1>4 DEF make_vfs_inode

\* A component of a path leads from a directory to its entry of that name.
LEMMA LookupStepIs ==
    ASSUME NEW n, NEW P, Tree(nodes, n, P), NEW k \in 0..(n - 1), NEW c
    PROVE  LET v == lookup_step(make_vfs_inode(k), c) IN
           \/ v = NULL /\ (~nodes[k].is_dir \/ Lacks(nodes, n, P, k, c))
           \/ \E j \in 1..(n - 1) : /\ nodes[k].is_dir /\ Child(nodes, n, P, k, j)
                                    /\ nodes[j].name = c /\ v = make_vfs_inode(j)
<1> DEFINE kids == children(nodes, k)
           list == tar_list(nodes, k)
           I == {i \in 1..Len(list) : list[i].name = c}
           v == lookup_step(make_vfs_inode(k), c)
<1>1. list \in Seq(Dirent)
  BY TarListIs
<1>2. v = LET at == IF I # {} THEN Min(I) ELSE 0
          IN  IF at = 0 THEN NULL ELSE make_vfs_inode(list[at].ino)
  <2>1. make_vfs_inode(k) # NULL /\ make_vfs_inode(k).fs = "tar" /\ make_vfs_inode(k).ino = k
    BY InodeIs
  <2>2. listing(make_vfs_inode(k)) = list
    BY <2>1 DEF listing
  <2>3. read_chunks(list) = list
    BY <1>1, ChunksAreWhole
  <2>4. \A i : get_inode(make_vfs_inode(k).fs, i) = make_vfs_inode(i)
    BY <2>1 DEF get_inode
  <2>5. v = LET at == SelectInSeq(read_chunks(listing(make_vfs_inode(k))), LAMBDA d : d.name = c)
            IN  IF at = 0 THEN NULL
                ELSE get_inode(make_vfs_inode(k).fs, read_chunks(listing(make_vfs_inode(k)))[at].ino)
    BY <2>1 DEF lookup_step
  <2> HIDE DEF v, list
  <2>6. v = LET at == SelectInSeq(list, LAMBDA d : d.name = c)
            IN  IF at = 0 THEN NULL ELSE make_vfs_inode(list[at].ino)
    BY <2>2, <2>3, <2>4, <2>5
  <2> QED
    BY <2>6 DEF SelectInSeq
<1>3. /\ kids \in Seq(1..(n - 1))
      /\ \A i \in 1..Len(kids) : Child(nodes, n, P, k, kids[i])
      /\ \A j \in 1..(n - 1) : Child(nodes, n, P, k, j) => \E i \in 1..Len(kids) : kids[i] = j
  BY ChildrenAre
<1>4. /\ ~nodes[k].is_dir => list = << >>
      /\ nodes[k].is_dir =>
           /\ Len(list) = Len(kids)
           /\ \A i \in 1..Len(kids) : list[i] = [ino |-> kids[i], name |-> nodes[kids[i]].name]
  BY TarListIs
<1> HIDE DEF kids, list, v
<1>5. CASE I = {}
  <2>1. v = NULL
    BY <1>2, <1>5
  <2>2. ASSUME nodes[k].is_dir, NEW j \in 1..(n - 1), Child(nodes, n, P, k, j), nodes[j].name = c
        PROVE  FALSE
    <3>1. PICK i \in 1..Len(kids) : kids[i] = j
      BY <1>3, <2>2
    <3>2. i \in 1..Len(list) /\ list[i] = [ino |-> j, name |-> c]
      BY <1>4, <2>2, <3>1
    <3>3. list[i].name = c
      BY <3>2
    <3> QED
      BY <1>5, <3>2, <3>3
  <2> QED
    BY <2>1, <2>2 DEF Lacks, v
<1>6. CASE I # {}
  <2>1. Min(I) \in I /\ I \subseteq Nat
    <3>1. I \subseteq Nat
      OBVIOUS
    <3> HIDE DEF I
    <3> QED
      BY <1>6, <3>1, MinIsLeast
  <2> DEFINE i == Min(I)
  <2>2. i \in 1..Len(list) /\ list[i].name = c /\ i # 0
    BY <2>1
  <2>3. v = make_vfs_inode(list[i].ino)
    <3> HIDE DEF I
    <3> QED
      BY <1>2, <1>6, <2>2
  <2> HIDE DEF i, I
  <2>4. nodes[k].is_dir
    BY <1>4, <2>2
  <2>5. i \in 1..Len(kids) /\ list[i] = [ino |-> kids[i], name |-> nodes[kids[i]].name]
    BY <1>4, <2>2, <2>4
  <2> DEFINE j == kids[i]
  <2>6. j \in 1..(n - 1)
    BY <1>3, <2>5, ElementOfSeq
  <2>7. Child(nodes, n, P, k, j)
    BY <1>3, <2>5
  <2>8. list[i] = [ino |-> j, name |-> nodes[j].name]
    BY <2>5
  <2> HIDE DEF j
  <2>9. list[i].ino = j /\ nodes[j].name = c
    BY <2>2, <2>8
  <2> QED
    BY <2>3, <2>4, <2>6, <2>7, <2>9 DEF v
<1> QED
  BY <1>5, <1>6

\* lookup_path() follows the components of a path from left to right.
Followed(V, start, s) ==
    \E g \in [0..Len(s) -> V] :
        /\ g[0] = start
        /\ \A m \in 1..Len(s) : g[m] = lookup_step(g[m - 1], s[m])
        /\ FoldLeft(lookup_step, start, s) = g[Len(s)]

\* The walk exists and stays among the inodes it starts with.
LEMMA LookupFold ==
    ASSUME NEW V, NEW S, \A v \in V, c \in S : lookup_step(v, c) \in V,
           NEW start \in V, NEW s \in Seq(S)
    PROVE  Followed(V, start, s)
<1> DEFINE l == Len(s)
           Q(f) == f = [u \in SUBSET (DOMAIN s) |->
                          IF u = {} THEN start
                          ELSE LET x == Max(u) IN lookup_step(f[u \ {x}], s[x])]
           iter == CHOOSE f : Q(f)
           step == [k \in 1..l |-> [w \in V |-> lookup_step(w, s[k])]]
<1>0. l \in Nat /\ DOMAIN s = 1..l
  OBVIOUS
<1>1. FoldLeft(lookup_step, start, s) = iter[1..l]
  <2>1. FoldLeft(lookup_step, start, s) = iter[DOMAIN s]
    BY DEF FoldLeft, MapThenFoldSet
  <2> QED
    BY <1>0, <2>1
<1>2. \A k \in 1..l : s[k] \in S
  OBVIOUS
<1>3. ASSUME NEW w \in V, NEW k \in 1..l
      PROVE  step[k][w] = lookup_step(w, s[k]) /\ step[k][w] \in V
  <2>1. step[k][w] = lookup_step(w, s[k])
    OBVIOUS
  <2>2. lookup_step(w, s[k]) \in V
    BY <1>2
  <2> HIDE DEF step
  <2> QED
    BY <2>1, <2>2
<1> HIDE DEF l, step
<1>4. PICK f \in [SUBSET (1..l) -> V] : FoldsUp(l, start, step, f)
  <2>1. \A w \in V, k \in 1..l : step[k][w] \in V
    BY <1>3
  <2> QED
    BY <1>0, <2>1, FoldsExist
<1>5. Q(f)
  <2>1. ASSUME NEW u \in SUBSET (1..l), u # {}
        PROVE  f[u] = lookup_step(f[u \ {Max(u)}], s[Max(u)])
    <3>1. f[u] = step[Max(u)][f[u \ {Max(u)}]]
      BY <1>4, <2>1 DEF FoldsUp
    <3>2. f[u \ {Max(u)}] \in V /\ Max(u) \in 1..l
      BY <1>0, <1>4, <2>1, MaxOf
    <3> QED
      BY <1>3, <3>1, <3>2, Zenon
  <2>2. f[{}] = start
    BY <1>4 DEF FoldsUp
  <2>3. f = [u \in SUBSET (1..l) |-> f[u]]
    BY <1>4
  <2>4. \A u \in SUBSET (1..l) :
          f[u] = IF u = {} THEN start ELSE lookup_step(f[u \ {Max(u)}], s[Max(u)])
    BY <2>1, <2>2, Zenon
  <2>5. f = [u \in SUBSET (1..l) |->
               IF u = {} THEN start ELSE lookup_step(f[u \ {Max(u)}], s[Max(u)])]
    BY <2>3, <2>4, Zenon
  <2> QED
    BY <1>0, <2>5
<1>6. Q(iter)
  <2> HIDE DEF Q
  <2> QED
    BY <1>5
<1>7. iter = [u \in SUBSET (1..l) |->
                IF u = {} THEN start ELSE lookup_step(iter[u \ {Max(u)}], s[Max(u)])]
  <2> HIDE DEF iter
  <2> QED
    BY <1>0, <1>6
<1> HIDE DEF iter, Q
<1> DEFINE g == [m \in 0..l |-> iter[1..m]]
<1>8. g[0] = start
  <2>1. 1..0 = {} /\ 0 \in 0..l
    BY <1>0
  <2> QED
    BY <1>7, <2>1
<1>9. ASSUME NEW m \in 1..l PROVE g[m] = lookup_step(g[m - 1], s[m])
  <2>0. m \in 0..l /\ m - 1 \in 0..l
    BY <1>0
  <2>a. m \in Nat /\ m \in 1..m /\ 1..m \in SUBSET (1..l)
    BY <1>0
  <2>1. 1..m \in SUBSET (1..l) /\ 1..m # {} /\ m \in 1..m /\ 1..m \in SUBSET (1..m) /\ m \in Nat
    BY <2>a
  <2>2. Max(1..m) = m
    BY <2>1, MaxOf
  <2>3. (1..m) \ {m} = 1..(m - 1)
    OBVIOUS
  <2>4. iter[1..m] = lookup_step(iter[1..(m - 1)], s[m])
    <3>1. iter[1..m] = lookup_step(iter[(1..m) \ {Max(1..m)}], s[Max(1..m)])
      BY <1>7, <2>1, Zenon
    <3> QED
      BY <2>2, <2>3, <3>1
  <2>5. g[m] = iter[1..m] /\ g[m - 1] = iter[1..(m - 1)]
    BY <2>0
  <2> HIDE DEF g
  <2> QED
    BY <2>4, <2>5
<1>10. FoldLeft(lookup_step, start, s) = g[l]
  BY <1>0, <1>1
<1>11. g = [m \in 0..l |-> g[m]]
  OBVIOUS
<1> HIDE DEF g
<1> DEFINE Bad == {m \in 0..l : g[m] \notin V}
<1>12. Bad = {}
  <2> SUFFICES ASSUME Bad # {} PROVE FALSE
    OBVIOUS
  <2>1. PICK m \in Bad : \A j \in Bad : m <= j
    <3>1. Bad \subseteq Nat
      BY <1>0
    <3> HIDE DEF Bad
    <3> QED
      BY <3>1, LeastNatural
  <2>2. m \in 0..l /\ g[m] \notin V
    BY <2>1
  <2>3. m # 0
    BY <1>8, <2>2
  <2>4. m \in 1..l /\ m - 1 \in 0..l /\ m - 1 < m /\ m \in Int
    BY <1>0, <2>2, <2>3
  <2>5. m - 1 \notin Bad
    <3> HIDE DEF Bad
    <3> QED
      BY <2>1, <2>4
  <2>6. g[m - 1] \in V /\ s[m] \in S
    BY <1>2, <2>4, <2>5
  <2> QED
    BY <1>9, <2>2, <2>4, <2>6
<1>13. g \in [0..l -> V]
  BY <1>11, <1>12
<1> QED
  BY <1>8, <1>9, <1>10, <1>13 DEF Followed, l

\* Every directory on the way along the first m components of s is one.
OpenTo(n, P, s, m) ==
    \A l \in 0..(m - 1), j \in 0..(n - 1) : P[j] = SubSeq(s, 1, l) => nodes[j].is_dir

Reach(n, P, s, m, k) == P[k] = SubSeq(s, 1, m) /\ OpenTo(n, P, s, m)

\* v is what there is at the end of the first m components of s.
Found(n, P, s, m, v) ==
    \/ v = NULL /\ \A k \in 0..(n - 1) : ~Reach(n, P, s, m, k)
    \/ \E k \in 0..(n - 1) : v = make_vfs_inode(k) /\ Reach(n, P, s, m, k)

\* NextPrefix for a path that may have empty pieces.
LEMMA NextPiece ==
    ASSUME NEW S, NEW s \in Seq(S), NEW m \in 1..Len(s)
    PROVE  /\ SubSeq(s, 1, m) = Below(SubSeq(s, 1, m - 1), s[m])
           /\ SubSeq(s, 1, m - 1) \in Seq(S) /\ s[m] \in S
<1> DEFINE n == m - 1
<1>1. n \in Nat /\ n + 1 <= Len(s) /\ n + 1 = m /\ s[m] \in S
  OBVIOUS
<1> HIDE DEF n
<1>2. SubSeq(s, 1, n + 1) = Append(SubSeq(s, 1, n), s[n + 1]) /\ SubSeq(s, 1, n) \in Seq(S)
  BY <1>1, PrefixGrows
<1> QED
  BY <1>1, <1>2 DEF Below, n

\* One more component of a path.
LEMMA FoundStep ==
    ASSUME NEW n, NEW P, Tree(nodes, n, P), NEW s \in Seq(Name \cup {EMPTY}),
           NEW m \in 1..Len(s), NEW v, Found(n, P, s, m - 1, v)
    PROVE  Found(n, P, s, m, lookup_step(v, s[m]))
<1> DEFINE S == Name \cup {EMPTY}
           c == s[m]
           r == SubSeq(s, 1, m - 1)
           q == SubSeq(s, 1, m)
           w == lookup_step(v, c)
<1>1. q = Below(r, c) /\ r \in Seq(S) /\ c \in S
  BY NextPiece
<1>2. /\ n \in Nat
      /\ \A k \in 0..(n - 1) : P[k] \in Seq(S)
      /\ \A j, k \in 0..(n - 1) : P[j] = P[k] => j = k
      /\ \A k \in 1..(n - 1) : nodes[k].name \in S
      /\ P[0] = << >>
  <2>1. \A k \in 0..(n - 1) : P[k] \in Seq(Name)
    BY DEF Tree
  <2>2. \A k \in 0..(n - 1) : P[k] \in Seq(S)
    <3> TAKE k \in 0..(n - 1)
    <3> DEFINE p == P[k]
    <3>1. p \in Seq(Name)
      BY <2>1
    <3> HIDE DEF p
    <3>2. p \in Seq(S)
      BY <3>1
    <3> QED
      BY <3>2 DEF p
  <2>3. \A k \in 1..(n - 1) : nodes[k].name \in Name
    BY DEF Tree
  <2>4. n \in Nat /\ (\A j, k \in 0..(n - 1) : P[j] = P[k] => j = k) /\ P[0] = << >>
    BY DEF Tree
  <2> QED
    BY <2>2, <2>3, <2>4
<1> HIDE DEF S, c, r, q
<1>3. ASSUME NEW k \in 0..(n - 1), P[k] = q
      PROVE  \E p \in 0..(n - 1) : /\ P[p] = r /\ k \in 1..(n - 1)
                                   /\ Child(nodes, n, P, p, k) /\ nodes[k].name = c
  <2>1. k # 0
    <3>1. q # << >>
      BY <1>1, AppendProperties DEF Below
    <3> QED
      BY <1>2, <1>3, <3>1
  <2>2. k \in 1..(n - 1)
    BY <1>2, <2>1
  <2>3. PICK p \in 0..(n - 1) : Child(nodes, n, P, p, k)
    BY <2>2 DEF Tree
  <2>4. Below(P[p], nodes[k].name) = Below(r, c)
    BY <1>1, <1>3, <2>3 DEF Child
  <2>5. P[p] \in Seq(S) /\ nodes[k].name \in S
    BY <1>2, <2>2
  <2>6. P[p] = r /\ nodes[k].name = c
    BY <1>1, <2>4, <2>5, SamePath
  <2> QED
    BY <2>2, <2>3, <2>6
<1>4. OpenTo(n, P, s, m) <=>
        OpenTo(n, P, s, m - 1) /\ \A j \in 0..(n - 1) : P[j] = r => nodes[j].is_dir
  <2>1. \A l \in 0..(m - 1) : l \in 0..((m - 1) - 1) \/ l = m - 1
    OBVIOUS
  <2>2. m - 1 \in 0..(m - 1) /\ \A l \in 0..((m - 1) - 1) : l \in 0..(m - 1)
    OBVIOUS
  <2> QED
    BY <2>1, <2>2 DEF OpenTo, r
<1>5. CASE v = NULL /\ \A k \in 0..(n - 1) : ~Reach(n, P, s, m - 1, k)
  <2>1. w = NULL
    BY <1>5 DEF lookup_step
  <2>2. ASSUME NEW k \in 0..(n - 1), Reach(n, P, s, m, k) PROVE FALSE
    <3>1. P[k] = q /\ OpenTo(n, P, s, m)
      BY <2>2 DEF Reach, q
    <3>2. PICK p \in 0..(n - 1) : P[p] = r
      BY <1>3, <3>1
    <3>3. Reach(n, P, s, m - 1, p)
      BY <1>4, <3>1, <3>2 DEF Reach, r
    <3> QED
      BY <1>5, <3>3
  <2> HIDE DEF w
  <2> QED
    BY <2>1, <2>2 DEF Found, w, c
<1>6. ASSUME NEW k \in 0..(n - 1), v = make_vfs_inode(k), Reach(n, P, s, m - 1, k)
      PROVE  Found(n, P, s, m, w)
  <2>0. P[k] = r /\ OpenTo(n, P, s, m - 1)
    BY <1>6 DEF Reach, r
  <2>1. \/ w = NULL /\ (~nodes[k].is_dir \/ Lacks(nodes, n, P, k, c))
        \/ \E j \in 1..(n - 1) : /\ nodes[k].is_dir /\ Child(nodes, n, P, k, j)
                                 /\ nodes[j].name = c /\ w = make_vfs_inode(j)
    BY <1>6, LookupStepIs
  <2> HIDE DEF w
  <2>2. CASE w = NULL /\ (~nodes[k].is_dir \/ Lacks(nodes, n, P, k, c))
    <3>1. ASSUME NEW i \in 0..(n - 1), Reach(n, P, s, m, i) PROVE FALSE
      <4>1. P[i] = q /\ OpenTo(n, P, s, m)
        BY <3>1 DEF Reach, q
      <4>2. PICK p \in 0..(n - 1) : /\ P[p] = r /\ i \in 1..(n - 1)
                                    /\ Child(nodes, n, P, p, i) /\ nodes[i].name = c
        BY <1>3, <4>1
      <4>3. p = k
        BY <1>2, <2>0, <4>2
      <4>4. nodes[k].is_dir
        BY <1>4, <2>0, <4>1
      <4>5. Lacks(nodes, n, P, k, c)
        BY <2>2, <4>4
      <4> QED
        BY <4>2, <4>3, <4>5 DEF Lacks
    <3> QED
      BY <2>2, <3>1 DEF Found
  <2>3. ASSUME NEW j \in 1..(n - 1), nodes[k].is_dir, Child(nodes, n, P, k, j),
               nodes[j].name = c, w = make_vfs_inode(j)
        PROVE  Found(n, P, s, m, w)
    <3>1. P[j] = q
      BY <1>1, <2>0, <2>3 DEF Child
    <3>2. OpenTo(n, P, s, m)
      BY <1>2, <1>4, <2>0, <2>3
    <3>3. j \in 0..(n - 1)
      BY <1>2
    <3>4. Reach(n, P, s, m, j)
      BY <3>1, <3>2 DEF Reach, q
    <3> QED
      BY <2>3, <3>3, <3>4 DEF Found
  <2> QED
    BY <2>1, <2>2, <2>3
<1> QED
  BY <1>5, <1>6 DEF Found, w, c

\* The path walk finds what is at the end of a path in the tree.
LEMMA LookupFinds ==
    ASSUME NEW n, NEW P, Tree(nodes, n, P), NEW s \in Seq(Name \cup {EMPTY})
    PROVE  Found(n, P, s, Len(s), FoldLeft(lookup_step, make_vfs_inode(0), s))
<1> DEFINE S == Name \cup {EMPTY}
           start == make_vfs_inode(0)
           V == {make_vfs_inode(k) : k \in 0..(n - 1)} \cup {NULL}
           l == Len(s)
<1>0. n \in Nat /\ 0 \in 0..(n - 1) /\ P[0] = << >>
  <2>1. n \in Nat \ {0} /\ P[0] = << >>
    BY DEF Tree
  <2> QED
    BY <2>1
<1>1. start \in V
  BY <1>0
<1>2. ASSUME NEW v \in V, NEW c \in S PROVE lookup_step(v, c) \in V
  <2>1. CASE v = NULL
    BY <2>1 DEF lookup_step
  <2>2. ASSUME NEW k \in 0..(n - 1), v = make_vfs_inode(k) PROVE lookup_step(v, c) \in V
    <3>1. \/ lookup_step(v, c) = NULL
          \/ \E j \in 1..(n - 1) : lookup_step(v, c) = make_vfs_inode(j)
      BY <2>2, LookupStepIs
    <3>2. \A j \in 1..(n - 1) : j \in 0..(n - 1)
      BY <1>0
    <3> QED
      BY <3>1, <3>2
  <2> QED
    BY <2>1, <2>2
<1>3. l \in Nat
  OBVIOUS
<1> HIDE DEF V, start
<1>4. PICK g \in [0..Len(s) -> V] :
             /\ g[0] = start
             /\ \A m \in 1..Len(s) : g[m] = lookup_step(g[m - 1], s[m])
             /\ FoldLeft(lookup_step, start, s) = g[Len(s)]
  <2>1. \A v \in V, c \in S : lookup_step(v, c) \in V
    BY <1>2
  <2> HIDE DEF S
  <2>2. s \in Seq(S)
    BY DEF S
  <2>3. Followed(V, start, s)
    BY <1>1, <2>1, <2>2, LookupFold
  <2> QED
    BY <2>3 DEF Followed
<1>5. Found(n, P, s, 0, g[0])
  <2>1. SubSeq(s, 1, 0) = << >>
    <3>1. 0 \in 0..Len(s)
      BY <1>3
    <3>2. SubSeq(s, 1, 0) \in Seq(S) /\ Len(SubSeq(s, 1, 0)) = 0
      BY <3>1, Prefix
    <3> QED
      BY <3>2
  <2>2. OpenTo(n, P, s, 0)
    BY DEF OpenTo
  <2>3. Reach(n, P, s, 0, 0)
    BY <1>0, <2>1, <2>2 DEF Reach
  <2> QED
    BY <1>0, <1>4, <2>3 DEF Found, start
<1> DEFINE Bad == {m \in 0..l : ~Found(n, P, s, m, g[m])}
<1>6. Bad = {}
  <2> SUFFICES ASSUME Bad # {} PROVE FALSE
    OBVIOUS
  <2>1. PICK m \in Bad : \A j \in Bad : m <= j
    <3>1. Bad \subseteq Nat
      BY <1>3
    <3> HIDE DEF Bad
    <3> QED
      BY <3>1, LeastNatural
  <2>2. m \in 0..l /\ ~Found(n, P, s, m, g[m])
    BY <2>1
  <2>3. m # 0
    BY <1>5, <2>2
  <2>4. m \in 1..l /\ m - 1 \in 0..l /\ m - 1 < m /\ m \in Int
    BY <1>3, <2>2, <2>3
  <2>5. m - 1 \notin Bad
    <3> HIDE DEF Bad
    <3> QED
      BY <2>1, <2>4
  <2>6. Found(n, P, s, m - 1, g[m - 1])
    BY <2>4, <2>5
  <2>7. Found(n, P, s, m, lookup_step(g[m - 1], s[m]))
    BY <2>4, <2>6, FoundStep
  <2> QED
    BY <1>4, <2>2, <2>4, <2>7
<1>7. Found(n, P, s, l, g[l])
  <2>1. l \in 0..l
    BY <1>3
  <2> QED
    BY <1>6, <2>1
<1> QED
  BY <1>4, <1>7 DEF start

\* t[m] of the components w are among the first m pieces of a path, the other
\* pieces are empty.
Cut(path, w, t) ==
    /\ t \in [0..Len(path) -> 0..Len(w)] /\ t[0] = 0 /\ t[Len(path)] = Len(w)
    /\ \A m \in 1..Len(path) :
         \/ path[m] = EMPTY /\ t[m] = t[m - 1]
         \/ t[m] = t[m - 1] + 1 /\ path[m] = w[t[m]]

\* Leaving out empty pieces is what components() does.
LEMMA CutIs ==
    ASSUME NEW path \in Seq(Name \cup {EMPTY}), NEW w \in Seq(Name), NEW t, Cut(path, w, t)
    PROVE  components(path) = w
<1> DEFINE n == Len(path)
<1>0. n \in Nat /\ Len(w) \in Nat /\ EMPTY \notin Name
  BY TarfsAssumption
<1>1. PICK g : Splits(path, g) /\ components(path) = g[Len(path)]
  BY ComponentsAre
<1>2. /\ g[0] = << >>
      /\ \A m \in 1..n : g[m] = IF path[m] = EMPTY THEN g[m - 1] ELSE Below(g[m - 1], path[m])
  BY <1>1 DEF Splits
<1>3. /\ t[0] = 0 /\ t[n] = Len(w) /\ \A m \in 0..n : t[m] \in 0..Len(w)
      /\ \A m \in 1..n : \/ path[m] = EMPTY /\ t[m] = t[m - 1]
                         \/ t[m] = t[m - 1] + 1 /\ path[m] = w[t[m]]
  BY DEF Cut
<1> HIDE DEF n
<1> DEFINE Bad == {m \in 0..n : g[m] # SubSeq(w, 1, t[m])}
<1>4. ASSUME NEW i \in 0..Len(w)
      PROVE  /\ SubSeq(w, 1, i) \in Seq(Name) /\ Len(SubSeq(w, 1, i)) = i
             /\ \A j \in 1..i : SubSeq(w, 1, i)[j] = w[j]
  BY Prefix
<1>5. SubSeq(w, 1, 0) = << >>
  <2>1. 0 \in 0..Len(w)
    BY <1>0
  <2>2. SubSeq(w, 1, 0) \in Seq(Name) /\ Len(SubSeq(w, 1, 0)) = 0
    BY <1>4, <2>1
  <2> QED
    BY <2>2
<1>6. Bad = {}
  <2> SUFFICES ASSUME Bad # {} PROVE FALSE
    OBVIOUS
  <2>1. PICK m \in Bad : \A j \in Bad : m <= j
    <3>1. Bad \subseteq Nat
      BY <1>0
    <3> HIDE DEF Bad
    <3> QED
      BY <3>1, LeastNatural
  <2>2. m \in 0..n /\ g[m] # SubSeq(w, 1, t[m])
    BY <2>1
  <2>3. m # 0
    BY <1>2, <1>3, <1>5, <2>2
  <2>4. m \in 1..n /\ m - 1 \in 0..n /\ m - 1 < m /\ m \in Int
    BY <1>0, <2>2, <2>3
  <2>5. m - 1 \notin Bad
    <3> HIDE DEF Bad
    <3> QED
      BY <2>1, <2>4
  <2>6. g[m - 1] = SubSeq(w, 1, t[m - 1])
    BY <2>4, <2>5
  <2>7. CASE path[m] = EMPTY /\ t[m] = t[m - 1]
    BY <1>2, <2>2, <2>4, <2>6, <2>7
  <2>8. CASE t[m] = t[m - 1] + 1 /\ path[m] = w[t[m]]
    <3> DEFINE i == t[m]
    <3>1. t[m - 1] \in 0..Len(w) /\ i \in 0..Len(w) /\ i = t[m - 1] + 1
      BY <1>3, <2>2, <2>4, <2>8
    <3> DEFINE h == t[m - 1]
    <3>a. h \in 0..Len(w) /\ i \in 0..Len(w) /\ i = h + 1
      BY <3>1
    <3> HIDE DEF i, h
    <3>b. i \in 1..Len(w) /\ h = i - 1
      BY <1>0, <3>a
    <3>2. i \in 1..Len(w) /\ t[m - 1] = i - 1
      BY <3>b DEF h
    <3>3. SubSeq(w, 1, i) = Below(SubSeq(w, 1, i - 1), w[i]) /\ w[i] \in Name
      BY <3>2, NextPrefix
    <3>4. path[m] = w[i]
      BY <2>8 DEF i
    <3>5. g[m] = Below(g[m - 1], w[i])
      BY <1>0, <1>2, <2>4, <3>3, <3>4
    <3> QED
      BY <2>2, <2>6, <3>2, <3>3, <3>5 DEF i
  <2> QED
    BY <1>3, <2>4, <2>7, <2>8
<1>7. SubSeq(w, 1, Len(w)) = w
  <2>1. Len(w) \in 0..Len(w)
    BY <1>0
  <2> QED
    BY <1>4, <2>1, SeqEqual
<1>8. g[n] = SubSeq(w, 1, t[n])
  <2>1. n \in 0..n
    BY <1>0
  <2> QED
    BY <1>6, <2>1
<1> QED
  BY <1>1, <1>3, <1>7, <1>8 DEF n

\* What the path walk skips are empty pieces at the ends of a path.
LEMMA WalkedCut ==
    ASSUME NEW path \in Seq(Name \cup {EMPTY})
    PROVE  /\ walked(path) \in Seq(Name \cup {EMPTY})
           /\ \E t : Cut(path, walked(path), t)
<1> DEFINE S == Name \cup {EMPTY}
           n == Len(path)
           named == {i \in DOMAIN path : path[i] # EMPTY}
           f == Min(named)
           rest == SubSeq(path, f, n)
           w == walked(path)
<1>0. n \in Nat /\ DOMAIN path = 1..n /\ path \in Seq(S)
  OBVIOUS
<1> HIDE DEF S
<1>1. CASE named = {}
  <2>1. w = << >>
    BY <1>1 DEF walked
  <2>2. \A m \in 1..n : path[m] = EMPTY
    BY <1>0, <1>1
  <2> DEFINE t == [m \in 0..n |-> 0]
  <2>3. Cut(path, << >>, t)
    <3>1. Len(<< >>) = 0 /\ 0 \in 0..n /\ n \in 0..n
      BY <1>0
    <3>2. t \in [0..n -> 0..0] /\ t[0] = 0 /\ t[n] = 0
      BY <3>1
    <3>3. \A m \in 1..n : t[m] = t[m - 1]
      BY <1>0
    <3> HIDE DEF t
    <3> QED
      BY <2>2, <3>1, <3>2, <3>3 DEF Cut
  <2>4. << >> \in Seq(Name \cup {EMPTY})
    OBVIOUS
  <2> QED
    BY <2>1, <2>3, <2>4
<1>2. CASE named # {}
  <2>1. f \in named /\ \A j \in named : f <= j
    <3>1. named \subseteq Nat
      BY <1>0
    <3> HIDE DEF named
    <3> QED
      BY <1>2, <3>1, MinIsLeast
  <2>2. f \in 1..n /\ path[f] # EMPTY /\ \A m \in 1..n : m < f => path[m] = EMPTY
    <3>1. f \in DOMAIN path /\ path[f] # EMPTY
      BY <2>1
    <3>2. \A m \in DOMAIN path : path[m] # EMPTY => f <= m
      BY <2>1
    <3> HIDE DEF f, named
    <3> QED
      BY <1>0, <3>1, <3>2
  <2>3. w = IF rest # << >> /\ Last(rest) = EMPTY THEN Front(rest) ELSE rest
    BY <1>2 DEF walked
  <2> HIDE DEF f, named, w
  <2> DEFINE len == (n - f) + 1
  <2>4. /\ rest \in Seq(S) /\ Len(rest) = len
        /\ \A i \in 1..len : rest[i] = path[f + (i - 1)]
    <3>1. n \in f..Len(path)
      BY <1>0, <2>2
    <3> QED
      BY <1>0, <2>2, <3>1, Middle
  <2> HIDE DEF rest
  <2>5. len \in Nat /\ len >= 1 /\ len \in 1..len /\ f + (len - 1) = n
    BY <1>0, <2>2
  <2>6. rest # << >> /\ Last(rest) = path[n]
    <3>1. rest[len] = path[n]
      BY <2>4, <2>5
    <3> HIDE DEF len
    <3> QED
      BY <2>4, <2>5, <3>1 DEF Last
  <2> DEFINE e == IF path[n] = EMPTY THEN len - 1 ELSE len
  <2>7. e \in 0..len /\ (path[n] # EMPTY => e = len) /\ (path[n] = EMPTY => e = len - 1)
    BY <2>5
  <2> HIDE DEF len
  <2>8. w = SubSeq(rest, 1, e)
    <3>1. CASE path[n] = EMPTY
      BY <2>3, <2>4, <2>6, <3>1 DEF Front
    <3>2. CASE path[n] # EMPTY
      <4>1. SubSeq(rest, 1, Len(rest)) = rest
        <5>1. Len(rest) \in 0..Len(rest)
          BY <2>4, <2>5
        <5>2. /\ SubSeq(rest, 1, Len(rest)) \in Seq(S)
              /\ Len(SubSeq(rest, 1, Len(rest))) = Len(rest)
              /\ \A i \in 1..Len(rest) : SubSeq(rest, 1, Len(rest))[i] = rest[i]
          BY <2>4, <5>1, Prefix
        <5> QED
          BY <2>4, <5>2, SeqEqual
      <4> QED
        BY <2>3, <2>4, <2>6, <3>2, <4>1
    <3> QED
      BY <3>1, <3>2
  <2> HIDE DEF e
  <2>9. /\ w \in Seq(S) /\ Len(w) = e
        /\ \A i \in 1..e : w[i] = rest[i]
    BY <2>4, <2>7, <2>8, Prefix
  <2>10. \A i \in 1..e : w[i] = path[f + (i - 1)]
    <3>1. \A i \in 1..e : i \in 1..len
      BY <2>5, <2>7
    <3> QED
      BY <2>4, <2>9, <3>1
  <2>11. (n - f) + 1 = len
    BY DEF len
  <2>12. e >= 1 /\ e \in Nat /\ len \in Nat
    <3>1. CASE path[n] = EMPTY
      <4>1. f # n
        BY <2>2, <3>1
      <4>2. n - f >= 1
        <5>1. n \in Nat /\ f \in 1..n
          BY <1>0, <2>2
        <5> HIDE DEF n
        <5> QED
          BY <4>1, <5>1
      <4>3. e = n - f /\ n - f \in Nat
        <5>1. e = len - 1
          BY <2>7, <3>1
        <5>2. n \in Nat /\ f \in Nat /\ f <= n /\ len = (n - f) + 1
          BY <1>0, <2>2, <2>11
        <5> HIDE DEF n
        <5> QED
          BY <5>1, <5>2
      <4> QED
        BY <2>5, <4>2, <4>3
    <3>2. CASE path[n] # EMPTY
      BY <2>5, <2>7, <3>2
    <3> QED
      BY <3>1, <3>2
  <2> DEFINE t == [m \in 0..n |-> IF m < f THEN 0 ELSE IF (m - f) + 1 <= e THEN (m - f) + 1 ELSE e]
  <2>13. \A m \in 0..n :
           /\ m < f => t[m] = 0
           /\ m >= f /\ (m - f) + 1 <= e => t[m] = (m - f) + 1
           /\ m >= f /\ (m - f) + 1 > e => t[m] = e
    BY <1>0, <2>2, <2>12
  <2>14. t \in [0..n -> 0..e]
    BY <1>0, <2>2, <2>12
  <2> HIDE DEF t
  <2>15. t[0] = 0 /\ t[n] = e
    <3>1. 0 \in 0..n /\ n \in 0..n /\ 0 < f /\ n >= f
      BY <1>0, <2>2
    <3> QED
      BY <1>0, <2>2, <2>7, <2>11, <2>12, <2>13, <3>1
  <2>16. ASSUME NEW m \in 1..n
         PROVE  \/ path[m] = EMPTY /\ t[m] = t[m - 1]
                \/ t[m] = t[m - 1] + 1 /\ path[m] = w[t[m]]
    <3>0. m \in 0..n /\ m - 1 \in 0..n /\ f \in Nat /\ m \in Nat /\ n \in Nat
      BY <1>0, <2>2
    <3>1. CASE m < f
      <4>1. m - 1 < f
        BY <3>0, <3>1
      <4>2. t[m] = 0 /\ t[m - 1] = 0
        BY <2>13, <3>0, <3>1, <4>1
      <4> QED
        BY <2>2, <3>1, <4>2
    <3>2. CASE m >= f /\ (m - f) + 1 <= e
      <4> DEFINE i == (m - f) + 1
      <4>1. t[m] = i /\ i \in 1..e /\ f + (i - 1) = m
        BY <2>12, <2>13, <3>0, <3>2
      <4>2. t[m - 1] = i - 1
        <5>1. CASE m = f
          <6>1. m - 1 < f /\ i - 1 = 0
            BY <3>0, <5>1
          <6> HIDE DEF i
          <6> QED
            BY <2>13, <3>0, <6>1
        <5>2. CASE m # f
          <6>1. m - 1 >= f /\ ((m - 1) - f) + 1 <= e /\ ((m - 1) - f) + 1 = i - 1
            BY <2>12, <3>0, <3>2, <5>2
          <6> HIDE DEF i
          <6> QED
            BY <2>13, <3>0, <6>1
        <5> QED
          BY <5>1, <5>2
      <4> HIDE DEF i
      <4>3. path[m] = w[i]
        BY <2>10, <4>1
      <4>4. i \in Int
        BY <4>1
      <4> QED
        BY <4>1, <4>2, <4>3, <4>4
    <3>3. CASE m >= f /\ (m - f) + 1 > e
      <4>1. m = n /\ path[n] = EMPTY /\ e = (n - f)
        BY <2>5, <2>7, <2>11, <2>12, <3>0, <3>3
      <4>2. t[m] = e
        BY <2>13, <3>0, <3>3
      <4>3. m - 1 >= f /\ ((m - 1) - f) + 1 = e /\ e <= e
        BY <2>12, <3>0, <4>1
      <4>4. t[m - 1] = e
        BY <2>13, <3>0, <4>3
      <4> QED
        BY <4>1, <4>2, <4>4
    <3> QED
      BY <2>12, <3>0, <3>1, <3>2, <3>3
  <2>17. Cut(path, w, t)
    BY <2>9, <2>14, <2>15, <2>16 DEF Cut
  <2> QED
    BY <2>9, <2>17 DEF w, S
<1> QED
  BY <1>1, <1>2

\* The paths a node is needed for.
Needed(a) == {<< >>} \cup UNION {Prefixes(components(a[i].path)) : i \in DOMAIN a}

\* A path has finitely many prefixes ...
LEMMA PrefixesFinite ==
    ASSUME NEW s \in Seq(Name)
    PROVE  IsFiniteSet(Prefixes(s))
<1> DEFINE f == [l \in 0..Len(s) |-> SubSeq(s, 1, l)]
           X == 0..Len(s)
           Y == Prefixes(s)
<1>0. 0 \in Int /\ Len(s) \in Int
  OBVIOUS
<1>1. IsFiniteSet(X)
  BY <1>0, FS_Interval
<1>2. f \in Surjection(X, Y)
  BY DEF Prefixes, Surjection
<1> HIDE DEF f, X, Y
<1>3. IsFiniteSet(Y)
  BY <1>1, <1>2, FS_Surjection
<1> QED
  BY <1>3 DEF Y

\* ... and so has an archive.
LEMMA NeededFinite ==
    ASSUME NEW a \in Seq(Entry)
    PROVE  IsFiniteSet(Needed(a)) /\ Cardinality(Needed(a)) \in Nat
<1> DEFINE f == [i \in 1..Len(a) |-> Prefixes(components(a[i].path))]
           X == 1..Len(a)
           Y == {Prefixes(components(a[i].path)) : i \in DOMAIN a}
<1>0. 1 \in Int /\ Len(a) \in Int /\ DOMAIN a = 1..Len(a)
  OBVIOUS
<1>1. IsFiniteSet(X)
  BY <1>0, FS_Interval
<1>2. f \in Surjection(X, Y)
  BY <1>0 DEF Surjection
<1>3. \A y \in Y : IsFiniteSet(y)
  <2>1. ASSUME NEW i \in 1..Len(a) PROVE IsFiniteSet(Prefixes(components(a[i].path)))
    <3>1. components(a[i].path) \in Seq(Name)
      BY CompsAre DEF Comps
    <3> QED
      BY <3>1, PrefixesFinite
  <2> QED
    BY <1>0, <2>1
<1>4. Needed(a) = {<< >>} \cup UNION Y
  BY DEF Needed
<1> HIDE DEF f, X, Y
<1>5. IsFiniteSet(Y)
  BY <1>1, <1>2, FS_Surjection
<1>6. IsFiniteSet(UNION Y)
  BY <1>3, <1>5, FS_UNION
<1>7. IsFiniteSet({<< >>})
  BY FS_Singleton
<1> DEFINE U == UNION Y
           E == {<< >>}
<1>8. IsFiniteSet({<< >>} \cup UNION Y)
  <2>1. IsFiniteSet(U) /\ IsFiniteSet(E)
    BY <1>6, <1>7
  <2> HIDE DEF U, E
  <2>2. \A A, B : IsFiniteSet(A) /\ IsFiniteSet(B) => IsFiniteSet(A \cup B)
    BY FS_Union
  <2>3. IsFiniteSet(E \cup U)
    BY <2>1, <2>2
  <2> QED
    BY <2>3 DEF U, E
<1> QED
  BY <1>4, <1>8, FS_CardinalityType

\* Every prefix of an entry is needed, and the root.
LEMMA NeededIs ==
    ASSUME NEW a
    PROVE  /\ << >> \in Needed(a)
           /\ \A i \in DOMAIN a : Prefixes(Comps(a, i)) \subseteq Needed(a)
<1>1. << >> \in Needed(a)
  <2> DEFINE e == << >>
  <2> HIDE DEF e
  <2>1. e \in {e} \cup UNION {Prefixes(components(a[i].path)) : i \in DOMAIN a}
    BY Zenon
  <2> QED
    BY <2>1, Zenon DEF Needed, e
<1>2. ASSUME NEW i \in DOMAIN a, NEW x \in Prefixes(Comps(a, i)) PROVE x \in Needed(a)
  BY <1>2, Zenon DEF Needed, Comps
<1> QED
  BY <1>1, <1>2

\* The first l components are one of the prefixes.
LEMMA InPrefixes ==
    ASSUME NEW s, NEW l \in 0..Len(s)
    PROVE  SubSeq(s, 1, l) \in Prefixes(s)
  BY Zenon DEF Prefixes

\* A prefix is one of the prefixes.
LEMMA PrefixIn ==
    ASSUME NEW p \in Seq(Name), NEW s \in Seq(Name), IsPrefix(p, s)
    PROVE  p = SubSeq(s, 1, Len(p)) /\ Len(p) \in 0..Len(s)
<1>1. Len(p) \in Nat /\ Len(s) \in Nat /\ Len(p) <= Len(s) /\ SubSeq(p, 1, Len(p)) = SubSeq(s, 1, Len(p))
  BY DEF IsPrefix
<1>2. Len(p) \in 0..Len(p) /\ Len(p) \in 0..Len(s)
  BY <1>1
<1>3. /\ SubSeq(p, 1, Len(p)) \in Seq(Name) /\ Len(SubSeq(p, 1, Len(p))) = Len(p)
      /\ \A i \in 1..Len(p) : SubSeq(p, 1, Len(p))[i] = p[i]
  BY <1>2, Prefix
<1>4. SubSeq(p, 1, Len(p)) = p
  BY <1>3, SeqEqual
<1> QED
  BY <1>1, <1>2, <1>4

\* A table with a node for every path that is needed lacks none.
LEMMA NoneMissing ==
    ASSUME NEW a \in Seq(Entry), NEW cap \in Nat, NEW T, NEW n, NEW P,
           Built(a, Len(a), cap, T, n, P), Cardinality(Needed(a)) <= cap, NEW j \in 1..Len(a)
    PROVE  Has(P, n, Comps(a, j))
<1> DEFINE N == Needed(a)
           X == 0..(n - 1)
<1>0. /\ Tree(T, n, P) /\ Rooted(a, Len(a), n, P) /\ Whole(a, Len(a), cap, n, P)
  BY DEF Built
<1>1. n \in Nat /\ n >= 1
  <2>1. n \in Nat \ {0}
    BY <1>0 DEF Tree
  <2> QED
    BY <2>1
<1>2. CASE n < cap
  BY <1>0, <1>2 DEF Whole
<1>3. CASE n >= cap
  <2>1. IsFiniteSet(X) /\ Cardinality(X) = n
    <3>1. 0 \in Int /\ n - 1 \in Int
      BY <1>1
    <3>2. IsFiniteSet(0..(n - 1)) /\ Cardinality(0..(n - 1)) = IF 0 > n - 1 THEN 0 ELSE (n - 1) - 0 + 1
      BY <3>1, FS_Interval
    <3> QED
      BY <1>1, <3>2
  <2>2. IsFiniteSet(N) /\ Cardinality(N) \in Nat
    BY NeededFinite
  <2>3. /\ P = [k \in 0..(n - 1) |-> P[k]] /\ \A k \in 0..(n - 1) : P[k] \in Seq(Name)
        /\ \A i, k \in 0..(n - 1) : P[i] = P[k] => i = k
    BY <1>0 DEF Tree
  <2>4. ASSUME NEW k \in 0..(n - 1) PROVE P[k] \in N
    <3>1. CASE P[k] = << >>
      BY <3>1, NeededIs
    <3>2. ASSUME NEW i \in 1..Len(a), IsPrefix(P[k], Comps(a, i)) PROVE P[k] \in N
      <4> DEFINE p == P[k]
                 s == Comps(a, i)
      <4>1. p \in Seq(Name) /\ s \in Seq(Name) /\ IsPrefix(p, s)
        BY <2>3, <3>2, CompsAre
      <4> HIDE DEF p, s
      <4>2. p = SubSeq(s, 1, Len(p)) /\ Len(p) \in 0..Len(s)
        BY <4>1, PrefixIn
      <4>3. p \in Prefixes(s)
        BY <4>2, InPrefixes
      <4>4. i \in DOMAIN a
        OBVIOUS
      <4> QED
        BY <4>3, <4>4, NeededIs DEF p, s
    <3> QED
      BY <1>0, <3>1, <3>2 DEF Rooted
  <2>5. P \in Injection(X, N)
    <3> HIDE DEF N
    <3> QED
      BY <2>3, <2>4 DEF Injection, IsInjective
  <2> HIDE DEF N, X
  <2>6. Cardinality(X) <= Cardinality(N) /\ (Cardinality(X) = Cardinality(N) <=> P \in Surjection(X, N))
    BY <2>2, <2>5, FS_Injection
  <2>7. Cardinality(N) <= cap
    BY DEF N
  <2>8. Cardinality(X) = Cardinality(N)
    BY <1>1, <1>3, <2>1, <2>2, <2>6, <2>7
  <2>9. P \in Surjection(X, N)
    BY <2>6, <2>8
  <2>10. Comps(a, j) \in N
    <3> DEFINE s == Comps(a, j)
    <3>1. s \in Seq(Name)
      BY CompsAre
    <3> HIDE DEF s
    <3>2. Len(s) \in 0..Len(s) /\ Len(s) \in Nat
      BY <3>1
    <3>3. /\ SubSeq(s, 1, Len(s)) \in Seq(Name) /\ Len(SubSeq(s, 1, Len(s))) = Len(s)
          /\ \A i \in 1..Len(s) : SubSeq(s, 1, Len(s))[i] = s[i]
      BY <3>1, <3>2, Prefix
    <3>4. SubSeq(s, 1, Len(s)) = s
      BY <3>1, <3>3, SeqEqual
    <3>5. s \in Prefixes(s)
      BY <3>2, <3>4, InPrefixes
    <3>6. j \in DOMAIN a
      OBVIOUS
    <3> QED
      BY <3>5, <3>6, NeededIs DEF N, s
  <2>11. \E k \in X : P[k] = Comps(a, j)
    BY <2>9, <2>10 DEF Surjection
  <2> QED
    BY <2>11 DEF Has, X
<1> QED
  BY <1>1, <1>2, <1>3

\* NodesNeeded counts them.
LEMMA NodesNeededIs == NodesNeeded = Cardinality(Needed(archive))
  BY DEF NodesNeeded, Needed

\* Every node is the directory or the file the archive says.
LEMMA NodesAre ==
    ASSUME NEW cap, NEW n, NEW P, archive \in Seq(Entry),
           Built(archive, Len(archive), cap, nodes, n, P), NEW k \in 0..(n - 1)
    PROVE  /\ nodes[k].is_dir = IsDirectory(P[k])
           /\ ~nodes[k].is_dir => /\ nodes[k].data = Max(Entries(P[k]))
                                  /\ nodes[k].size = archive[Max(Entries(P[k]))].size
           /\ Named(P[k])
<1> DEFINE q == P[k]
           a == archive
<1>0. /\ Tree(nodes, n, P) /\ Rooted(a, Len(a), n, P) /\ Stamped(a, Len(a), nodes, n, P)
  BY DEF Built
<1>1. Entries(q) = EntriesUpTo(a, Len(a), q)
  BY DEF Entries, EntriesUpTo, Comps
<1>2. Named(q)
  <2>1. q = << >> \/ \E j \in 1..Len(a) : IsPrefix(q, Comps(a, j))
    BY <1>0 DEF Rooted
  <2>2. DOMAIN a = 1..Len(a)
    OBVIOUS
  <2> HIDE DEF q
  <2> QED
    BY <2>1, <2>2 DEF Named, Comps
<1>3. /\ n \in Nat /\ nodes[0].is_dir /\ P[0] = << >> /\ nodes[k].is_dir \in BOOLEAN
      /\ \A j \in 0..(n - 1) : P[j] = << >> => j = 0
  <2>1. n \in Nat \ {0}
    BY <1>0 DEF Tree
  <2>2. 0 \in 0..(n - 1)
    BY <2>1
  <2>3. nodes[k] \in Node /\ nodes[0].is_dir /\ P[0] = << >>
    BY <1>0 DEF Tree
  <2>4. \A i, j \in 0..(n - 1) : P[i] = P[j] => i = j
    BY <1>0 DEF Tree
  <2>5. nodes[k].is_dir \in BOOLEAN
    BY <2>3 DEF Node
  <2> QED
    BY <2>1, <2>2, <2>3, <2>4, <2>5
<1>4. CASE k = 0
  <2>1. nodes[k].is_dir /\ q = << >>
    BY <1>3, <1>4
  <2>2. IsDirectory(q)
    BY <2>1 DEF IsDirectory
  <2>3. IsDirectory(q) \in BOOLEAN
    BY DEF IsDirectory
  <2> HIDE DEF q
  <2> QED
    BY <1>2, <1>3, <2>1, <2>2, <2>3 DEF q
<1>5. CASE k # 0
  <2>1. k \in 1..(n - 1) /\ q # << >>
    BY <1>3, <1>5
  <2> DEFINE E == Entries(q)
             e == archive[Max(E)]
  <2>2. /\ E = {} => nodes[k].is_dir
        /\ E # {} => /\ nodes[k].is_dir = e.is_dir
                     /\ ~e.is_dir => nodes[k].data = Max(E) /\ nodes[k].size = e.size
    BY <1>0, <1>1, <2>1 DEF Stamped
  <2>3. IsDirectory(q) <=> (E = {} \/ e.is_dir)
    BY <2>1 DEF IsDirectory
  <2>4. IsDirectory(q) \in BOOLEAN
    BY DEF IsDirectory
  <2> HIDE DEF q, E, e
  <2>5. nodes[k].is_dir = IsDirectory(q)
    BY <1>3, <2>2, <2>3, <2>4
  <2>6. ~nodes[k].is_dir => nodes[k].data = Max(E) /\ nodes[k].size = e.size
    BY <2>2
  <2> QED
    BY <1>2, <2>5, <2>6 DEF q, E, e
<1> QED
  BY <1>4, <1>5

\* What the archive says of components q is what inode is.
Matches(q, inode) ==
    /\ Exists(q) /\ inode.is_dir = IsDirectory(q)
    /\ ~inode.is_dir => /\ inode.at = Max(Entries(q))
                        /\ inode.size = archive[inode.at].size

\* Its proper prefixes are the shorter ones.
LEMMA ProperPrefixes ==
    ASSUME NEW q \in Seq(Name)
    PROVE  /\ \A r \in Prefixes(q) \ {q} : \E l \in 0..(Len(q) - 1) : r = SubSeq(q, 1, l)
           /\ \A l \in 0..(Len(q) - 1) : SubSeq(q, 1, l) \in Prefixes(q) \ {q}
<1> DEFINE n == Len(q)
<1>0. n \in Nat /\ SubSeq(q, 1, n) = q
  BY WholeSeq
<1>1. ASSUME NEW r \in Prefixes(q) \ {q} PROVE \E l \in 0..(n - 1) : r = SubSeq(q, 1, l)
  <2>1. PICK l \in 0..n : r = SubSeq(q, 1, l)
    BY <1>1, Zenon DEF Prefixes
  <2> HIDE DEF n
  <2>2. l # n
    BY <1>0, <1>1, <2>1, Zenon
  <2>3. l \in 0..(n - 1)
    BY <1>0, <2>2
  <2> QED
    BY <2>1, <2>3
<1>2. ASSUME NEW l \in 0..(n - 1) PROVE SubSeq(q, 1, l) \in Prefixes(q) \ {q}
  <2>1. l \in 0..n /\ l # n
    <3> HIDE DEF n
    <3> QED
      BY <1>0
  <2>2. Len(SubSeq(q, 1, l)) = l
    BY <2>1, Prefix
  <2>3. SubSeq(q, 1, l) \in Prefixes(q)
    BY <2>1, InPrefixes
  <2> QED
    BY <2>1, <2>2, <2>3
<1> QED
  BY <1>1, <1>2

\* A node that the path walk reaches is what the archive says.
LEMMA FoundMatches ==
    ASSUME NEW cap, NEW n, NEW P, archive \in Seq(Entry),
           Built(archive, Len(archive), cap, nodes, n, P),
           NEW q \in Seq(Name), NEW k \in 0..(n - 1), Reach(n, P, q, Len(q), k)
    PROVE  Matches(q, make_vfs_inode(k))
<1>0. Tree(nodes, n, P)
  BY DEF Built
<1>1. P[k] = q /\ OpenTo(n, P, q, Len(q))
  BY WholeSeq DEF Reach
<1>2. /\ nodes[k].is_dir = IsDirectory(q)
      /\ ~nodes[k].is_dir => /\ nodes[k].data = Max(Entries(q))
                             /\ nodes[k].size = archive[Max(Entries(q))].size
      /\ Named(q)
  BY <1>1, NodesAre
<1>3. ASSUME NEW r \in Prefixes(q) \ {q} PROVE IsDirectory(r)
  <2>1. PICK l \in 0..(Len(q) - 1) : r = SubSeq(q, 1, l)
    BY ProperPrefixes
  <2>2. l \in 0..Len(q)
    BY WholeSeq
  <2>3. Has(P, n, q)
    BY <1>1 DEF Has
  <2>4. Has(P, n, SubSeq(q, 1, l))
    BY <1>0, <2>2, <2>3, PrefixesExist
  <2>5. PICK j \in 0..(n - 1) : P[j] = SubSeq(q, 1, l)
    BY <2>4 DEF Has
  <2>6. nodes[j].is_dir
    BY <1>1, <2>5 DEF OpenTo
  <2>7. nodes[j].is_dir = IsDirectory(P[j])
    BY NodesAre
  <2> QED
    BY <2>1, <2>5, <2>6, <2>7
<1>4. Exists(q)
  BY <1>2, <1>3 DEF Exists
<1>5. /\ make_vfs_inode(k).is_dir = nodes[k].is_dir
      /\ make_vfs_inode(k).size = nodes[k].size
      /\ make_vfs_inode(k).at = nodes[k].data
  BY <1>0, InodeIs
<1> QED
  BY <1>2, <1>4, <1>5 DEF Matches

\* What the archive says exists has a node, and every directory above it is one.
LEMMA ExistingReached ==
    ASSUME NEW n, NEW P, archive \in Seq(Entry),
           Built(archive, Len(archive), capacity(archive), nodes, n, P),
           NodesNeeded <= capacity(archive), NEW q \in Seq(Name), Exists(q)
    PROVE  \E k \in 0..(n - 1) : Reach(n, P, q, Len(q), k)
<1> DEFINE a == archive
<1>0. Tree(nodes, n, P) /\ capacity(a) \in Nat
  BY CapacityIs DEF Built
<1>1. Named(q) /\ \A r \in Prefixes(q) \ {q} : IsDirectory(r)
  BY DEF Exists
<1>2. Has(P, n, q)
  <2>1. CASE q = << >>
    <3>1. n \in Nat \ {0} /\ P[0] = << >>
      BY <1>0 DEF Tree
    <3>2. 0 \in 0..(n - 1)
      BY <3>1
    <3> QED
      BY <2>1, <3>1, <3>2 DEF Has
  <2>2. ASSUME NEW j \in DOMAIN a, IsPrefix(q, components(a[j].path)) PROVE Has(P, n, q)
    <3> DEFINE s == Comps(a, j)
    <3>0. j \in 1..Len(a)
      OBVIOUS
    <3>1. s \in Seq(Name) /\ IsPrefix(q, s)
      BY <2>2, <3>0, CompsAre DEF Comps
    <3>2. Has(P, n, s)
      BY <1>0, <3>0, NoneMissing, NodesNeededIs
    <3> HIDE DEF s
    <3>3. q = SubSeq(s, 1, Len(q)) /\ Len(q) \in 0..Len(s)
      BY <3>1, PrefixIn
    <3>4. Has(P, n, SubSeq(s, 1, Len(q)))
      BY <1>0, <3>1, <3>2, <3>3, PrefixesExist
    <3> QED
      BY <3>3, <3>4
  <2> QED
    BY <1>1, <2>1, <2>2 DEF Named
<1>3. PICK k \in 0..(n - 1) : P[k] = q
  BY <1>2 DEF Has
<1>4. OpenTo(n, P, q, Len(q))
  <2>1. ASSUME NEW l \in 0..(Len(q) - 1), NEW j \in 0..(n - 1), P[j] = SubSeq(q, 1, l)
        PROVE  nodes[j].is_dir
    <3>1. SubSeq(q, 1, l) \in Prefixes(q) \ {q}
      BY ProperPrefixes
    <3>2. IsDirectory(P[j])
      BY <1>1, <2>1, <3>1
    <3>3. nodes[j].is_dir = IsDirectory(P[j])
      BY NodesAre
    <3> QED
      BY <3>2, <3>3
  <2> QED
    BY <2>1 DEF OpenTo
<1> QED
  BY <1>3, <1>4, WholeSeq DEF Reach

\* A path of the initrd leads to what the archive holds under it.
LEMMA LookupMatches ==
    ASSUME archive \in Seq(Entry), nodes = mount(archive),
           NEW path \in Seq(Name \cup {EMPTY}), resolve_mount(path).fs = "tar"
    PROVE  LET q == components(path)
               inode == target(path)
           IN  /\ inode # NULL => Matches(q, inode)
               /\ (EMPTY \notin ToSet(walked(path)) /\ NodesNeeded <= capacity(archive))
                    => (inode # NULL <=> Exists(q))
<1> DEFINE q == components(path)
           inode == target(path)
           s == walked(path)
           S == Name \cup {EMPTY}
<1>1. PICK n, P : Built(archive, Len(archive), capacity(archive), nodes, n, P)
  BY MountBuilt DEF IsBuilt
<1>2. Tree(nodes, n, P)
  BY <1>1 DEF Built
<1>3. s \in Seq(S) /\ \E t : Cut(path, s, t)
  BY WalkedCut
<1>4. inode = FoldLeft(lookup_step, make_vfs_inode(0), s)
  <2>1. resolve_mount(path) = [fs |-> "tar", rel |-> path]
    BY DEF resolve_mount
  <2>2. get_inode("tar", 0) = make_vfs_inode(0)
    BY DEF get_inode
  <2>3. resolve_mount(path).fs = "tar" /\ resolve_mount(path).rel = path
    BY <2>1
  <2> QED
    BY <2>2, <2>3 DEF target, lookup_path
<1>5. Found(n, P, s, Len(s), inode)
  BY <1>2, <1>3, <1>4, LookupFinds
<1>6. s \in Seq(Name) => s = q
  BY <1>3, CutIs
<1> HIDE DEF q, inode, s
<1>7. ASSUME NEW k \in 0..(n - 1), inode = make_vfs_inode(k), Reach(n, P, s, Len(s), k)
      PROVE  Matches(q, inode)
  <2>1. P[k] = s
    BY <1>3, <1>7, WholeSeq DEF Reach
  <2>2. s \in Seq(Name)
    BY <1>2, <2>1 DEF Tree
  <2>3. s = q
    BY <1>6, <2>2
  <2> QED
    BY <1>1, <1>7, <2>2, <2>3, FoundMatches
<1>8. inode # NULL => Matches(q, inode)
  BY <1>5, <1>7 DEF Found
<1>9. ASSUME EMPTY \notin ToSet(s), NodesNeeded <= capacity(archive)
      PROVE  inode # NULL <=> Exists(q)
  <2>1. s \in Seq(Name)
    <3>1. \A i \in 1..Len(s) : s[i] \in S /\ s[i] # EMPTY
      BY <1>3, <1>9 DEF ToSet
    <3>2. \A i \in 1..Len(s) : s[i] \in Name
      BY <3>1
    <3> HIDE DEF S
    <3>3. s = [i \in 1..Len(s) |-> s[i]] /\ Len(s) \in Nat
      BY <1>3
    <3> QED
      BY <3>2, <3>3, IsASeq
  <2>2. s = q /\ q \in Seq(Name)
    BY <1>6, <2>1
  <2>3. ASSUME Exists(q) PROVE inode # NULL
    <3>1. \E k \in 0..(n - 1) : Reach(n, P, q, Len(q), k)
      BY <1>1, <1>9, <2>2, <2>3, ExistingReached
    <3>2. PICK k \in 0..(n - 1) : inode = make_vfs_inode(k)
      BY <1>5, <2>2, <3>1 DEF Found
    <3> QED
      BY <1>2, <3>2, InodeIs
  <2>4. Matches(q, inode) => Exists(q)
    BY DEF Matches
  <2> QED
    BY <1>8, <2>3, <2>4
<1> QED
  BY <1>8, <1>9 DEF q, inode, s

MountInv == archive \in Archive /\ (nodes # NULL => nodes = mount(archive))

\* Only the mount and the clock are no call of a task.
LEMMA CallSteps ==
    ASSUME Next
    PROVE  \/ kernel_main \/ tick
           \/ Idle /\ ((archive \in Booted /\ nodes # NULL) \/ \E u \in Task : fds[u] # NULL)
<1>1. ASSUME NEW t \in Task, spawn(t) PROVE Idle /\ archive \in Booted /\ nodes # NULL
  BY <1>1 DEF spawn
<1>2. ASSUME NEW t \in Task, exit(t) \/ \E c \in Task : sys_fork(t, c)
      PROVE  Idle /\ fds[t] # NULL
  BY <1>2 DEF exit, sys_fork, Live
<1>3. ASSUME NEW t \in Task, NEW path \in Path, sys_openat(t, path) \/ query(t, path)
      PROVE  Idle /\ fds[t] # NULL
  BY <1>3 DEF sys_openat, query, Live
<1>4. ASSUME NEW t \in Task, NEW fd \in Fd, sys_close(t, fd) \/ sys_fstat(t, fd)
      PROVE  Idle /\ fds[t] # NULL
  BY <1>4 DEF sys_close, sys_fstat, Live
<1>5. ASSUME NEW t \in Task, NEW fd \in Fd, NEW len \in ReadLen, sys_read(t, fd, len)
      PROVE  Idle /\ fds[t] # NULL
  BY <1>5 DEF sys_read, Live
<1>6. ASSUME NEW t \in Task, NEW fd \in Fd, NEW count \in Count, sys_getdents64(t, fd, count)
      PROVE  Idle /\ fds[t] # NULL
  BY <1>6 DEF sys_getdents64, Live
<1>7. ASSUME NEW t \in Task, NEW fd \in Fd, NEW to \in SeekTo,
             NEW whence \in {"SEEK_SET", "SEEK_CUR", "SEEK_END"}, sys_lseek(t, fd, to, whence)
      PROVE  Idle /\ fds[t] # NULL
  BY <1>7 DEF sys_lseek, Live
<1> QED
  BY <1>1, <1>2, <1>3, <1>4, <1>5, <1>6, <1>7 DEF Next

\* Nothing changes the tree after the mount.
LEMMA MountStep == MountInv /\ [Next]_vars => MountInv'
<1> SUFFICES ASSUME MountInv, [Next]_vars PROVE MountInv'
  OBVIOUS
<1>1. CASE kernel_main
  BY <1>1 DEF kernel_main, MountInv
<1>2. CASE UNCHANGED <<archive, nodes>>
  BY <1>2 DEF MountInv
<1>3. ASSUME tick \/ Idle PROVE UNCHANGED <<archive, nodes>>
  BY <1>3 DEF tick, Idle
<1>4. CASE UNCHANGED vars
  BY <1>2, <1>4 DEF vars
<1> QED
  BY <1>1, <1>2, <1>3, <1>4, CallSteps

\* Whatever the archive and however its entries follow one another, open()
\* finds in the tree of mount() what the archive holds under a path, with the
\* size and content of the last entry of that name, and nothing else.
THEOREM LookupSafety == Spec => []LookupIsArchive
<1>1. Init => MountInv
  BY DEF Init, MountInv
<1>2. MountInv => LookupIsArchive
  <2> SUFFICES ASSUME MountInv, nodes # NULL, NEW path \in Path,
                      resolve_mount(path).fs = "tar"
               PROVE  LET q == components(path)
                          inode == target(path)
                      IN  /\ inode # NULL =>
                               /\ Exists(q) /\ inode.is_dir = IsDirectory(q)
                               /\ ~inode.is_dir => /\ inode.at = Max(Entries(q))
                                                   /\ inode.size = archive[inode.at].size
                          /\ (EMPTY \notin ToSet(walked(path)) /\ NodesNeeded <= capacity(archive))
                               => (inode # NULL <=> Exists(q))
    BY DEF LookupIsArchive
  <2>1. archive \in Seq(Entry) /\ nodes = mount(archive)
    BY FilesAssumption DEF MountInv
  <2>2. path \in Seq(Name \cup {EMPTY})
    BY FilesAssumption
  <2> QED
    BY <2>1, <2>2, LookupMatches DEF Matches
<1> QED
  BY <1>1, <1>2, MountStep, PTL DEF Spec

\* An inode of /proc lists its entries at the root and nothing elsewhere.
LEMMA ProcListIs ==
    ASSUME NEW i \in 0..Len(ProcName)
    PROVE  /\ proc_list(i) \in Seq(Dirent) /\ Len(proc_list(i)) <= Len(ProcName)
           /\ \A k \in 1..Len(proc_list(i)) : /\ proc_list(i)[k].ino = k
                                              /\ k \in 0..Len(ProcName)
<1> DEFINE list == [k \in DOMAIN ProcName |-> [ino |-> k, name |-> ProcName[k]]]
           n == Len(ProcName)
<1>0. n \in Nat /\ DOMAIN ProcName = 1..n /\ \A k \in 1..n : ProcName[k] \in Name
  BY FilesAssumption
<1>1. proc_list(i) = IF i = 0 THEN list ELSE << >>
  BY DEF proc_list
<1>2. \A k \in 1..n : list[k] = [ino |-> k, name |-> ProcName[k]]
  BY <1>0
<1>3. \A k \in 1..n : [ino |-> k, name |-> ProcName[k]] \in Dirent
  BY <1>0 DEF Dirent
<1>4. list = [k \in 1..n |-> list[k]] /\ \A k \in 1..n : list[k] \in Dirent
  BY <1>0, <1>2, <1>3
<1> HIDE DEF list, n
<1>5. list \in Seq(Dirent)
  BY <1>0, <1>4, IsASeq
<1>6. DOMAIN list = 1..n
  BY <1>4
<1>7. Len(list) = n
  BY <1>0, <1>5, <1>6, LenProperties
<1>8. ASSUME NEW k \in 1..n PROVE list[k].ino = k /\ k \in 0..n
  <2>1. list[k] = [ino |-> k, name |-> ProcName[k]]
    BY <1>2
  <2>2. k \in 0..n
    BY <1>0
  <2> QED
    BY <2>1, <2>2
<1>9. << >> \in Seq(Dirent) /\ Len(<< >>) = 0
  OBVIOUS
<1>10. CASE i = 0
  BY <1>0, <1>1, <1>5, <1>7, <1>8, <1>10 DEF n
<1>11. CASE i # 0
  BY <1>0, <1>1, <1>9, <1>11 DEF n
<1> QED
  BY <1>10, <1>11

\* make_inode() makes inodes of /proc.
LEMMA ProcInodeIs ==
    ASSUME now \in Time, NEW i \in 0..Len(ProcName), Len(ProcName) <= MAX_ENTRIES
    PROVE  /\ make_inode(i).fs = "proc" /\ make_inode(i).ino = i
           /\ listing(make_inode(i)) = proc_list(i) /\ WholeInode(make_inode(i))
<1>1. make_inode(i).fs = "proc" /\ make_inode(i).ino = i
  BY DEF make_inode
<1>2. listing(make_inode(i)) = proc_list(i)
  BY <1>1 DEF listing
<1>3. make_inode(i).size \in Nat
  BY FilesAssumption DEF make_inode
<1>4. proc_list(i) \in Seq(Dirent) /\ Len(proc_list(i)) <= MAX_ENTRIES
  <2>1. proc_list(i) \in Seq(Dirent) /\ Len(proc_list(i)) <= Len(ProcName)
    BY ProcListIs
  <2>2. Len(proc_list(i)) \in Nat /\ Len(ProcName) \in Nat /\ MAX_ENTRIES \in Nat
    BY <2>1, FilesAssumption
  <2> QED
    BY <2>1, <2>2
<1> QED
  BY <1>1, <1>2, <1>3, <1>4 DEF WholeInode

\* The path walk in /proc stays there.
LEMMA ProcStep ==
    ASSUME now \in Time, Len(ProcName) <= MAX_ENTRIES, NEW i \in 0..Len(ProcName), NEW c
    PROVE  \/ lookup_step(make_inode(i), c) = NULL
           \/ \E k \in 0..Len(ProcName) : lookup_step(make_inode(i), c) = make_inode(k)
<1> DEFINE list == proc_list(i)
           v == lookup_step(make_inode(i), c)
           I == {k \in 1..Len(list) : list[k].name = c}
<1>1. CASE make_inode(i) = NULL
  BY <1>1 DEF lookup_step
<1>2. CASE make_inode(i) # NULL
  <2>1. make_inode(i).fs = "proc" /\ listing(make_inode(i)) = list
    BY ProcInodeIs
  <2>2. list \in Seq(Dirent) /\ \A k \in 1..Len(list) : list[k].ino = k /\ k \in 0..Len(ProcName)
    BY ProcListIs
  <2>3. read_chunks(list) = list
    BY <2>2, ChunksAreWhole
  <2>4. \A k : get_inode(make_inode(i).fs, k) = make_inode(k)
    BY <2>1 DEF get_inode
  <2>5. v = LET at == SelectInSeq(read_chunks(listing(make_inode(i))), LAMBDA d : d.name = c)
            IN  IF at = 0 THEN NULL
                ELSE get_inode(make_inode(i).fs, read_chunks(listing(make_inode(i)))[at].ino)
    BY <1>2 DEF lookup_step
  <2> HIDE DEF v, list
  <2>6. v = LET at == SelectInSeq(list, LAMBDA d : d.name = c)
            IN  IF at = 0 THEN NULL ELSE make_inode(list[at].ino)
    BY <2>1, <2>3, <2>4, <2>5
  <2>7. v = LET at == IF I # {} THEN Min(I) ELSE 0
            IN  IF at = 0 THEN NULL ELSE make_inode(list[at].ino)
    BY <2>6 DEF SelectInSeq
  <2>8. CASE I = {}
    BY <2>7, <2>8 DEF v
  <2>9. CASE I # {}
    <3>1. I \subseteq Nat
      OBVIOUS
    <3>2. Min(I) \in I
      <4> HIDE DEF I
      <4> QED
        BY <2>9, <3>1, MinIsLeast
    <3> DEFINE k == Min(I)
    <3>3. k \in 1..Len(list)
      BY <3>2
    <3>4. k # 0
      BY <3>3
    <3>5. v = make_inode(list[k].ino)
      <4> HIDE DEF I
      <4> QED
        BY <2>7, <2>9, <3>4
    <3> HIDE DEF k
    <3>6. list[k].ino = k /\ k \in 0..Len(ProcName)
      BY <2>2, <3>3
    <3> QED
      BY <3>5, <3>6 DEF v
  <2> QED
    BY <2>8, <2>9
<1> QED
  BY <1>1, <1>2

\* What the path walk finds in /proc can be listed ...
LEMMA ProcLookups ==
    ASSUME now \in Time, Len(ProcName) <= MAX_ENTRIES, NEW rel \in Seq(Name \cup {EMPTY})
    PROVE  LET v == lookup_path("proc", rel) IN v # NULL => WholeInode(v)
<1> DEFINE V == {make_inode(k) : k \in 0..Len(ProcName)} \cup {NULL}
           start == make_inode(0)
           s == walked(rel)
           S == Name \cup {EMPTY}
<1>0. Len(ProcName) \in Nat
  BY FilesAssumption
<1>1. start \in V
  BY <1>0
<1>2. s \in Seq(S)
  BY WalkedCut
<1>3. ASSUME NEW v \in V, NEW c \in S PROVE lookup_step(v, c) \in V
  <2>1. CASE v = NULL
    BY <2>1 DEF lookup_step
  <2>2. ASSUME NEW k \in 0..Len(ProcName), v = make_inode(k) PROVE lookup_step(v, c) \in V
    BY <2>2, ProcStep
  <2> QED
    BY <2>1, <2>2
<1>4. lookup_path("proc", rel) = FoldLeft(lookup_step, start, s)
  BY DEF lookup_path, get_inode
<1>5. \A v \in V : v # NULL => WholeInode(v)
  BY ProcInodeIs
<1> HIDE DEF V, start, s, S
<1>6. Followed(V, start, s)
  <2>1. \A v \in V, c \in S : lookup_step(v, c) \in V
    BY <1>3
  <2> QED
    BY <1>1, <1>2, <2>1, LookupFold
<1>7. FoldLeft(lookup_step, start, s) \in V
  <2>1. PICK g \in [0..Len(s) -> V] : FoldLeft(lookup_step, start, s) = g[Len(s)]
    BY <1>6 DEF Followed
  <2>2. Len(s) \in 0..Len(s)
    BY <1>2
  <2> QED
    BY <2>1, <2>2
<1> QED
  BY <1>4, <1>5, <1>7

\* ... and so can what it finds in the initrd.
LEMMA TarLookups ==
    ASSUME archive \in Booted, nodes = mount(archive), DirectoriesFit,
           NEW rel \in Seq(Name \cup {EMPTY})
    PROVE  LET v == lookup_path("tar", rel) IN v # NULL => WholeInode(v)
<1> DEFINE s == walked(rel)
           v == lookup_path("tar", rel)
<1>0. archive \in Seq(Entry)
  BY FilesAssumption
<1>1. PICK n, P : Tree(nodes, n, P)
  BY <1>0, MountBuilt DEF IsBuilt, Built
<1>2. s \in Seq(Name \cup {EMPTY})
  BY WalkedCut
<1>3. v = FoldLeft(lookup_step, make_vfs_inode(0), s)
  BY DEF lookup_path, get_inode
<1>4. Found(n, P, s, Len(s), v)
  BY <1>1, <1>2, <1>3, LookupFinds
<1> HIDE DEF v, s
<1>5. ASSUME NEW k \in 0..(n - 1), v = make_vfs_inode(k) PROVE WholeInode(v)
  <2>1. v.fs = "tar" /\ v.ino = k /\ v \in Inode
    BY <1>1, <1>5, InodeIs
  <2>2. listing(v) = tar_list(nodes, k)
    BY <2>1 DEF listing
  <2>3. tar_list(nodes, k) \in Seq(Dirent)
    BY <1>1, TarListIs
  <2>4. k \in DOMAIN nodes
    BY <1>1 DEF Tree
  <2>5. Len(tar_list(nodes, k)) <= MAX_ENTRIES
    BY <2>4 DEF DirectoriesFit
  <2>6. v.size \in Nat
    BY <2>1 DEF Inode
  <2> QED
    BY <2>2, <2>3, <2>5, <2>6 DEF WholeInode
<1> QED
  BY <1>4, <1>5 DEF Found, v

\* Programs run on one of the archives meant for them.
BootInv == /\ MountInv /\ now \in Time
           /\ \A t \in Task : fds[t] # NULL => archive \in Booted /\ nodes # NULL

\* Programs open nothing that cannot be listed.
LEMMA BootWhole ==
    ASSUME DirectoriesFit
    PROVE  BootInv => LookupsAreWhole
<1> SUFFICES ASSUME BootInv, NEW t \in Task, fds[t] # NULL, NEW path \in Path, target(path) # NULL
             PROVE  WholeInode(target(path))
  BY DEF LookupsAreWhole
<1>1. archive \in Booted /\ nodes = mount(archive) /\ now \in Time
  BY DEF BootInv, MountInv
<1>2. path \in Seq(Name \cup {EMPTY}) /\ Len(ProcName) <= MAX_ENTRIES
  BY FilesAssumption DEF DirectoriesFit
<1>3. CASE path # << >> /\ path[1] = PROC
  <2>1. Tail(path) \in Seq(Name \cup {EMPTY})
    BY <1>2, <1>3
  <2>2. target(path) = lookup_path("proc", Tail(path))
    BY <1>3 DEF target, resolve_mount
  <2> QED
    BY <1>1, <1>2, <2>1, <2>2, ProcLookups
<1>4. CASE ~(path # << >> /\ path[1] = PROC)
  <2>1. target(path) = lookup_path("tar", path)
    BY <1>4 DEF target, resolve_mount
  <2> QED
    BY <1>1, <1>2, <2>1, TarLookups
<1> QED
  BY <1>3, <1>4

\* Nothing runs at first.
LEMMA BootInit == Init => BootInv
<1>1. 0 \in Time
  BY FilesAssumption DEF Time
<1> QED
  BY <1>1 DEF Init, BootInv, MountInv

\* A task is spawned on a mounted initrd or forked from one that was.
LEMMA BootStep == BootInv /\ [Next]_vars => BootInv'
<1> SUFFICES ASSUME BootInv, [Next]_vars PROVE BootInv'
  OBVIOUS
<1>1. MountInv'
  BY MountStep DEF BootInv
<1>2. /\ now \in Time
      /\ \A t \in Task : fds[t] # NULL => archive \in Booted /\ nodes # NULL
  BY DEF BootInv
<1>3. CASE kernel_main
  <2>1. UNCHANGED <<archive, fds, now>> /\ nodes = NULL
    BY <1>3 DEF kernel_main
  <2> QED
    BY <1>1, <1>2, <2>1 DEF BootInv
<1>4. CASE tick
  <2>1. UNCHANGED <<archive, nodes, fds>> /\ now' = now + 1 /\ now < MaxNow
    BY <1>4 DEF tick
  <2>2. now' \in Time
    BY <1>2, <2>1, FilesAssumption DEF Time
  <2> QED
    BY <1>1, <1>2, <2>1, <2>2 DEF BootInv
<1>5. CASE Idle /\ ((archive \in Booted /\ nodes # NULL) \/ \E u \in Task : fds[u] # NULL)
  <2>1. UNCHANGED <<archive, nodes, now>> /\ archive \in Booted /\ nodes # NULL
    BY <1>2, <1>5 DEF Idle
  <2> QED
    BY <1>1, <1>2, <2>1 DEF BootInv
<1>6. CASE UNCHANGED vars
  <2>1. UNCHANGED <<archive, nodes, fds, now>>
    BY <1>6 DEF vars
  <2> QED
    BY <1>1, <1>2, <2>1 DEF BootInv
<1> QED
  BY <1>3, <1>4, <1>5, <1>6, CallSteps

\* Files implements Descriptors: whatever open(), close(), fork(), read(),
\* getdents64() and lseek() do in any order, a program sees a table of
\* descriptions that fork() shares, each with a position that only its own
\* calls move, over inodes that list a directory once and in order, names of
\* NAME_SIZE bytes and more cut.  Neither the reuse of freed Files, the chunks
\* readdir() pages in nor the clock of /proc shows.  It needs that no shared
\* File is closed, and that no directory has more entries than the MAX_ENTRIES
\* getdents64() collects.
THEOREM DescriptorRefinement ==
    ASSUME NullIsNoFile, TRUE \notin SharedClose, DirectoriesFit
    PROVE  Spec => ImplementsDescriptors
<1>1. RefInv /\ LookupsAreWhole /\ [Next]_vars => RefInv'
  BY RefStep
<1>2. RefInv /\ RefInv' /\ [Next]_vars => [D!Next]_<<Tab, Desc, ret>>
  BY StepMaps
<1>3. BootInv => LookupsAreWhole
  BY BootWhole
<1> QED
  BY <1>1, <1>2, <1>3, BootInit, BootStep, InitMaps, PTL DEF Spec, ImplementsDescriptors, D!Spec

=============================================================================
