------------------------------- MODULE Files -------------------------------
(***************************************************************************)
(* Open files: the path walk and vfs::File objects of fs/vfs.cpp over the  *)
(* initrd (Tarfs) and /proc (fs/procfs.cpp), and the descriptor table each *)
(* task keeps for the system calls of cpu/syscall.cpp.                     *)
(*                                                                         *)
(* A File is a block of the kernel heap; kmalloc() may hand out any block  *)
(* that is free (Allocator).  Inodes are never freed and never change, so  *)
(* one is the record of what make_vfs_inode() put into it.  Every call     *)
(* runs with interrupts masked and is one step.  Paths are absolute.       *)
(***************************************************************************)
EXTENDS Tarfs

CONSTANTS
    Task, NULL,
    Block,          \* heap blocks for File objects
    MAX_FDS,        \* 16
    MAX_ENTRIES,    \* 32, in getdents64()
    NAME_SIZE,      \* 48, the name's buffer in getdents64()'s Ent
    Shortened,      \* a name's first NAME_SIZE - 1 bytes
    PROC,           \* the mount prefix "/proc"
    ProcName,       \* ENTRIES of procfs.cpp
    ProcLen,        \* length of a rendering made at each time
    Archive,        \* the initrds to boot from
    Booted,         \* bound: the ones on which programs run
    Path,           \* what programs open
    ReadLen, Count, SeekTo,  \* arguments of read(), getdents64(), lseek()
    SharedClose,    \* may a program close what another task has open too?
    MaxNow, MaxCalls   \* bounds: clock, system calls

Fd == 3..(MAX_FDS - 1)
Time == 0..MaxNow

\* An entry of an archive, and the inode made of one.
Entry == [path : Seq(Name \cup {EMPTY}), is_dir : BOOLEAN, size : Nat]
Inode == [fs : {"tar", "proc"}, ino : Nat, is_dir : BOOLEAN, size : Nat, at : Nat]

ASSUME FilesAssumption ==
    /\ MAX_FDS \in Nat /\ MAX_FDS > 3 /\ MAX_ENTRIES \in Nat \ {0}
    /\ PROC \in Name /\ ProcName \in Seq(Name) /\ ProcLen \in [Time -> Nat \ {0}]
    /\ Archive \subseteq Seq(Entry) /\ Booted \subseteq Archive
    /\ Path \subseteq Seq(Name \cup {EMPTY}) /\ SharedClose \subseteq BOOLEAN
    /\ NULL \notin Block \cup Int \cup Inode
    /\ NULL \notin [Fd -> Block \cup {NULL}] \cup [Fd -> Int \cup {NULL}]
    /\ ReadLen \subseteq Nat \ {0} /\ Count \subseteq Nat /\ SeekTo \subseteq Int
    /\ {MaxNow, MaxCalls} \subseteq Nat

\* getdents64() cuts a name that does not fit its buffer.
ASSUME NamesAssumption ==
    /\ NAME_SIZE \in Nat /\ NAME_SIZE > 1 /\ Shortened \in [Name -> Name]
    /\ \A n \in Name : IF NameLen[n] < NAME_SIZE THEN Shortened[n] = n
                       ELSE NameLen[Shortened[n]] = NAME_SIZE - 1

VARIABLES
    archive,   \* the Multiboot module
    nodes,     \* the mounted tree, NULL before vfs::root_sb is set
    file,      \* the File in each heap block, NULL when the block is free
    fds,       \* each task's descriptor table, NULL for no task
    now,       \* uptime
    ret,       \* what the last call returned
    opened,    \* ghost: Files created so far, which numbers them
    lost,      \* ghost: Files whose last descriptor went with its task
    calls

vars == <<archive, nodes, file, fds, now, ret, opened, lost, calls>>

Live == {t \in Task : fds[t] # NULL}
Holders(b) == {t \in Live : \E fd \in Fd : fds[t][fd] = b}

----------------------------------------------------------------------------
(* Inodes and paths *)

make_vfs_inode(i) ==
    [fs |-> "tar", ino |-> i, is_dir |-> nodes[i].is_dir, size |-> nodes[i].size,
     at |-> nodes[i].data]

\* The content of a /proc file is rendered when its inode is made.
make_inode(i) ==
    IF i = 0 THEN [fs |-> "proc", ino |-> 0, is_dir |-> TRUE, size |-> 0, at |-> 0]
    ELSE [fs |-> "proc", ino |-> i, is_dir |-> FALSE, size |-> ProcLen[now], at |-> now]

get_inode(fs, i) == IF fs = "proc" THEN make_inode(i) ELSE make_vfs_inode(i)

proc_list(i) ==
    IF i = 0 THEN [k \in DOMAIN ProcName |-> [ino |-> k, name |-> ProcName[k]]] ELSE << >>

listing(inode) ==
    IF inode.fs = "proc" THEN proc_list(inode.ino) ELSE tar_list(nodes, inode.ino)

resolve_mount(path) ==
    IF path # << >> /\ path[1] = PROC
    THEN [fs |-> "proc", rel |-> Tail(path)]
    ELSE [fs |-> "tar", rel |-> path]

\* Slashes at the start are skipped, and one after each component.
walked(rel) ==
    LET named == {i \in DOMAIN rel : rel[i] # EMPTY}
        rest == IF named = {} THEN << >> ELSE SubSeq(rel, Min(named), Len(rel))
    IN  IF rest # << >> /\ Last(rest) = EMPTY THEN Front(rest) ELSE rest

lookup_step(inode, component) ==
    IF inode = NULL THEN NULL
    ELSE LET list == read_chunks(listing(inode))
             at == SelectInSeq(list, LAMBDA d : d.name = component)
         IN  IF at = 0 THEN NULL ELSE get_inode(inode.fs, list[at].ino)

lookup_path(fs, rel) == FoldLeft(lookup_step, get_inode(fs, 0), walked(rel))

\* The inode open() puts into its File, NULL when it returns nullptr.
target(path) == lookup_path(resolve_mount(path).fs, resolve_mount(path).rel)

----------------------------------------------------------------------------
(* Descriptors *)

FreeFds(t) == {fd \in Fd : fds[t][fd] = NULL}

\* The first free slot, NULL for EMFILE.
alloc_fd(t) == IF FreeFds(t) = {} THEN NULL ELSE Min(FreeFds(t))

\* The File behind a descriptor, NULL for EBADF.
real_file(t, fd) == IF fd \in Fd THEN fds[t][fd] ELSE NULL

Call == calls < MaxCalls /\ calls' = calls + 1
Fails(e) == ret' = [err |-> e]
Idle == UNCHANGED <<archive, nodes, now>>

kernel_main ==
    /\ nodes = NULL
    /\ nodes' = mount(archive)
    /\ UNCHANGED <<archive, file, fds, now, ret, opened, lost, calls>>

tick ==
    /\ archive \in Booted /\ nodes # NULL /\ now < MaxNow
    /\ now' = now + 1
    /\ UNCHANGED <<archive, nodes, file, fds, ret, opened, lost, calls>>

spawn(t) ==
    /\ archive \in Booted /\ nodes # NULL
    /\ t \notin Live /\ Call
    /\ fds' = [fds EXCEPT ![t] = [fd \in Fd |-> NULL]]
    /\ Idle /\ UNCHANGED <<file, ret, opened, lost>>

sys_fork(t, c) ==
    /\ t \in Live /\ c \notin Live /\ Call
    /\ fds' = [fds EXCEPT ![c] = fds[t]]
    /\ Idle /\ UNCHANGED <<file, ret, opened, lost>>

\* free_task() frees the table and not the Files in it.
exit(t) ==
    /\ t \in Live /\ Call
    /\ fds' = [fds EXCEPT ![t] = NULL]
    /\ lost' = lost \cup {b \in Block : Holders(b) = {t}}
    /\ Idle /\ UNCHANGED <<file, ret, opened>>

NewFile(inode) == [inode |-> inode, offset |-> 0, id |-> opened]

\* Mutant: the File stays allocated when there is no slot.
keep_anyway(fd, f) == f

\* What is left of the new File f in block b: kfree()d when there is no slot.
keep_or_free(fd, f) == IF fd = NULL THEN NULL ELSE f

sys_openat(t, path) ==
    /\ t \in Live /\ Call
    /\ IF target(path) = NULL
       THEN Fails("ENOENT") /\ UNCHANGED <<file, fds, opened>>
       ELSE \E b \in {c \in Block : file[c] = NULL} :
              LET fd == alloc_fd(t) IN
              /\ file' = [file EXCEPT ![b] = keep_or_free(fd, NewFile(target(path)))]
              /\ opened' = opened + 1
              /\ IF fd = NULL THEN Fails("EMFILE") /\ UNCHANGED fds
                 ELSE ret' = [fd |-> fd] /\ fds' = [fds EXCEPT ![t][fd] = b]
    /\ Idle /\ UNCHANGED lost

\* stat(), access(), readlink(), and elf::load() before it reads the image: a
\* File is opened and freed.
query(t, path) ==
    /\ t \in Live /\ Call
    /\ target(path) # NULL => \E b \in Block : file[b] = NULL
    /\ ret' = [known |-> target(path) # NULL]
    /\ Idle /\ UNCHANGED <<file, fds, opened, lost>>

\* Mutant: the freed File stays in the table.
table_not_cleared(t, fd) == fds

table_after_close(t, fd) == [fds EXCEPT ![t][fd] = NULL]

sys_close(t, fd) ==
    /\ t \in Live /\ Call
    /\ real_file(t, fd) # NULL /\ TRUE \notin SharedClose => Holders(real_file(t, fd)) = {t}
    /\ IF real_file(t, fd) = NULL
       THEN Fails("EBADF") /\ UNCHANGED <<file, fds>>
       ELSE /\ file' = [file EXCEPT ![real_file(t, fd)] = NULL]
            /\ fds' = table_after_close(t, fd)
            /\ ret' = [n |-> 0]
    /\ Idle /\ UNCHANGED <<opened, lost>>

\* f->offset becomes p.
set_offset(b, p) == file' = [file EXCEPT ![b].offset = p]

\* tar_read() and proc_read(): how much of `len` bytes there is at an offset.
\* The sum is u64 in the code; no buffer is long enough to make it wrap.
bytes_read(f, len) ==
    IF f.offset >= f.inode.size THEN 0
    ELSE IF f.offset + len > f.inode.size THEN f.inode.size - f.offset ELSE len

sys_read(t, fd, len) ==
    /\ t \in Live /\ Call
    /\ LET b == real_file(t, fd) IN
         CASE b = NULL -> Fails("EBADF") /\ UNCHANGED file
           [] b # NULL /\ file[b].inode.is_dir -> Fails("EIO") /\ UNCHANGED file
           [] OTHER ->
                /\ set_offset(b, file[b].offset + bytes_read(file[b], len))
                /\ ret' = [at |-> file[b].inode.at, from |-> file[b].offset,
                           n |-> bytes_read(file[b], len)]
    /\ Idle /\ UNCHANGED <<fds, opened, lost>>

\* Bytes of a linux_dirent64: 19, the name and its NUL, 8-aligned.
reclen(d) == ((19 + NameLen[d.name] + 1 + 7) \div 8) * 8
total_reclen(list) == FoldLeft(LAMBDA n, d : n + reclen(d), 0, list)

\* Entries as getdents64() keeps them: names that fill their buffer are cut.
shown(list) ==
    [k \in DOMAIN list |-> [ino |-> list[k].ino, name |-> Shortened[list[k].name]]]

\* getdents64() collects at most MAX_ENTRIES entries of the directory ...
collected(inode) ==
    LET all == read_chunks(listing(inode))
    IN  shown(SubSeq(all, 1, IF Len(all) < MAX_ENTRIES THEN Len(all) ELSE MAX_ENTRIES))

\* Mutant: the listing starts again with every call.
emitted_from_start(f, count) ==
    LET rest == collected(f.inode)
    IN  SubSeq(rest, 1, Max({k \in 0..Len(rest) :
                               total_reclen(SubSeq(rest, 1, k)) <= count}))

\* ... and gives out those from index f->offset on that fit.
emitted(f, count) ==
    LET rest == SubSeq(collected(f.inode), f.offset + 1, Len(collected(f.inode)))
    IN  SubSeq(rest, 1, Max({k \in 0..Len(rest) :
                               total_reclen(SubSeq(rest, 1, k)) <= count}))

sys_getdents64(t, fd, count) ==
    /\ t \in Live /\ Call
    /\ LET b == real_file(t, fd) IN
         CASE b = NULL -> Fails("EBADF") /\ UNCHANGED file
           [] b # NULL /\ ~file[b].inode.is_dir -> Fails("EINVAL") /\ UNCHANGED file
           [] OTHER ->
                /\ set_offset(b, file[b].offset + Len(emitted(file[b], count)))
                /\ ret' = [names |-> emitted(file[b], count), count |-> count]
    /\ Idle /\ UNCHANGED <<fds, opened, lost>>

seek_base(f, whence) ==
    CASE whence = "SEEK_SET" -> 0
      [] whence = "SEEK_CUR" -> f.offset
      [] whence = "SEEK_END" -> f.inode.size

sys_lseek(t, fd, offset, whence) ==
    /\ t \in Live /\ Call
    /\ LET b == real_file(t, fd)
           result == seek_base(file[b], whence) + offset
       IN  CASE b = NULL -> Fails("EBADF") /\ UNCHANGED file
             [] b # NULL /\ result < 0 -> Fails("EINVAL") /\ UNCHANGED file
             [] OTHER -> set_offset(b, result) /\ ret' = [pos |-> result]
    /\ Idle /\ UNCHANGED <<fds, opened, lost>>

sys_fstat(t, fd) ==
    /\ t \in Live /\ Call
    /\ LET b == real_file(t, fd) IN
         IF b = NULL THEN Fails("EBADF")
         ELSE ret' = [is_dir |-> file[b].inode.is_dir, size |-> file[b].inode.size]
    /\ Idle /\ UNCHANGED <<file, fds, opened, lost>>

Init ==
    /\ archive \in Archive
    /\ nodes = NULL
    /\ file = [b \in Block |-> NULL]
    /\ fds = [t \in Task |-> NULL]
    /\ now = 0 /\ ret = [n |-> 0] /\ opened = 0 /\ lost = {} /\ calls = 0

Next ==
    \/ kernel_main \/ tick
    \/ \E t \in Task :
         \/ spawn(t) \/ exit(t)
         \/ \E c \in Task : sys_fork(t, c)
         \/ \E path \in Path : sys_openat(t, path) \/ query(t, path)
         \/ \E fd \in Fd :
              \/ sys_close(t, fd) \/ sys_fstat(t, fd)
              \/ \E len \in ReadLen : sys_read(t, fd, len)
              \/ \E count \in Count : sys_getdents64(t, fd, count)
              \/ \E to \in SeekTo, whence \in {"SEEK_SET", "SEEK_CUR", "SEEK_END"} :
                   sys_lseek(t, fd, to, whence)

Spec == Init /\ [][Next]_vars

----------------------------------------------------------------------------
(* Properties *)

\* What the archive says of the directory or file named by components q: the
\* last entry for it counts, a directory that is only part of other names
\* exists, nothing exists below a file.
Entries(q) == {i \in DOMAIN archive : components(archive[i].path) = q}
IsDirectory(q) == q = << >> \/ Entries(q) = {} \/ archive[Max(Entries(q))].is_dir
Named(q) == q = << >> \/ \E i \in DOMAIN archive : IsPrefix(q, components(archive[i].path))
Exists(q) == Named(q) /\ \A r \in Prefixes(q) \ {q} : IsDirectory(r)
NodesNeeded ==
    Cardinality({<< >>} \cup UNION {Prefixes(components(archive[i].path)) : i \in DOMAIN archive})

\* After mount() has built the tree out of entries in any order, some of them
\* replacing others, and readdir() has cut directories into chunks, open()
\* finds what the archive holds under a path, with its size and content, and
\* nothing else.  An archive too deep for the node table loses entries only.
LookupIsArchive ==
    nodes # NULL => \A path \in Path :
        LET q == components(path)
            inode == target(path)
        IN  resolve_mount(path).fs = "tar" =>
              /\ inode # NULL =>
                   /\ Exists(q) /\ inode.is_dir = IsDirectory(q)
                   /\ ~inode.is_dir => /\ inode.at = Max(Entries(q))
                                       /\ inode.size = archive[inode.at].size
              /\ (EMPTY \notin ToSet(walked(path)) /\ NodesNeeded <= capacity(archive))
                   => (inode # NULL <=> Exists(q))

\* An open descriptor points at a File that is still allocated; fork() has
\* copied the pointer without a reference count.
DescriptorsAreLive ==
    \A t \in Live : \A fd \in Fd : fds[t][fd] # NULL => file[fds[t][fd]] # NULL

\* A File that no descriptor names is free again: open() into a full table and
\* close() give it back; only a task that exits with it open loses it.
FilesAreHeld ==
    \A b \in Block : file[b] # NULL => Holders(b) # {} \/ b \in lost

============================================================================
