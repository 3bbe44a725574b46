---------------------------- MODULE Descriptors ----------------------------
(***************************************************************************)
(* What a program may expect of its file descriptors: each one names an    *)
(* open file description of its own, with a position that reads advance,   *)
(* and which only the descriptors copied from it by fork() share.          *)
(* `tab` maps a task's descriptors to descriptions, `desc` the             *)
(* descriptions in use to [inode, pos], `ret` is what the last call gave   *)
(* back.  An inode is [is_dir, size, at, list]: its content is `at`, a     *)
(* directory's entries are `list`.                                         *)
(***************************************************************************)
EXTENDS Naturals, Sequences, SequencesExt, Functions

CONSTANTS Task, NULL, Fd,
          Fits(_, _)   \* does an entry fit a getdents64() buffer of this size?

VARIABLES tab, desc, ret

Live == {t \in Task : tab[t] # NULL}
OpenFds(t) == {fd \in Fd : tab[t][fd] # NULL}
Held(T) == (UNION {{T[t][fd] : fd \in Fd} : t \in {u \in Task : T[u] # NULL}}) \ {NULL}

\* Descriptions live as long as a descriptor names them.
SetTab(T) == tab' = T /\ desc' = Restrict(desc, Held(T) \cap DOMAIN desc)

Error(e) == ret' = [err |-> e] /\ UNCHANGED <<tab, desc>>

Init == tab = [t \in Task |-> NULL] /\ desc = << >> /\ ret = [n |-> 0]

Start(t) ==
    /\ t \notin Live
    /\ tab' = [tab EXCEPT ![t] = [fd \in Fd |-> NULL]]
    /\ UNCHANGED <<desc, ret>>

Exit(t) == t \in Live /\ SetTab([tab EXCEPT ![t] = NULL]) /\ ret' = ret

Fork(t, c) ==
    /\ t \in Live /\ c \notin Live
    /\ tab' = [tab EXCEPT ![c] = tab[t]] /\ UNCHANGED <<desc, ret>>

\* The lowest free descriptor names a new description, at the file's start.
Open(t) ==
    /\ t \in Live
    /\ \E fd \in Fd \ OpenFds(t) :
         /\ \A g \in Fd \ OpenFds(t) : fd <= g
         /\ tab'[t][fd] \notin DOMAIN desc \cup {NULL}
         /\ tab' = [tab EXCEPT ![t][fd] = tab'[t][fd]]
         /\ DOMAIN desc' = DOMAIN desc \cup {tab'[t][fd]}
         /\ Restrict(desc', DOMAIN desc) = desc
         /\ desc'[tab'[t][fd]].pos = 0
         /\ ret' = [fd |-> fd]

\* A path that names nothing, or a full table.
OpenFails(t) == t \in Live /\ (Error("ENOENT") \/ (OpenFds(t) = Fd /\ Error("EMFILE")))

Close(t, fd) ==
    /\ fd \in OpenFds(t) /\ SetTab([tab EXCEPT ![t][fd] = NULL])
    /\ ret' = [n |-> 0]

\* A descriptor that is not open.
BadFd(t) == t \in Live /\ OpenFds(t) # Fd /\ Error("EBADF")

\* The description's position moves to p and nothing else changes.
MoveTo(id, p) == desc' = [desc EXCEPT ![id].pos = p] /\ tab' = tab

\* n bytes of the content from the old position on; none at the end only.
Read(t, fd) ==
    /\ fd \in OpenFds(t)
    /\ LET d == desc[tab[t][fd]] IN
         \/ d.inode.is_dir /\ Error("EIO")
         \/ \E n \in 0..d.inode.size :
              /\ ~d.inode.is_dir
              /\ IF n = 0 THEN d.pos >= d.inode.size ELSE d.pos + n <= d.inode.size
              /\ MoveTo(tab[t][fd], d.pos + n)
              /\ ret' = [at |-> d.inode.at, from |-> d.pos, n |-> n]

\* The next entries, as many as fit: nothing is listed twice or left out.
Getdents(t, fd) ==
    /\ fd \in OpenFds(t)
    /\ LET d == desc[tab[t][fd]]
           rest == SubSeq(d.inode.list, d.pos + 1, Len(d.inode.list))
       IN  \/ ~d.inode.is_dir /\ Error("EINVAL")
           \/ \E k \in 0..Len(rest) :
                /\ d.inode.is_dir
                /\ "count" \in DOMAIN ret'
                /\ k = 0 /\ rest # << >> => ~Fits(rest[1], ret'.count)
                /\ MoveTo(tab[t][fd], d.pos + k)
                /\ ret' = [names |-> SubSeq(rest, 1, k), count |-> ret'.count]

Seek(t, fd) ==
    /\ fd \in OpenFds(t)
    /\ \/ Error("EINVAL")
       \/ /\ MoveTo(tab[t][fd], desc'[tab[t][fd]].pos)
          /\ ret' = [pos |-> desc'[tab[t][fd]].pos]

Stat(t, fd) ==
    /\ fd \in OpenFds(t) /\ UNCHANGED <<tab, desc>>
    /\ ret' = [is_dir |-> desc[tab[t][fd]].inode.is_dir,
               size |-> desc[tab[t][fd]].inode.size]

\* stat(path), access(), readlink(): an answer, and no descriptor changes.
Query(t) ==
    /\ t \in Live /\ UNCHANGED <<tab, desc>>
    /\ ret' \in [known : BOOLEAN]

Next ==
    \/ \E t \in Task : Start(t) \/ Exit(t) \/ Open(t) \/ OpenFails(t) \/ BadFd(t) \/ Query(t)
    \/ \E t, c \in Task : Fork(t, c)
    \/ \E t \in Task, fd \in Fd :
         t \in Live /\ (Close(t, fd) \/ Read(t, fd) \/ Getdents(t, fd)
                          \/ Seek(t, fd) \/ Stat(t, fd))

Spec == Init /\ [][Next]_<<tab, desc, ret>>

============================================================================
