-------------------------- MODULE FilesRefinement --------------------------
(***************************************************************************)
(* Files implements Descriptors: the description a descriptor names is the *)
(* File its slot points at, known by its number and not by its block.      *)
(***************************************************************************)
EXTENDS Files

\* A directory lists every entry; one with a name of NAME_SIZE bytes or more
\* under the name's first NAME_SIZE - 1 bytes.
AbstractInode(inode) ==
    [is_dir |-> inode.is_dir, size |-> inode.size, at |-> inode.at,
     list |-> shown(listing(inode))]

HeldIds == {file[b].id : b \in {c \in Block : Holders(c) # {} /\ file[c] # NULL}}
FileOf(id) == CHOOSE b \in Block : file[b] # NULL /\ file[b].id = id

\* Each task's descriptors, as the numbers of the Files they point at.
Tab == [t \in Task |->
          IF fds[t] = NULL THEN NULL
          ELSE [fd \in Fd |->
                  IF fds[t][fd] = NULL THEN NULL
                  ELSE IF file[fds[t][fd]] = NULL THEN -1
                  ELSE file[fds[t][fd]].id]]

\* The Files some descriptor points at.
Desc == [id \in HeldIds |-> [inode |-> AbstractInode(file[FileOf(id)].inode),
                             pos |-> file[FileOf(id)].offset]]

D == INSTANCE Descriptors WITH
    tab <- Tab, desc <- Desc, Fits <- LAMBDA d, count : reclen(d) <= count

\* No directory of an initrd that programs run on has more entries than
\* getdents64() collects; those behind them would never be listed.
DirectoriesFit ==
    /\ Len(ProcName) <= MAX_ENTRIES
    /\ \A a \in Booted : \A k \in DOMAIN mount(a) : Len(tar_list(mount(a), k)) <= MAX_ENTRIES

\* Whatever the reuse of File objects, the sharing after fork(), the chunks of
\* readdir() and the clock do, the calls behave as descriptors should.
ImplementsDescriptors == D!Spec

============================================================================
