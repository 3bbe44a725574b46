------------------------------- MODULE Tarfs -------------------------------
(***************************************************************************)
(* The initrd file system, fs/tarfs.cpp: mount() turns the entries of a    *)
(* tar archive into a tree of nodes linked by index, tar_readdir() pages   *)
(* through a directory.                                                    *)
(*                                                                         *)
(* A path is the sequence of what stands between its slashes, EMPTY where  *)
(* two slashes meet or the path ends in one.  A component is at most 99    *)
(* bytes long and is never ".".  The content of a file is the number of    *)
(* the entry that holds it, its data_offset.                               *)
(***************************************************************************)
EXTENDS Integers, Sequences, SequencesExt, FiniteSetsExt

CONSTANTS
    Name, EMPTY,      \* path components
    NameLen,          \* their lengths
    chunk_size,       \* 512: the buffer lookup_path() and getdents64() page with
    NodesPerEntry,    \* 8
    SpareNodes        \* 16

DIRENT_HEAD == 9      \* bytes of a VFS directory entry besides its name

ASSUME TarfsAssumption ==
    /\ EMPTY \notin Name
    /\ NameLen \in [Name -> 1..99]
    /\ \A n \in Name : DIRENT_HEAD + NameLen[n] <= chunk_size
    /\ {chunk_size, NodesPerEntry, SpareNodes} \subseteq Nat /\ SpareNodes > 0

NONE == -1

components(path) ==
    FoldLeft(LAMBDA found, c : IF c = EMPTY THEN found ELSE Append(found, c), << >>, path)

----------------------------------------------------------------------------
(* Building the tree *)

NewNode(name) == [name |-> name, is_dir |-> TRUE, data |-> 0, size |-> 0,
                  first_child |-> NONE, next_sibling |-> NONE]

Root == [k \in {0} |-> NewNode(EMPTY)]

\* The sibling list of a directory.
children(nodes, i) ==
    LET from[k \in DOMAIN nodes \cup {NONE}] ==
          IF k = NONE THEN << >> ELSE <<k>> \o from[nodes[k].next_sibling]
    IN  from[nodes[i].first_child]

find_child(nodes, parent, name) ==
    LET list == children(nodes, parent)
        at == SelectInSeq(list, LAMBDA k : nodes[k].name = name)
    IN  IF at = 0 THEN NONE ELSE list[at]

\* The new node goes to the front of the list.
link_child(nodes, parent, name) ==
    LET idx == Cardinality(DOMAIN nodes)
    IN  [k \in DOMAIN nodes \cup {idx} |->
           IF k = idx THEN [NewNode(name) EXCEPT !.next_sibling = nodes[parent].first_child]
           ELSE IF k = parent THEN [nodes[k] EXCEPT !.first_child = idx]
           ELSE nodes[k]]

\* One component of insert_path(): `cur` becomes the child, or NONE when the
\* table is full.
get_or_create_child(walk, name) ==
    LET existing == find_child(walk.nodes, walk.cur, name)
    IN  CASE walk.cur = NONE -> walk
          [] walk.cur # NONE /\ existing # NONE -> [walk EXCEPT !.cur = existing]
          [] OTHER ->
               IF Cardinality(DOMAIN walk.nodes) >= walk.cap
               THEN [walk EXCEPT !.cur = NONE]
               ELSE [walk EXCEPT !.nodes = link_child(@, walk.cur, name),
                                 !.cur = Cardinality(DOMAIN walk.nodes)]

\* Entry e, the archive's i-th.
insert_path(nodes, cap, e, i) ==
    LET walk == FoldLeft(get_or_create_child,
                         [nodes |-> nodes, cur |-> 0, cap |-> cap],
                         components(e.path))
    IN  IF components(e.path) = << >> \/ walk.cur = NONE THEN walk.nodes
        ELSE [walk.nodes EXCEPT ![walk.cur].is_dir = e.is_dir,
                                ![walk.cur].data = IF e.is_dir THEN 0 ELSE i,
                                ![walk.cur].size = IF e.is_dir THEN 0 ELSE e.size]

capacity(archive) == Len(archive) * NodesPerEntry + SpareNodes

mount(archive) ==
    LET after[i \in 0..Len(archive)] ==
          IF i = 0 THEN Root
          ELSE insert_path(after[i - 1], capacity(archive), archive[i], i)
    IN  after[Len(archive)]

----------------------------------------------------------------------------
(* Directories *)

\* Mutant: an entry that starts at the offset counts as already read.
readdir_page_strict(list, offset, count) ==
    LET pos[k \in 1..(Len(list) + 1)] ==
          IF k = 1 THEN 0
          ELSE pos[k - 1] + DIRENT_HEAD + NameLen[list[k - 1].name]
        behind == {k \in 1..Len(list) : pos[k] > offset \/ offset = 0}
        first == Min(behind)
        fit == {k \in behind : pos[k + 1] - pos[first] <= count}
    IN  IF behind = {} THEN << >> ELSE SubSeq(list, first, first + Cardinality(fit) - 1)

\* The entries readdir() writes to a buffer of `count` bytes: the first one at
\* or behind byte `offset` of the listing and as many more as fit.
readdir_page(list, offset, count) ==
    LET pos[k \in 1..(Len(list) + 1)] ==
          IF k = 1 THEN 0
          ELSE pos[k - 1] + DIRENT_HEAD + NameLen[list[k - 1].name]
        behind == {k \in 1..Len(list) : pos[k] >= offset}
        first == Min(behind)
        fit == {k \in behind : pos[k + 1] - pos[first] <= count}
    IN  IF behind = {} THEN << >> ELSE SubSeq(list, first, first + Cardinality(fit) - 1)

\* What a caller of readdir() collects in buffers of chunk_size bytes.
read_chunks(list) ==
    LET bytes(page) == FoldLeft(LAMBDA n, d : n + DIRENT_HEAD + NameLen[d.name], 0, page)
        from[offset \in Nat] ==
          LET page == readdir_page(list, offset, chunk_size)
          IN  IF page = << >> THEN << >> ELSE page \o from[offset + bytes(page)]
    IN  from[0]

\* A file answers -1, which its callers take for the end.
tar_list(nodes, i) ==
    IF nodes[i].is_dir
    THEN LET kids == children(nodes, i)
         IN  [k \in DOMAIN kids |-> [ino |-> kids[k], name |-> nodes[kids[k]].name]]
    ELSE << >>

============================================================================
