----------------------------- MODULE MCStorage -----------------------------
(* Small disks for Storage: blocks of two sectors, one direct block per inode, *)
(* so that a file of 15 blocks uses every level of indirection.               *)
EXTENDS Storage

\* Sectors of a file system in which inodes take `isize` sectors.
Data(l) == <<100 + 2 * l, 101 + 2 * l>>
Record(ino, len, sectors) == [inode |-> ino, name_len |-> len, rec_len |-> sectors]
Entry(ino, len) == Record(ino, len, 1)

Inode(size, blocks) == [i_size |-> size, i_block |-> [i \in 0..3 |-> blocks[i + 1]]]

\* Root directory, a file through all levels, a file with a hole, one sector,
\* an empty file.
Inodes == [i \in 2..6 |->
    CASE i = 2 -> Inode(6, <<10, 11, 0, 0>>)
      [] i = 3 -> Inode(29, <<20, 40, 41, 44>>)
      [] i = 4 -> Inode(5, <<60, 61, 0, 0>>)
      [] i = 5 -> Inode(1, <<63, 0, 0, 0>>)
      [] i = 6 -> Inode(0, <<0, 0, 0, 0>>)]

\* Two deleted entries, and one whose name is still behind the entry that took
\* over its space.
Directory == <<Entry(3, 2), Entry(0, 1), Record(4, 2, 2), Entry(9, 1), Entry(5, 1), Entry(0, 1)>>

Block(b) ==
    CASE b = 10 -> SubSeq(Directory, 1, 2)
      [] b = 11 -> <<12, 13>>
      [] b \in {12, 13} -> SubSeq(Directory, 2 * (b - 11) + 1, 2 * (b - 11) + 2)
      [] b \in 20..34 -> Data(b - 20)
      [] b = 40 -> <<21, 22>>
      [] b = 41 -> <<42, 43>>
      [] b = 42 -> <<23, 24>>
      [] b = 43 -> <<25, 26>>
      [] b = 44 -> <<45, 46>>
      [] b = 45 -> <<47, 48>>
      [] b = 46 -> <<49, 50>>
      [] b \in 47..50 -> <<27 + 2 * (b - 47), 28 + 2 * (b - 47)>>
      [] b = 60 -> <<200, 201>>
      [] b = 61 -> <<0, 62>>
      [] b = 62 -> <<204, 0>>
      [] b = 63 -> <<300, 301>>

BlocksInUse == (10..13) \cup (20..34) \cup (40..50) \cup (60..63)

Super(blocks, isize) ==
    [s_magic |-> TRUE, s_log_block_size |-> 0, s_first_data_block |-> 1,
     s_blocks_count |-> blocks, s_blocks_per_group |-> 32,
     s_inodes_per_group |-> 2, s_rev_level |-> isize - 1, s_inode_size |-> isize]

InodeSector(i, isize) == 8 + 4 * ((i - 1) \div 2) + ((i - 1) % 2) * isize

FileSystem(start, isize) ==
    [l \in {start + 2} |-> Super(90, isize)]
    @@ [l \in (start + 4)..(start + 6) |-> 4 + 2 * (l - start - 4)]
    @@ [l \in {start + InodeSector(i, isize) : i \in 2..6} |->
           Inodes[CHOOSE i \in 2..6 : start + InodeSector(i, isize) = l]]
    @@ [l \in {start + 2 * b + k : b \in BlocksInUse, k \in {0, 1}} |->
           Block((l - start) \div 2)[((l - start) % 2) + 1]]

Zero == [signature |-> FALSE, s_magic |-> FALSE]

Disk(cells, candidates, good) ==
    [cells |-> cells, zero |-> Zero, candidates |-> candidates, good |-> good,
     files |-> [i \in 3..6 |->
         CASE i = 3 -> [k \in 1..29 |-> 99 + k]
           [] i = 4 -> <<200, 201, 0, 0, 204>>
           [] i = 5 -> <<300>>
           [] i = 6 -> << >>],
     dirs |-> [i \in {2} |-> [sectors |-> Directory, records |-> <<0, 1, 2, 4, 5, 6>>,
                             list |-> <<3, 4, 5>>]]]

Part_(type, start) == [type |-> type, lba_start |-> start]
GptEntry(type, start) == [type |-> type, first_lba |-> start]

\* An MBR whose first partition is something else.
MbrDisk == Disk(
    [l \in {0} |-> [signature |-> TRUE, parts |-> <<Part_("other", 4), Part_("linux", 9)>>]]
      @@ FileSystem(9, 1), <<4, 9>>, {9})

\* A GPT: a file system with too many groups, an unused entry, the root file
\* system, and one more partition than the kernel looks at.
GptDisk == Disk(
    [l \in {0} |-> [signature |-> TRUE, parts |-> <<Part_("EE", 1), Part_("empty", 0)>>]]
      @@ [l \in {1} |-> [signature |-> TRUE, num_entries |-> 4, per_sector |-> 2,
                         entry_lba |-> 2]]
      @@ [l \in {2} |-> [s_magic |-> FALSE, entries |-> <<GptEntry("linux", 5), GptEntry("empty", 0)>>]]
      @@ [l \in {3} |-> [s_magic |-> FALSE, entries |-> <<GptEntry("linux", 12), GptEntry("linux", 200)>>]]
      @@ [l \in {7} |-> Super(97, 1)]
      @@ FileSystem(12, 2), <<5, 12, 200>>, {12})

\* No partition table.
PlainDisk == Disk(FileSystem(0, 1), << >>, {0})

\* A partition table and nothing the kernel can mount.
EmptyDisk == Disk(
    [l \in {0} |-> [signature |-> TRUE, parts |-> <<Part_("empty", 0), Part_("other", 4)>>]],
    <<4>>, {})

MCImage == {MbrDisk, GptDisk, PlainDisk, EmptyDisk}
MCReads == {<<0, 3>>, <<5, 4>>, <<28, 9>>, <<30, 1>>}

============================================================================
