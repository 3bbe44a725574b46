-------------------------------- MODULE Ext2 --------------------------------
(***************************************************************************)
(* What fs/ext2.cpp and fs/partition.cpp compute from the sectors they     *)
(* read, without the reading: geometry, the block map, inode positions,    *)
(* directory blocks, partition tables.                                     *)
(*                                                                         *)
(* The unit is the sector.  It stands for what it holds: a superblock, a   *)
(* group descriptor, an inode, a block pointer, a directory entry, a piece *)
(* of file data, a partition table; so a block of spb sectors holds spb    *)
(* pointers or entries.  `st` is an Ext2State.                             *)
(***************************************************************************)
EXTENDS Integers, Sequences, SequencesExt

CONSTANTS
    NDIRECT,     \* direct blocks of an inode: 12
    MAX_GROUPS,  \* 128
    MAX_PARTS,   \* partitions vfs::init() takes from the scan: 16
    MBR_PARTS    \* entries of an MBR: 4

ASSUME Ext2Assumption ==
    /\ NDIRECT \in Nat /\ MAX_GROUPS \in Nat \ {0}
    /\ MAX_PARTS \in Nat \ {0} /\ MBR_PARTS \in Nat \ {0}

----------------------------------------------------------------------------
(* The superblock *)

num_groups(sb) ==
    (sb.s_blocks_count + sb.s_blocks_per_group - 1) \div sb.s_blocks_per_group

sectors_per_blk(sb) == 2 * 2^sb.s_log_block_size

mountable(sb) == sb.s_magic /\ num_groups(sb) <= MAX_GROUPS

\* Ext2State once the group descriptors have been read.
mounted(sb, bgdt) ==
    [spb |-> sectors_per_blk(sb),
     inodes_per_group |-> sb.s_inodes_per_group,
     inode_size |-> IF sb.s_rev_level >= 1 /\ sb.s_inode_size >= 1
                    THEN sb.s_inode_size ELSE 1,
     bgdt |-> bgdt]

\* The descriptors start in the block after the superblock's.
bgdt_lba(sb) == (sb.s_first_data_block + 1) * sectors_per_blk(sb)

----------------------------------------------------------------------------
(* Inodes and the block map *)

inode_group(st, ino) == (ino - 1) \div st.inodes_per_group

\* fetch_inode() refuses number 0 and numbers past the last group.
inode_exists(st, ino) == ino # 0 /\ inode_group(st, ino) < Len(st.bgdt)

\* Where the inode is in its group's table.
inode_offset(st, ino) == ((ino - 1) % st.inodes_per_group) * st.inode_size

inode_block(st, ino) ==
    st.bgdt[inode_group(st, ino) + 1] + inode_offset(st, ino) \div st.spb

\* Mutant: double indirect blocks are indexed the wrong way round.
block_path_swapped(st, logical) ==
    LET P == st.spb
        l1 == logical - NDIRECT
        l2 == l1 - P
        l3 == l2 - P * P
    IN  CASE logical < NDIRECT -> <<logical>>
          [] logical >= NDIRECT /\ l1 < P -> <<NDIRECT, l1>>
          [] l1 >= P /\ l2 < P * P -> <<NDIRECT + 1, l2 % P, l2 \div P>>
          [] l2 >= P * P /\ l3 < P * P * P ->
               <<NDIRECT + 2, l3 \div (P * P), (l3 % (P * P)) \div P, l3 % P>>
          [] OTHER -> << >>

\* resolve_block() for one logical block: the entry of i_block[] to start from
\* and the index to take in each pointer block on the way.  Nothing when the
\* block is beyond the triple indirect ones.
block_path(st, logical) ==
    LET P == st.spb
        l1 == logical - NDIRECT
        l2 == l1 - P
        l3 == l2 - P * P
    IN  CASE logical < NDIRECT -> <<logical>>
          [] logical >= NDIRECT /\ l1 < P -> <<NDIRECT, l1>>
          [] l1 >= P /\ l2 < P * P -> <<NDIRECT + 1, l2 \div P, l2 % P>>
          [] l2 >= P * P /\ l3 < P * P * P ->
               <<NDIRECT + 2, l3 \div (P * P), (l3 % (P * P)) \div P, l3 % P>>
          [] OTHER -> << >>

----------------------------------------------------------------------------
(* Directory blocks *)

\* The entries of a block, of which the first `size` sectors belong to the
\* directory.  A record of length 0 ends the walk.
dir_entries(block, size) ==
    LET from[pos \in 0..size] ==
          IF pos = size \/ block[pos + 1].rec_len = 0 THEN << >>
          ELSE <<block[pos + 1]>>
                 \o from[IF pos + block[pos + 1].rec_len < size
                         THEN pos + block[pos + 1].rec_len ELSE size]
    IN  from[0]

live(de) == de.inode # 0 /\ de.name_len > 0

\* Bytes of a VFS directory entry: number, name, NUL.
needed(de) == 8 + de.name_len + 1

\* Mutant: a page that has no room for an entry skips it and goes on.
emit_skipping(page, de, offset, count) ==
    IF ~live(de) THEN page
    ELSE IF page.stream < offset \/ page.written + needed(de) > count
    THEN [page EXCEPT !.stream = @ + needed(de)]
    ELSE [page EXCEPT !.stream = @ + needed(de), !.written = @ + needed(de),
                      !.out = Append(@, de.inode)]

\* One entry of ext2_readdir(inode, offset, buf, count).
emit(page, de, offset, count) ==
    IF page.full \/ ~live(de) THEN page
    ELSE IF page.stream < offset THEN [page EXCEPT !.stream = @ + needed(de)]
    ELSE IF page.written + needed(de) > count THEN [page EXCEPT !.full = TRUE]
    ELSE [page EXCEPT !.stream = @ + needed(de), !.written = @ + needed(de),
                      !.out = Append(@, de.inode)]

\* One block of it.
emit_block(page, block, size, offset, count) ==
    LET add(p, de) == emit(p, de, offset, count)
    IN  FoldLeft(add, page, dir_entries(block, size))

new_page == [stream |-> 0, written |-> 0, out |-> << >>, full |-> FALSE]

----------------------------------------------------------------------------
(* Partition tables *)

is_gpt(mbr) == \E i \in 1..MBR_PARTS : mbr.parts[i].type = "EE"

first_parts(starts) == SubSeq(starts, 1, Min({Len(starts), MAX_PARTS}))

\* The partitions of an MBR that are in use, in the table's order.
mbr_used(mbr) ==
    LET inUse == SelectSeq(mbr.parts, LAMBDA p : p.type # "empty")
    IN  [i \in DOMAIN inUse |-> inUse[i].lba_start]

mbr_parts(mbr) == first_parts(mbr_used(mbr))

============================================================================
