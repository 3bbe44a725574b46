------------------------------ MODULE Storage ------------------------------
(***************************************************************************)
(* The disk as the kernel sees it: vfs::init() scans the partition tables  *)
(* and mounts the first ext2 file system, and files and directories are    *)
(* then read from it, every sector through the driver of module Ahci.      *)
(*                                                                         *)
(* A file system call is a chain of steps, each ending in a call of        *)
(* read_sectors(); `op` is where the chain is.  Only one is ever under     *)
(* way: kernel_main() is the only user of the disk at boot, and system     *)
(* calls run with interrupts masked.  kmalloc() halts rather than fail.    *)
(***************************************************************************)
EXTENDS Ahci, Ext2

CONSTANTS
    Image,     \* disks: cells, the sectors in use, and what they were made from:
               \* candidates, the starts of the partitions in the table's order;
               \* good, the starts of ext2 file systems the kernel supports;
               \* files and dirs, their contents by inode number; of a directory
               \* the sectors, where its records start, and the inodes it lists
    Reads,     \* <<offset, count>> of reads
    DIR_CHUNK  \* bytes per readdir() call of lookup_path() and getdents64(): 512

VARIABLES
    disk,
    base,      \* s_part_ctx.base_lba
    parts,     \* what partition::scan() found
    root,      \* root_sb: None or the Ext2State
    op,        \* the file system call in progress
    failed,    \* ghost: a read of this call failed, or it met a hole
    result     \* ghost: what the last call returned

fsVars == <<disk, base, parts, root, op, failed, result>>
vars == <<ahciVars, fsVars>>

\* What sector lba of disk d holds.  Sectors nothing was written to hold zeros.
sector(d, lba) == IF lba \in DOMAIN d.cells THEN d.cells[lba] ELSE d.zero
got(i) == sector(disk, res.data[i])

idle == [at |-> "idle"]

\* The step ends without a call of the driver.
no_read == step' = "ready" /\ rd' = None /\ res' = None
    /\ UNCHANGED <<port, used, slot, timeout, late, dev_side, mem, ci, tfes>>

Reply(at) == step = "ret" /\ op.at = at
Truthful == res.ok => res.data = asked

----------------------------------------------------------------------------
(* What the disks were made from *)

\* Entry i of the GPT.
gpt_entry(d, i) ==
    LET gpt == sector(d, 1)
    IN  sector(d, gpt.entry_lba + i \div gpt.per_sector).entries[(i % gpt.per_sector) + 1]

\* The candidates are the entries in use, where[k] being the number of the k-th.
ListsEntries(d, where) ==
    LET used_entries == {i \in 0..(sector(d, 1).num_entries - 1) : gpt_entry(d, i).type # "empty"}
    IN  /\ \A j, k \in DOMAIN d.candidates : j < k => where[j] < where[k]
        /\ {where[k] : k \in DOMAIN d.candidates} = used_entries
        /\ \A k \in DOMAIN d.candidates : d.candidates[k] = gpt_entry(d, where[k]).first_lba

\* The candidates are the partitions that the table lists.
ListsPartitions(d) ==
    LET mbr == sector(d, 0)
        gpt == sector(d, 1)
    IN  /\ d.candidates \in Seq(Nat)
        /\ ~mbr.signature => d.candidates = << >>
        /\ mbr.signature /\ ~is_gpt(mbr) => d.candidates = mbr_used(mbr)
        /\ mbr.signature /\ is_gpt(mbr) =>
             IF ~gpt.signature THEN d.candidates = << >>
             ELSE /\ gpt.num_entries \in Nat
                  /\ \E where \in [DOMAIN d.candidates -> 0..(gpt.num_entries - 1)] :
                       ListsEntries(d, where)

\* The file system that starts at sector s.
file_system_at(d, s) ==
    LET sb == sector(d, s + 2)
    IN  mounted(sb, [i \in 1..num_groups(sb) |-> sector(d, s + bgdt_lba(sb) + i - 1)])

\* Block l of the file, which is block b of the file system, holds its part of
\* the contents f.  There is no block 0: it stands for a hole.
HoldsPart(d, s, P, f, l, b) ==
    b # 0 => \A k \in 0..(P - 1) :
               l * P + k < Len(f) => sector(d, s + b * P + k) = f[l * P + k + 1]

\* Entry i of pointer block b.
pointer(d, s, P, b, i) == IF b = 0 THEN 0 ELSE sector(d, s + b * P + i)

\* An inode holds the file f: its direct blocks, then the blocks that its single,
\* its double and its triple indirect block lead to, one after the other.
HoldsFile(d, s, P, di, f) ==
    LET at(b, i) == pointer(d, s, P, b, i)
        part(l, b) == HoldsPart(d, s, P, f, l, b)
        I == 0..(P - 1)
    IN  /\ f \in Seq(Range(f)) /\ di.i_size = Len(f)
        /\ \A i \in 0..(NDIRECT - 1) : part(i, di.i_block[i])
        /\ \A i \in I : part(NDIRECT + i, at(di.i_block[NDIRECT], i))
        /\ \A i, j \in I :
             part(NDIRECT + P + i * P + j, at(at(di.i_block[NDIRECT + 1], i), j))
        /\ \A i, j, k \in I :
             part(NDIRECT + P + P * P + (i * P + j) * P + k,
                  at(at(at(di.i_block[NDIRECT + 2], i), j), k))

\* Record i of a directory.
record(dir, i) == dir.sectors[dir.records[i] + 1]

\* The records follow one another up to the end of the directory, each as long as
\* it says and none over the end of a block.
RecordsFollow(dir, P) ==
    LET at == dir.records
    IN  /\ at \in Seq(0..Len(dir.sectors)) /\ at # << >>
        /\ at[1] = 0 /\ at[Len(at)] = Len(dir.sectors)
        /\ \A i \in DOMAIN dir.sectors : dir.sectors[i].rec_len \in Nat
        /\ \A i \in 1..(Len(at) - 1) :
             /\ at[i] < at[i + 1] /\ at[i + 1] = at[i] + record(dir, i).rec_len
             /\ at[i + 1] <= (at[i] \div P + 1) * P

\* The directory lists the records in use, which[k] being the number of the k-th.
\* A page has room for any of them.
ListsRecords(dir, which) ==
    LET used_records == {i \in 1..(Len(dir.records) - 1) : live(record(dir, i))}
    IN  /\ \A j, k \in DOMAIN dir.list : j < k => which[j] < which[k]
        /\ {which[k] : k \in DOMAIN dir.list} = used_records
        /\ \A k \in DOMAIN dir.list :
             /\ dir.list[k] = record(dir, which[k]).inode
             /\ needed(record(dir, which[k])) \in 1..DIR_CHUNK

\* An inode holds a directory.
HoldsDirectory(d, s, P, di, dir) ==
    /\ HoldsFile(d, s, P, di, dir.sectors) /\ RecordsFollow(dir, P)
    /\ dir.list \in Seq(Nat)
    /\ \E which \in [DOMAIN dir.list -> 1..(Len(dir.records) - 1)] : ListsRecords(dir, which)

\* The r-th inode of group g is the r-th of the group's table.
HoldsFiles(d, s) ==
    LET st == file_system_at(d, s)
    IN  /\ {st.spb, st.inodes_per_group, st.inode_size} \subseteq Nat \ {0}
        /\ st.bgdt \in Seq(Nat)
        /\ \A g \in 0..(Len(st.bgdt) - 1), r \in 0..(st.inodes_per_group - 1) :
             LET ino == g * st.inodes_per_group + r + 1
                 di == sector(d, s + st.bgdt[g + 1] * st.spb + r * st.inode_size)
             IN  /\ ino \in DOMAIN d.files => HoldsFile(d, s, st.spb, di, d.files[ino])
                 /\ ino \in DOMAIN d.dirs => HoldsDirectory(d, s, st.spb, di, d.dirs[ino])

\* A file system is good when the kernel supports it, and then it holds the files
\* and directories.
WellMade(d) ==
    /\ ListsPartitions(d)
    /\ d.good = {s \in Range(d.candidates) \cup {0} : mountable(sector(d, s + 2))}
    /\ DOMAIN d.files \subseteq Nat /\ DOMAIN d.dirs \subseteq Nat
    /\ \A s \in d.good : HoldsFiles(d, s)

ASSUME ImageAssumption == \A d \in Image : WellMade(d)

ASSUME NoneAssumption ==
    /\ None # [kind |-> "mounted"]
    /\ \A d \in Image : \A s \in d.good : file_system_at(d, s) # None

ASSUME ReadsAssumption == Reads \subseteq Nat \X Nat /\ DIR_CHUNK \in Nat

----------------------------------------------------------------------------
(* partition::scan() *)

begin_init ==
    /\ op.at = "off" /\ step = "ready"
    /\ op' = [at |-> "mbr"] /\ read_sectors(0, 1)
    /\ UNCHANGED <<disk, base, parts, root, failed, result>>

\* vfs::mount() of the k-th candidate: set the context, read the superblock.
\* After the partitions comes the whole disk.
enter(k, starts) ==
    /\ op' = [at |-> "super", k |-> k]
    /\ base' = Append(starts, 0)[k]
    /\ read_sectors(base' + 2, 2)

scanned(starts) == parts' = starts /\ enter(1, starts)

scan_mbr ==
    /\ Reply("mbr") /\ Truthful
    /\ failed' = ~res.ok
    /\ IF res.ok /\ got(1).signature /\ is_gpt(got(1))
       THEN /\ op' = [at |-> "gpt"] /\ read_sectors(1, 1)
            /\ UNCHANGED <<base, parts>>
       ELSE scanned(IF res.ok /\ got(1).signature THEN mbr_parts(got(1)) ELSE << >>)
    /\ UNCHANGED <<disk, root, result>>

\* The loop over the entries: the sector of entry i is read anew every time.
gpt_turn(gpt, i, starts) ==
    IF i < gpt.num_entries /\ Len(starts) < MAX_PARTS
    THEN /\ op' = [at |-> "entry", gpt |-> gpt, i |-> i, starts |-> starts]
         /\ read_sectors(gpt.entry_lba + i \div gpt.per_sector, 1)
         /\ UNCHANGED <<base, parts>>
    ELSE scanned(starts)

scan_gpt ==
    /\ Reply("gpt") /\ Truthful
    /\ failed' = ~res.ok
    /\ IF res.ok /\ got(1).signature THEN gpt_turn(got(1), 0, << >>)
       ELSE scanned(<< >>)
    /\ UNCHANGED <<disk, root, result>>

\* Mutant: an unused entry ends the table.
gpt_takes_to_gap(e, starts) ==
    IF e.type = "empty" THEN scanned(starts)
    ELSE gpt_turn(op.gpt, op.i + 1, Append(starts, e.first_lba))

\* An entry with an all-zero type is skipped.
gpt_takes(e, starts) ==
    gpt_turn(op.gpt, op.i + 1,
             IF e.type = "empty" THEN starts ELSE Append(starts, e.first_lba))

scan_entry ==
    /\ Reply("entry") /\ Truthful
    /\ failed' = (failed \/ ~res.ok)
    /\ IF res.ok THEN gpt_takes(got(1).entries[(op.i % op.gpt.per_sector) + 1], op.starts)
       ELSE scanned(op.starts)
    /\ UNCHANGED <<disk, root, result>>

----------------------------------------------------------------------------
(* vfs::init() and ext2::mount() *)

\* No candidate is left: no root file system.
next_candidate ==
    IF op.k <= Len(parts) THEN enter(op.k + 1, parts)
    ELSE op' = idle /\ no_read /\ UNCHANGED base

mount_super ==
    /\ Reply("super") /\ Truthful
    /\ failed' = (failed \/ ~res.ok)
    /\ IF res.ok /\ mountable(got(1))
       THEN /\ op' = [at |-> "bgdt", k |-> op.k, sb |-> got(1)]
            /\ read_sectors(base + bgdt_lba(got(1)), num_groups(got(1)))
            /\ UNCHANGED base
       ELSE next_candidate
    /\ UNCHANGED <<disk, parts, root, result>>

\* The call has returned `value` to its caller.
return(value) == op' = idle /\ result' = value /\ no_read

mount_bgdt ==
    /\ Reply("bgdt") /\ Truthful
    /\ failed' = (failed \/ ~res.ok)
    /\ IF res.ok
       THEN /\ root' = mounted(op.sb, [i \in DOMAIN res.data |-> got(i)])
            /\ return([kind |-> "mounted"])
            /\ UNCHANGED base
       ELSE next_candidate /\ UNCHANGED <<root, result>>
    /\ UNCHANGED <<disk, parts>>

----------------------------------------------------------------------------
(* Inodes *)

read_block(b) == read_sectors(base + b * root.spb, root.spb)

\* make_vfs_inode() for the call `what`.  Bound of the model: no new call once
\* a command has outlived its wait.
begin(ino, what, offset, count) ==
    /\ op = idle /\ step = "ready" /\ root # None /\ ~late
    /\ inode_exists(root, ino)
    /\ op' = [at |-> "inode", ino |-> ino, what |-> what, offset |-> offset,
              count |-> count]
    /\ failed' = FALSE /\ result' = None
    /\ read_block(inode_block(root, ino))
    /\ UNCHANGED <<disk, base, parts, root>>

----------------------------------------------------------------------------
(* Reading the blocks of a file or directory *)

\* ext2_read(inode, offset, count) begins.  The code's sum offset + count is a u64
\* and is taken not to wrap, as for every count that a buffer in memory can have.
read_from(o, offset, count) ==
    [o EXCEPT !.at = "turn", !.offset = offset, !.data = << >>,
              !.count = IF offset >= o.di.i_size THEN 0
                        ELSE Lesser(count, o.di.i_size - offset)]

\* ext2_readdir(inode, offset, count) begins.
list_from(o, offset) ==
    [o EXCEPT !.at = "turn", !.offset = offset, !.blk_start = 0, !.page = new_page]

\* The inode has been read; the call it was read for begins.
opened(di) ==
    LET o == [at |-> "turn", what |-> op.what, ino |-> op.ino, di |-> di,
              offset |-> 0, count |-> 0, data |-> << >>, so_far |-> << >>,
              blk_start |-> 0, page |-> new_page, path |-> << >>]
    IN  CASE op.what = "list" -> list_from(o, 0)
          [] op.what = "whole" -> read_from(o, 0, di.i_size)
          [] OTHER -> read_from(o, op.offset, op.count)

fetch_inode ==
    /\ Reply("inode") /\ Truthful
    /\ failed' = ~res.ok
    /\ op' = IF res.ok THEN opened(got((inode_offset(root, op.ino) % root.spb) + 1))
             ELSE idle
    /\ no_read
    /\ UNCHANGED <<disk, base, parts, root, result>>

\* Where a turn of the loop is in the file.
position(o) == IF o.what = "list" THEN o.blk_start ELSE o.offset + Len(o.data)

more(o) == IF o.what = "list" THEN ~o.page.full /\ o.blk_start < o.di.i_size
           ELSE Len(o.data) < o.count

\* resolve_block() has come to block b, with `path` still to go.
resolve(b, path) ==
    IF b = 0
    THEN /\ op' = [op EXCEPT !.at = "returned"] /\ failed' = TRUE /\ no_read
    ELSE /\ op' = [op EXCEPT !.at = "block", !.path = path]
         /\ read_block(b) /\ UNCHANGED failed

\* The head of the loop.
turn ==
    LET path == block_path(root, position(op) \div root.spb) IN
    /\ op.at = "turn" /\ step = "ready"
    /\ IF ~more(op) THEN op' = [op EXCEPT !.at = "returned"] /\ no_read /\ UNCHANGED failed
       ELSE IF path = << >> THEN resolve(0, << >>)
       ELSE resolve(op.di.i_block[path[1]], Tail(path))
    /\ UNCHANGED <<disk, base, parts, root, result>>

\* One block is copied, as far as the read goes.
copied(o, block) ==
    LET off == position(o) % root.spb
        n == Lesser(o.count - Len(o.data), root.spb - off)
    IN  [o EXCEPT !.data = @ \o SubSeq(block, off + 1, off + n)]

\* One block's entries go into the page.
listed(o, block) ==
    [o EXCEPT !.blk_start = @ + root.spb,
              !.page = emit_block(@, block, Lesser(root.spb, o.di.i_size - o.blk_start),
                                  o.offset, DIR_CHUNK)]

\* A pointer block, or the block itself.  A failed read ends the loop as a
\* hole does.
block_read ==
    /\ Reply("block") /\ Truthful
    /\ IF ~res.ok THEN resolve(0, << >>)
       ELSE IF op.path # << >> THEN resolve(got(op.path[1] + 1), Tail(op.path))
       ELSE LET block == [i \in DOMAIN res.data |-> got(i)]
                o == IF op.what = "list" THEN listed(op, block) ELSE copied(op, block)
            IN  op' = [o EXCEPT !.at = "turn"] /\ no_read /\ UNCHANGED failed
    /\ UNCHANGED <<disk, base, parts, root, result>>

----------------------------------------------------------------------------
(* What the callers do with it *)

\* Mutant: what the first read returned will do.
whole_started == op.data # << >>

\* read_whole_file() has the whole file.
whole_done == Len(op.so_far) + Len(op.data) >= op.di.i_size

\* read_whole_file(): read on from where the read stopped, give up when it
\* returned nothing.
whole_turn ==
    /\ op.at = "returned" /\ op.what = "whole"
    /\ IF whole_done
       THEN return([kind |-> "whole", ino |-> op.ino, value |-> op.so_far \o op.data])
       ELSE IF op.data = << >>
       THEN return([kind |-> "whole", ino |-> op.ino, value |-> None])
       ELSE /\ LET so_far == op.so_far \o op.data
               IN  op' = read_from([op EXCEPT !.so_far = so_far], Len(so_far),
                                   op.di.i_size - Len(so_far))
            /\ no_read /\ UNCHANGED result
    /\ UNCHANGED <<disk, base, parts, root, failed>>

\* lookup_path() and getdents64(): the next page, until one is empty.
list_turn ==
    /\ op.at = "returned" /\ op.what = "list"
    /\ IF op.page.written = 0
       THEN return([kind |-> "list", ino |-> op.ino, value |-> op.so_far])
       ELSE /\ op' = list_from([op EXCEPT !.so_far = @ \o op.page.out],
                               op.offset + op.page.written)
            /\ no_read /\ UNCHANGED result
    /\ UNCHANGED <<disk, base, parts, root, failed>>

read_returns ==
    /\ op.at = "returned" /\ op.what = "read"
    /\ return([kind |-> "read", ino |-> op.ino, value |-> op.data])
    /\ UNCHANGED <<disk, base, parts, root, failed>>

\* What the file system makes of bytes that never came from the disk is not
\* followed.
garbage ==
    /\ step = "ret" /\ ~Truthful /\ late
    /\ op' = idle /\ no_read
    /\ UNCHANGED <<disk, base, parts, root, failed, result>>

----------------------------------------------------------------------------

file_system == begin_init \/ scan_mbr \/ scan_gpt \/ scan_entry \/ mount_super
    \/ mount_bgdt \/ fetch_inode \/ turn \/ block_read \/ whole_turn \/ list_turn
    \/ read_returns \/ garbage

\* read_whole_file(), a directory listing, or read() of a file.
calls ==
    \/ \E ino \in DOMAIN disk.files :
         begin(ino, "whole", 0, 0) \/ \E r \in Reads : begin(ino, "read", r[1], r[2])
    \/ \E ino \in DOMAIN disk.dirs : begin(ino, "list", 0, 0)

Init ==
    /\ AhciInit
    /\ disk \in Image
    /\ base = 0 /\ parts = << >> /\ root = None
    /\ op = [at |-> "off"] /\ failed = FALSE /\ result = None

Next ==
    \/ (no_port \/ \E identify \in BOOLEAN : init_port(identify)) /\ UNCHANGED fsVars
    \/ driver /\ UNCHANGED fsVars
    \/ drive /\ UNCHANGED fsVars
    \/ file_system
    \/ calls

Spec == Init /\ [][Next]_vars

\* The CPU runs the kernel's code on; nothing is assumed of the drive or of the
\* callers.
Fairness == WF_vars((driver /\ UNCHANGED fsVars) \/ file_system)

FairSpec == Spec /\ Fairness

----------------------------------------------------------------------------
(* Properties *)

Reading == op.at \in {"turn", "block", "returned"} /\ op.what # "list"

\* ext2_read() against the file the disk was made from: through direct and
\* indirect blocks, at any offset, it delivers the file's bytes from there on,
\* and, when no read failed and it met no hole, as many as were asked for and
\* the file has.
ReadIsFromFile ==
    Reading =>
        LET f == disk.files[op.ino]
            have == IF op.offset >= Len(f) THEN 0 ELSE Len(f) - op.offset
        IN  /\ op.data = SubSeq(f, op.offset + 1, op.offset + Len(op.data))
            /\ Len(op.data) <= have
            /\ (op.at = "returned" /\ ~failed) => Len(op.data) = Lesser(op.count, have)

\* vfs.hpp on read_whole_file(): the ELF loader gets the whole file or nothing,
\* never a part of it, whichever reads fail on the way and wherever holes are.
WholeFileOrNothing ==
    (result # None /\ result.kind = "whole") =>
        \/ result.value = disk.files[result.ino]
        \/ result.value = None /\ failed

\* Reading a directory page by page, as lookup_path() and getdents64() do: every
\* live entry once and in order, deleted ones skipped, up to a read that fails.
ListingIsComplete ==
    (result # None /\ result.kind = "list") =>
        /\ IsPrefix(result.value, disk.dirs[result.ino].list)
        /\ ~failed => result.value = disk.dirs[result.ino].list

\* The places vfs::init() may take the root file system from, in order.
places == Append(first_parts(disk.candidates), 0)

\* The root file system is the first of the partitions, or the whole disk, that
\* is one; the single partition context stays on it for as long as it is mounted.
RootIsFirstMountable ==
    /\ root # None => base \in disk.good
    /\ (op = idle /\ ~failed /\ ~late /\ root = None) =>
            \A i \in DOMAIN places : places[i] \notin disk.good
    /\ (result = [kind |-> "mounted"] /\ ~failed) =>
            \E i \in DOMAIN places :
              places[i] = base /\ \A j \in 1..(i - 1) : places[j] \notin disk.good

\* Every call that goes to the disk comes back, whatever the drive does or does
\* not do: the kernel polls with interrupts masked and nothing else could run.
EveryCallReturns == (op.at \notin {"off", "idle"}) ~> (op = idle)

============================================================================
