-------------------------------- MODULE Ahci --------------------------------
(***************************************************************************)
(* The disk driver, dev/ahci.cpp, and the drive behind it.                 *)
(*                                                                         *)
(* read_sectors() splits a request into commands of at most MAX_SECTORS,   *)
(* each through a bounce frame that the drive writes by DMA, and polls     *)
(* slot 0 of the port until the drive has answered or the poll counter     *)
(* runs out.  The drive is a process of its own: it fetches the command    *)
(* table some time after PxCI is set, and completes, fails, or is silent   *)
(* for as long as it likes.  The disk is only read, so the contents of a   *)
(* sector are represented by its LBA; None is a sector of a frame that     *)
(* no command has filled.                                                  *)
(***************************************************************************)
EXTENDS Naturals, Sequences, FiniteSetsExt

CONSTANTS
    MAX_SECTORS,  \* sectors per command: 8
    TIMEOUT,      \* polls before a command is given up: 5000000
    U32,          \* values of an unsigned int
    Frame,        \* frames the allocator can hand out
    None,
    MaxFaults     \* bound: commands the drive fails

\* What slot 0 can hold, and the parameters and locals of read_sectors().
Command == [lba : Nat, n : 0..MAX_SECTORS, buf : Frame]
Request == [lba : Nat, count : Nat, at : Nat, left : Nat, data : Seq(Nat \cup {None})]

ASSUME AhciAssumption ==
    /\ MAX_SECTORS \in Nat \ {0}
    /\ U32 \in Nat /\ TIMEOUT \in 1..(U32 - 1)
    /\ Frame \subseteq Nat /\ MaxFaults \in Nat
    /\ None \notin Nat \cup Command \cup Request

VARIABLES
    port,         \* the frame init_port() gave the port, or None: no port found
    used,         \* frames in use
    mem,          \* what each sector-sized part of a frame holds
    slot,         \* slot 0: command header and table
    ci, tfes,     \* PxCI bit 0; PxIS bit 30, a task file error
    timeout,      \* local to issue_and_wait()
    step,         \* where the driver is
    rd,           \* the call of read_sectors() in progress
    res,          \* what issue_and_wait(), and then read_sectors(), returned
    dev,          \* the command the drive is executing
    running,      \* the drive takes commands
    faults,
    late          \* ghost: a command has outlived its wait

cpu_side == <<port, used, slot, timeout, step, rd, res, late>>
dev_side == <<dev, running, faults>>
ahciVars == <<cpu_side, dev_side, mem, ci, tfes>>

Part == 1..MAX_SECTORS
Lesser(m, n) == IF m < n THEN m ELSE n

\* alloc_frame(): the lowest free frame.  It halts when there is none.
alloc_frame == Min(Frame \ used)
frame_left == Frame \ used # {}

----------------------------------------------------------------------------
(* issue_and_wait() *)

\* setup_cmd_header() and setup_cfis_and_prdt().
command(lba, n, buf) == [lba |-> lba, n |-> n, buf |-> buf]

issue ==
    /\ step = "issue"
    /\ tfes' = FALSE /\ ci' = TRUE /\ timeout' = TIMEOUT
    /\ step' = "poll"
    /\ UNCHANGED <<port, used, slot, rd, res, late, dev_side, mem>>

\* The loop has ended with `left` in the poll counter.
wait_over(left) ==
    /\ timeout' = None
    /\ res' = [ok |-> left > 0 /\ ~tfes, data |-> << >>]
    /\ tfes' = FALSE
    /\ step' = "done"
    /\ late' = (late \/ (ci /\ ~tfes))
    /\ UNCHANGED <<port, used, slot, rd, ci, dev_side, mem>>

\* Mutant: the counter does not move.
poll_uncounted == step = "poll" /\ ci /\ timeout > 0 /\ UNCHANGED ahciVars

poll_again ==
    /\ step = "poll" /\ ci /\ timeout > 0
    /\ timeout' = timeout - 1
    /\ UNCHANGED <<port, used, slot, step, rd, res, late, dev_side, mem, ci, tfes>>

answered == step = "poll" /\ ~ci /\ wait_over(timeout)

\* The counter is decremented once more when it is zero.
give_up ==
    /\ step = "poll" /\ ci /\ timeout = 0
    /\ wait_over((timeout + U32 - 1) % U32)

----------------------------------------------------------------------------
(* init() and read_sectors() *)

\* The first implemented port of the controller gets a page and is started.
\* Only a drive with the right signature is sent an IDENTIFY, and the answer
\* to it is not looked at.
init_port(identify) ==
    /\ step = "off" /\ frame_left
    /\ port' = alloc_frame /\ used' = used \cup {alloc_frame}
    /\ rd' = None
    /\ IF identify
       THEN step' = "issue" /\ slot' = command(0, 0, alloc_frame)
       ELSE step' = "ready" /\ slot' = slot
    /\ UNCHANGED <<timeout, res, late, dev_side, mem, ci, tfes>>

\* No controller, or none of its ports is implemented.
no_port ==
    /\ step = "off" /\ step' = "ready"
    /\ UNCHANGED <<port, used, slot, timeout, rd, res, late, dev_side, mem, ci, tfes>>

identified ==
    /\ step = "done" /\ rd = None
    /\ step' = "ready"
    /\ UNCHANGED <<port, used, slot, timeout, rd, res, late, dev_side, mem, ci, tfes>>

\* The call itself, a part of its caller's step.  The parameters are unsigned.
read_sectors(lba, count) ==
    /\ lba \in Nat /\ count \in Nat
    /\ rd' = [lba |-> lba, count |-> count, at |-> lba, left |-> count,
              data |-> << >>]
    /\ IF port = None \/ count = 0
       THEN step' = "ret" /\ res' = [ok |-> FALSE, data |-> << >>]
       ELSE step' = "setup" /\ res' = res
    /\ UNCHANGED <<port, used, slot, timeout, late, dev_side, mem, ci, tfes>>

\* One turn of the loop up to issue_and_wait().
setup ==
    /\ step = "setup" /\ frame_left
    /\ used' = used \cup {alloc_frame}
    /\ slot' = command(rd.at, Lesser(rd.left, MAX_SECTORS), alloc_frame)
    /\ step' = "issue"
    /\ UNCHANGED <<port, timeout, rd, res, late, dev_side, mem, ci, tfes>>

\* Mutant: the bounce frame is not freed when the command failed.
free_on_success == IF res.ok THEN used \ {slot.buf} ELSE used

free_frame == used \ {slot.buf}

\* Mutant: the next command starts where this one did.
next_rd_same_lba(n) ==
    [rd EXCEPT !.left = @ - n, !.data = @ \o SubSeq(mem[slot.buf], 1, n)]

\* dst, lba and count move past what the command transferred.
next_rd(n) ==
    [rd EXCEPT !.at = @ + n, !.left = @ - n, !.data = @ \o SubSeq(mem[slot.buf], 1, n)]

\* The rest of the turn: copy, free, and go on, return true or return false.
transferred ==
    LET next == next_rd(slot.n) IN
    /\ step = "done" /\ rd # None
    /\ used' = free_frame
    /\ rd' = IF res.ok THEN next ELSE rd
    /\ IF res.ok /\ next.left > 0
       THEN step' = "setup" /\ res' = res
       ELSE step' = "ret" /\ res' = [res EXCEPT !.data = rd'.data]
    /\ UNCHANGED <<port, slot, timeout, late, dev_side, mem, ci, tfes>>

driver == issue \/ poll_again \/ answered \/ give_up \/ identified \/ setup
            \/ transferred

----------------------------------------------------------------------------
(* The drive *)

\* It reads the header and the table some time after PxCI was set.
fetch ==
    /\ ci /\ running /\ dev = None
    /\ dev' = slot
    /\ UNCHANGED <<cpu_side, running, faults, mem, ci, tfes>>

complete ==
    /\ dev # None
    /\ mem' = [mem EXCEPT ![dev.buf] =
                  [i \in Part |-> IF i <= dev.n THEN dev.lba + i - 1 ELSE @[i]]]
    /\ dev' = None /\ ci' = FALSE
    /\ UNCHANGED <<cpu_side, running, faults, tfes>>

\* A task file error: the drive ends the command, or, as the AHCI
\* specification has it, leaves it in PxCI and stops until it is restarted.
fail(stop) ==
    /\ dev # None /\ faults < MaxFaults
    /\ tfes' = TRUE /\ dev' = None /\ faults' = faults + 1
    /\ ci' = stop /\ running' = ~stop
    /\ UNCHANGED <<cpu_side, mem>>

drive == fetch \/ complete \/ \E stop \in BOOLEAN : fail(stop)

----------------------------------------------------------------------------

AhciInit ==
    /\ port = None /\ used = {} /\ mem = [f \in Frame |-> [i \in Part |-> None]]
    /\ slot = None /\ ci = FALSE /\ tfes = FALSE /\ timeout = None
    /\ step = "off" /\ rd = None /\ res = None
    /\ dev = None /\ running = TRUE /\ faults = 0 /\ late = FALSE

----------------------------------------------------------------------------
(* Properties *)

\* The sectors a call of read_sectors() asked for.
asked == [i \in 1..rd.count |-> rd.lba + i - 1]

\* ahci.cpp:135 on issue_and_wait(), "returns true on success": when it returns
\* true the sectors of the command are in the bounce frame.
TrueMeansTransferred ==
    (step = "done" /\ rd # None /\ res.ok) =>
        \A i \in 1..slot.n : mem[slot.buf][i] = slot.lba + i - 1

\* As long as no command has outlived its wait, read_sectors() returns true
\* only with exactly the sectors it was asked for, in order, however the request
\* is split and whichever commands fail.
ReadsAreDisk ==
    (step = "ret" /\ res.ok /\ ~late) => res.data = asked

\* Every bounce frame goes back to the allocator on every path out of
\* read_sectors(), and while no command has outlived its wait the drive never
\* has an address of a frame that is not the driver's.
BounceIsHeld ==
    /\ step \in {"ready", "ret"} => used = {port} \ {None}
    /\ (dev # None /\ ~late) => dev.buf \in used

============================================================================
