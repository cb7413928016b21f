------------------------------- MODULE AtaPio -------------------------------
(***************************************************************************)
(* The programmed I/O driver of ATA drives: src/drivers/ide/ata_pio.rs and *)
(* the interrupt entry of src/drivers/ide/mod.rs.                          *)
(*                                                                         *)
(* Threads read and write sectors; each step of a call is an action, and   *)
(* the drives and the interrupt handler come in between.  A sector is one  *)
(* value, moved in one step, and is also the block of a data request       *)
(* (sectors_per_drq is zero: nothing calls set_sectors_per_drq).  The      *)
(* drives follow the PIO protocols of the ATA standard and may fail a      *)
(* command at any interrupt; they are external to the repository.          *)
(*                                                                         *)
(* Init is the state after init_from_pci, all drives identified.           *)
(*                                                                         *)
(* Operators named ..._bug are deliberately wrong variants of the          *)
(* definition that follows them.  Nothing uses them; substituted for it,   *)
(* each makes TLC refute one of the properties at the end.                 *)
(***************************************************************************)
EXTENDS Integers, Sequences, FiniteSets, SequencesExt

CONSTANTS Threads,
          Configurations,   \* the sets of drives a machine may have
          MaxLba,    \* the last sector of a drive
          Requests,  \* the calls made: "read" or "write", first sector, count
          MaxCalls,  \* how many calls are made in all
          Chunk      \* the longest transfer of one 24-bit command (0xff sectors)

ASSUME AtaAssumption ==
    /\ Configurations # {}
    /\ \A c \in Configurations : c \subseteq [channel : {0, 1}, slave : BOOLEAN, lba48 : BOOLEAN]
    /\ MaxLba \in Nat /\ MaxCalls \in Nat /\ Chunk \in Nat \ {0}
    /\ \A q \in Requests : /\ q[1] \in {"read", "write"}
                           /\ q[2] \in 0 .. MaxLba /\ q[3] \in 0 .. MaxLba + 1 - q[2]

Lbas == 0 .. MaxLba
Devices == UNION Configurations
Channels == {0, 1}
None == [none |-> TRUE]

VARIABLES present, \* the drives of this machine
          regs,    \* the task file of each channel: [lba, count, slave, lba_bit]
          drive,   \* each drive: [st, dir, lba, left, err]
          disk,    \* the sectors of each drive
          intrq,   \* an interrupt of the channel waits for the CPU
          busy,    \* AtaDevice.busy
          queue,   \* AtaDevice.command_queue
          thr,     \* where each thread stands in its call
          res,     \* the AtaIoRequest each thread waits for: [done, ok, data]
          irq,     \* the handler: the devices left to look at, and its stage
          panicked,
          calls,   \* calls made so far
          overlapped   \* two calls have been in progress at once

vars == <<present, regs, drive, disk, intrq, busy, queue, thr, res, irq, panicked, calls, overlapped>>
hardware == <<present, regs, drive, disk, intrq>>

\* the key under which init registers a device (is_prim is TRUE for all four),
\* the order in which the four are initialised, and the devices that stay
Key(d) == IF d.slave THEN 2 ELSE 0
Order(d) == 2 * d.channel + (IF d.slave THEN 1 ELSE 0)
Registered == {d \in present : \A e \in present : Key(e) = Key(d) => Order(e) <= Order(d)}

\* the devices in the order of their keys, as the handler goes through them
Values == CHOOSE s \in UNION {[1 .. n -> Registered] : n \in 0 .. 2} :
             /\ {s[i] : i \in DOMAIN s} = Registered
             /\ \A i, j \in DOMAIN s : i < j => Key(s[i]) < Key(s[j])

Idle == [pc |-> "idle", op |-> "read", dev |-> None, lba |-> 0, n |-> 0, left |-> 0, sub |-> 0,
         buf |-> <<>>, first |-> <<"zero">>, data |-> <<>>, out |-> <<>>, ok |-> TRUE]
NoRequest == [done |-> FALSE, ok |-> TRUE, data |-> <<>>]
Waiting(err) == [st |-> "idle", dir |-> "read", lba |-> 0, left |-> 0, err |-> err]

Init ==
    /\ present \in Configurations
    /\ regs = [c \in Channels |-> [lba |-> 0, count |-> 0, slave |-> TRUE,
                  lba_bit |-> \E d \in present : d.channel = c /\ d.slave /\ d.lba48]]
    /\ drive = [d \in Devices |-> Waiting(FALSE)]
    /\ disk = [d \in Devices |-> [l \in Lbas |-> <<"old", Order(d), l>>]]
    /\ intrq = [c \in Channels |-> FALSE]
    /\ busy = [d \in Devices |-> FALSE] /\ queue = [d \in Devices |-> None]
    /\ thr = [t \in Threads |-> Idle] /\ res = [t \in Threads |-> NoRequest]
    /\ irq = [todo |-> <<>>, stage |-> "test"]
    /\ panicked = FALSE /\ overlapped = FALSE /\ calls = 0

-----------------------------------------------------------------------------
(* The drives.                                                             *)

\* the drive that answers on a channel, if it is there
Selected(c) == {d \in present : d.channel = c /\ d.slave = regs[c].slave}

\* the status of a channel shows no drive, or one that is neither BSY nor DRQ
StatusIdle(c) == \A x \in Selected(c) : drive[x].st = "idle"
StatusDrq(c)  == \E x \in Selected(c) : drive[x].st = "drq"

\* the command register: the drive takes over the task file.  A count of zero
\* asks for more sectors than any caller; without the LBA bit the address is
\* one of cylinder, head and sector
Accept(c, dir) ==
    \E l \in (IF regs[c].lba_bit THEN {regs[c].lba} ELSE Lbas) :
        drive' = [d \in Devices |->
            IF d \in Selected(c) /\ drive[d].st = "idle"
            THEN [st |-> IF dir = "write" THEN "prepare" ELSE "busy", dir |-> dir, lba |-> l,
                  left |-> IF regs[c].count = 0 THEN MaxLba + 1 ELSE regs[c].count,
                  err |-> FALSE]
            ELSE drive[d]]

\* the drive is ready for the first sector of a write, and raises no interrupt
drive_prepared(d) ==
    /\ drive[d].st = "prepare" /\ drive[d].lba \in Lbas
    /\ drive' = [drive EXCEPT ![d].st = "drq"]
    /\ UNCHANGED <<present, regs, disk, intrq, busy, queue, thr, res, irq, panicked, calls, overlapped>>

\* the drive has the next sector ready, or is ready for it, or has written the
\* last one
drive_ready(d) ==
    LET x == drive[d]
    IN  /\ x.st = "busy" /\ (x.left > 0 => x.lba \in Lbas)
        /\ drive' = [drive EXCEPT ![d] = IF x.left > 0 THEN [x EXCEPT !.st = "drq"] ELSE Waiting(FALSE)]
        /\ intrq' = [intrq EXCEPT ![d.channel] = TRUE]
        /\ UNCHANGED <<present, regs, disk, busy, queue, thr, res, irq, panicked, calls, overlapped>>

\* ... or gives the command up
drive_fails(d) ==
    /\ drive[d].st \in {"prepare", "busy"}
    /\ drive' = [drive EXCEPT ![d] = Waiting(TRUE)]
    /\ intrq' = [intrq EXCEPT ![d.channel] = TRUE]
    /\ UNCHANGED <<present, regs, disk, busy, queue, thr, res, irq, panicked, calls, overlapped>>

\* the data port: what a sector read from it holds
PortData(c) ==
    IF \E x \in Selected(c) : drive[x].st = "drq" /\ drive[x].dir = "read"
    THEN LET x == CHOOSE y \in Selected(c) : TRUE IN disk[x][drive[x].lba]
    ELSE <<"junk">>

\* ... and what the transfer of a sector through it does to the drive
PortTransfer(c, dir, value) ==
    LET hit(x) == x \in Selected(c) /\ drive[x].st = "drq" /\ drive[x].dir = dir
    IN  /\ drive' = [x \in Devices |->
              IF ~hit(x) THEN drive[x]
              ELSE IF dir = "read" /\ drive[x].left = 1 THEN Waiting(FALSE)
              ELSE [drive[x] EXCEPT !.st = "busy", !.lba = @ + 1, !.left = @ - 1]]
        /\ disk' = [x \in Devices |->
              IF hit(x) /\ dir = "write"
              THEN [disk[x] EXCEPT ![drive[x].lba] = value] ELSE disk[x]]

-----------------------------------------------------------------------------
(* The calls.                                                              *)

\* a thread runs when no interrupt is being handled or waits for the CPU
Runs(t, pc) == /\ ~panicked /\ irq.todo = <<>> /\ \A c \in Channels : ~intrq[c]
               /\ thr[t].pc = pc

Goto(t, pc) == thr' = [thr EXCEPT ![t].pc = pc]
rest == <<irq, panicked, calls, overlapped>>

\* AtaDevice::read and AtaDevice::write.  A caller of write has the data of as
\* many sectors as it names; the first one is set apart, padded with zeros
start(t, op, d, lba, n) ==
    LET payload == [i \in 1 .. n |-> <<"new", lba, n, i>>]
    IN  /\ Runs(t, "idle")
        /\ thr' = [thr EXCEPT ![t] =
              [Idle EXCEPT !.pc = "lba", !.op = op, !.dev = d, !.lba = lba, !.n = n, !.left = n,
                           !.first = IF op = "write" /\ n > 0 THEN Head(payload) ELSE @,
                           !.data  = IF op = "write" /\ n > 0 THEN Tail(payload) ELSE @,
                           !.out   = IF op = "write" /\ n > 0 /\ d.lba48 THEN Tail(payload) ELSE @]]
        /\ calls < MaxCalls /\ calls' = calls + 1
        /\ overlapped' = (overlapped \/ \E u \in Threads : thr[u].pc # "idle")
        /\ UNCHANGED <<hardware, busy, queue, res, irq, panicked>>

\* adds what is left instead of what is done
Current_bug(t) == thr[t].lba + thr[t].left

\* the sector the next command starts at
Current(t) == thr[t].lba + (thr[t].n - thr[t].left)

\* leaves the drive register as it is
set_lba_bug(t) ==
    /\ Runs(t, "lba")
    /\ regs' = [regs EXCEPT ![thr[t].dev.channel].lba = Current(t)]
    /\ Goto(t, "count")
    /\ UNCHANGED <<present, drive, disk, intrq, busy, queue, res, rest>>

\* set_lba; a 48-bit one also resets the drive register to LBA mode, master
set_lba(t) ==
    LET c == thr[t].dev.channel
    IN  /\ Runs(t, "lba")
        /\ regs' = [regs EXCEPT ![c] = IF thr[t].dev.lba48
                       THEN [@ EXCEPT !.lba = Current(t), !.lba_bit = TRUE, !.slave = FALSE]
                       ELSE [@ EXCEPT !.lba = Current(t)]]
        /\ Goto(t, "count")
        /\ UNCHANGED <<present, drive, disk, intrq, busy, queue, res, rest>>

\* set_sectors_count; a 24-bit call goes on to its loop of commands
set_sectors_count(t) ==
    LET x == thr[t]
    IN  /\ Runs(t, "count")
        /\ regs' = [regs EXCEPT ![x.dev.channel].count = IF x.sub = 0 THEN x.n ELSE x.sub]
        /\ Goto(t, IF ~x.dev.lba48 /\ x.sub = 0 THEN "chunk" ELSE "cas")
        /\ UNCHANGED <<present, drive, disk, intrq, busy, queue, res, rest>>

\* the loop over the chunks of a 24-bit call: the next command, or the end.
\* write drains one sector for it, at the offset of the chunk in what is left
next_chunk(t) ==
    LET x == thr[t]
        k == IF x.left < Chunk THEN x.left ELSE Chunk
        i == x.n - x.left + 1
    IN  /\ Runs(t, "chunk") /\ x.left # 0 /\ x.ok
        /\ IF x.op = "write" /\ Len(x.data) < i
           THEN panicked' = TRUE /\ UNCHANGED thr
           ELSE /\ thr' = [thr EXCEPT ![t] =
                     [x EXCEPT !.pc = "lba", !.sub = k,
                               !.out  = IF x.op = "write" THEN <<x.data[i]>> ELSE @,
                               !.data = IF x.op = "write" THEN RemoveAt(@, i) ELSE @]]
                /\ UNCHANGED panicked
        /\ UNCHANGED <<hardware, busy, queue, res, irq, calls, overlapped>>

\* the result of the call; write still sends its first sector to the port
last_chunk(t) ==
    LET x == thr[t]
    IN  /\ Runs(t, "chunk") /\ (x.left = 0 \/ ~x.ok)
        /\ IF x.op = "read" THEN UNCHANGED <<drive, disk>>
           ELSE PortTransfer(x.dev.channel, "write", x.first)
        /\ Goto(t, "done")
        /\ res' = [res EXCEPT ![t] = [done |-> TRUE, ok |-> x.ok, data |-> x.buf]]
        /\ UNCHANGED <<present, regs, intrq, busy, queue, rest>>

\* takes the device without waiting for it
send_busy_bug(t) ==
    /\ Runs(t, "cas")
    /\ busy' = [busy EXCEPT ![thr[t].dev] = TRUE]
    /\ Goto(t, "borrow")
    /\ UNCHANGED <<hardware, queue, res, rest>>

\* send_ata_command: wait for the device ...
send_busy(t) ==
    /\ Runs(t, "cas") /\ ~busy[thr[t].dev]
    /\ busy' = [busy EXCEPT ![thr[t].dev] = TRUE]
    /\ Goto(t, "borrow")
    /\ UNCHANGED <<hardware, queue, res, rest>>

\* ... borrow the RefCell of the queue ...
send_borrow(t) ==
    /\ Runs(t, "borrow")
    /\ Goto(t, "queue")
    /\ UNCHANGED <<hardware, busy, queue, res, rest>>

\* ... store the request with the data that is left to transfer ...
send_queue(t) ==
    LET x == thr[t]
    IN  /\ Runs(t, "queue")
        /\ queue' = [queue EXCEPT ![x.dev] =
              [thread |-> t, dir |-> x.op, buffer |-> x.out,
               data_size |-> IF x.sub = 0 THEN x.n ELSE x.sub]]
        /\ res' = [res EXCEPT ![t] = NoRequest]
        /\ Goto(t, "select")
        /\ UNCHANGED <<hardware, busy, rest>>

\* forgets the slave
send_select_bug(t) ==
    /\ Runs(t, "select")
    /\ Goto(t, "command")
    /\ UNCHANGED <<hardware, busy, queue, res, rest>>

\* ... select the slave if it is one (and not the master if it is not) ...
send_select(t) ==
    /\ Runs(t, "select")
    /\ regs' = [regs EXCEPT ![thr[t].dev.channel].slave = @ \/ thr[t].dev.slave]
    /\ Goto(t, "command")
    /\ UNCHANGED <<present, drive, disk, intrq, busy, queue, res, rest>>

\* ... and issue the command
send_command(t) ==
    /\ Runs(t, "command")
    /\ Accept(thr[t].dev.channel, thr[t].op)
    /\ Goto(t, IF thr[t].op = "write" /\ thr[t].dev.lba48 THEN "push" ELSE "wait")
    /\ UNCHANGED <<present, regs, disk, intrq, busy, queue, res, rest>>

\* the first sector of a 48-bit write, padded with zeros
write_first(t) ==
    LET x == thr[t]
    IN  /\ Runs(t, "push")
        /\ PortTransfer(x.dev.channel, "write", x.first)
        /\ Goto(t, "wait")
        /\ UNCHANGED <<present, regs, intrq, busy, queue, res, rest>>

\* AtaIoRequest::complete returns; a 24-bit call collects the data of the chunk
complete(t) ==
    LET x == thr[t]
    IN  /\ Runs(t, "wait") /\ res[t].done
        /\ IF x.dev.lba48 THEN Goto(t, "done")
           ELSE thr' = [thr EXCEPT ![t] =
                   [x EXCEPT !.pc = "chunk", !.ok = res[t].ok,
                             !.buf = IF res[t].ok THEN @ \o res[t].data ELSE @,
                             !.left = IF res[t].ok THEN @ - x.sub ELSE @]]
        /\ UNCHANGED <<hardware, busy, queue, res, rest>>

\* ... or spins
complete_spins(t) == Runs(t, "wait") /\ ~res[t].done /\ UNCHANGED vars

\* the caller goes on
return(t) ==
    /\ Runs(t, "done")
    /\ thr' = [thr EXCEPT ![t] = Idle]
    /\ res' = [res EXCEPT ![t] = NoRequest]
    /\ UNCHANGED <<hardware, busy, queue, rest>>

-----------------------------------------------------------------------------
(* The interrupt handler.                                                  *)

\* an interrupt of either channel: every registered device is looked at
ata_irq_entry(c) ==
    /\ ~panicked /\ irq.todo = <<>> /\ intrq[c]
    /\ intrq' = [intrq EXCEPT ![c] = FALSE]
    /\ irq' = [todo |-> Values, stage |-> "test"]
    /\ UNCHANGED <<present, regs, drive, disk, busy, queue, thr, res, panicked, calls, overlapped>>

Handles(stage) == ~panicked /\ irq.todo # <<>> /\ irq.stage = stage
me == Head(irq.todo)
NextDevice == irq' = [todo |-> Tail(irq.todo), stage |-> "test"]

\* a device that expects no interrupt, or has no command queued yet
irq_skips ==
    /\ Handles("test")
    /\ ~busy[me] \/ (queue[me] = None /\ \A t \in Threads : ~(thr[t].pc = "queue" /\ thr[t].dev = me))
    /\ NextDevice
    /\ UNCHANGED <<hardware, busy, queue, thr, res, panicked, calls, overlapped>>

\* the RefCell is borrowed by the code interrupted, or a write lacks data
irq_panics ==
    /\ Handles("test") /\ busy[me]
    /\ \/ \E t \in Threads : thr[t].pc = "queue" /\ thr[t].dev = me
       \/ /\ queue[me] # None /\ queue[me].dir = "write" /\ StatusDrq(me.channel)
          /\ queue[me].data_size > 0 /\ queue[me].buffer = <<>>
    /\ panicked' = TRUE
    /\ UNCHANGED <<hardware, busy, queue, thr, res, irq, calls, overlapped>>

\* compares what is left after it has counted the sector
handle_irq_transfer_bug ==
    LET q  == queue[me]
        go == q.data_size > 1 /\ StatusDrq(me.channel)
    IN  /\ Handles("test") /\ busy[me] /\ q # None
        /\ \A t \in Threads : ~(thr[t].pc = "queue" /\ thr[t].dev = me)
        /\ go /\ q.dir = "write" => q.buffer # <<>>
        /\ IF go THEN PortTransfer(me.channel, q.dir, IF q.dir = "write" THEN Head(q.buffer) ELSE <<"junk">>)
           ELSE UNCHANGED <<drive, disk>>
        /\ queue' = [queue EXCEPT ![me] =
              [q EXCEPT !.data_size = IF @ > 0 THEN @ - 1 ELSE 0,
                        !.buffer = IF ~go THEN @ ELSE IF q.dir = "write" THEN Tail(@)
                                   ELSE Append(@, PortData(me.channel))]]
        /\ irq' = [irq EXCEPT !.stage = "finish"]
        /\ UNCHANGED <<present, regs, intrq, busy, thr, res, panicked, calls, overlapped>>

\* handle_irq: count a sector as transferred, and move it if the drive asks
handle_irq_transfer ==
    LET q  == queue[me]
        go == q.data_size > 0 /\ StatusDrq(me.channel)
    IN  /\ Handles("test") /\ busy[me] /\ q # None
        /\ \A t \in Threads : ~(thr[t].pc = "queue" /\ thr[t].dev = me)
        /\ go /\ q.dir = "write" => q.buffer # <<>>
        /\ IF go THEN PortTransfer(me.channel, q.dir, IF q.dir = "write" THEN Head(q.buffer) ELSE <<"junk">>)
           ELSE UNCHANGED <<drive, disk>>
        /\ queue' = [queue EXCEPT ![me] =
              [q EXCEPT !.data_size = IF @ > 0 THEN @ - 1 ELSE 0,
                        !.buffer = IF ~go THEN @ ELSE IF q.dir = "write" THEN Tail(@)
                                   ELSE Append(@, PortData(me.channel))]]
        /\ irq' = [irq EXCEPT !.stage = "finish"]
        /\ UNCHANGED <<present, regs, intrq, busy, thr, res, panicked, calls, overlapped>>

\* the status says neither BSY nor DRQ: the command has ended.  On an error
\* read_lba resets the drive register of a 48-bit device, as set_lba does
handle_irq_completes ==
    LET q == queue[me]
        c == me.channel
        err == \E x \in Selected(c) : drive[x].err
    IN  /\ Handles("finish") /\ StatusIdle(c)
        /\ res' = [res EXCEPT ![q.thread] = [done |-> TRUE, ok |-> ~err, data |-> q.buffer]]
        /\ queue' = [queue EXCEPT ![me] = None]
        /\ busy' = [busy EXCEPT ![me] = FALSE]
        /\ regs' = [regs EXCEPT ![c] = IF err /\ me.lba48
                       THEN [@ EXCEPT !.lba_bit = TRUE, !.slave = FALSE] ELSE @]
        /\ NextDevice
        /\ UNCHANGED <<present, drive, disk, intrq, thr, panicked, calls, overlapped>>

\* or it goes on
handle_irq_returns ==
    /\ Handles("finish") /\ ~StatusIdle(me.channel)
    /\ NextDevice
    /\ UNCHANGED <<hardware, busy, queue, thr, res, panicked, calls, overlapped>>

halted == panicked /\ UNCHANGED vars

\* no further call is made
quiet == calls = MaxCalls /\ (\A t \in Threads : thr[t].pc = "idle") /\ UNCHANGED vars

call(t) ==
    \/ \E d \in Registered, q \in Requests : start(t, q[1], d, q[2], q[3])
    \/ return(t)

step(t) ==
    \/ set_lba(t) \/ set_sectors_count(t) \/ next_chunk(t) \/ last_chunk(t)
    \/ send_busy(t) \/ send_borrow(t) \/ send_queue(t) \/ send_select(t) \/ send_command(t)
    \/ write_first(t) \/ complete(t)

drive_step == \E d \in Devices : drive_prepared(d) \/ drive_ready(d) \/ drive_fails(d)
irq_step ==
    \/ \E c \in Channels : ata_irq_entry(c)
    \/ irq_skips \/ irq_panics \/ handle_irq_transfer \/ handle_irq_completes \/ handle_irq_returns

Next == \/ \E t \in Threads : call(t) \/ step(t) \/ complete_spins(t)
        \/ drive_step \/ irq_step \/ halted \/ quiet

Spec == Init /\ [][Next]_vars

\* the CPU runs, and a drive ends what it has started
FairSpec == /\ Spec
            /\ WF_vars(drive_step) /\ WF_vars(irq_step)
            /\ \A t \in Threads : WF_vars(step(t))

-----------------------------------------------------------------------------
(* Properties.                                                             *)

Stages == {"idle", "lba", "count", "chunk", "cas", "borrow", "queue", "select",
           "command", "push", "wait", "done"}

\* Types.  In particular what is left to transfer stays in the range of the
\* counters of AtaCommandRequest and of the drives.
TypeOK ==
    /\ present \in Configurations
    /\ \A c \in Channels : /\ regs[c].lba \in Lbas /\ regs[c].count \in 0 .. MaxLba + 1
                           /\ regs[c].slave \in BOOLEAN /\ regs[c].lba_bit \in BOOLEAN
    /\ \A d \in Devices : /\ drive[d].st \in {"idle", "prepare", "busy", "drq"}
                          /\ drive[d].lba \in 0 .. MaxLba + 1 /\ drive[d].left \in 0 .. MaxLba + 1
                          /\ drive[d].st = "drq" => drive[d].left > 0 /\ drive[d].lba \in Lbas
                          /\ queue[d] # None => queue[d].data_size \in 0 .. MaxLba + 1
    /\ intrq \in [Channels -> BOOLEAN] /\ busy \in [Devices -> BOOLEAN]
    /\ \A t \in Threads : thr[t].pc \in Stages /\ thr[t].left \in 0 .. thr[t].n
    /\ panicked \in BOOLEAN /\ overlapped \in BOOLEAN

\* The call of t has taken its device and has not been answered.
Holds(t, d) ==
    /\ thr[t].dev = d
    /\ \/ thr[t].pc \in {"borrow", "queue"}
       \/ thr[t].pc \in {"select", "command", "push", "wait"} /\ ~res[t].done

\* The busy flag is a lock: whatever threads, interrupts and drives do, it is
\* set exactly when one call has the device and waits for the answer, and the
\* queue holds the request of that call (send_ata_command and handle_irq).
OneCommand ==
    \A d \in Devices :
        /\ Cardinality({t \in Threads : Holds(t, d)}) = IF busy[d] THEN 1 ELSE 0
        /\ queue[d] # None => Holds(queue[d].thread, d)

\* If calls have never overlapped, a read or write of a 48-bit drive that
\* reports success has transferred the sectors asked for, in order, from or to
\* the drive asked for, be it master or slave.
AloneRight ==
    \A t \in Threads :
        LET x == thr[t]
        IN  ~overlapped /\ x.pc = "done" /\ x.dev.lba48 /\ res[t].ok =>
              \A i \in 1 .. x.n :
                 disk[x.dev][x.lba + i - 1] =
                    IF x.op = "read" THEN res[t].data[i]
                    ELSE IF i = 1 THEN x.first ELSE x.data[i - 1]

\* If calls have never overlapped, nothing but the sectors that a write in
\* progress names changes on any drive.
OnlyItsSectors ==
    [][\A d \in Devices, l \in Lbas :
          ~overlapped' /\ disk'[d][l] # disk[d][l] =>
             \E t \in Threads :
                LET x == thr[t]
                IN  /\ x.op = "write"
                    /\ x.dev.lba48 /\ x.n > 0 => d = x.dev /\ l \in x.lba .. x.lba + x.n - 1]_vars

\* A read of one sector or more from a 48-bit drive is under way.
Reading(t) == /\ thr[t].pc \notin {"idle", "done"} /\ thr[t].op = "read"
              /\ thr[t].n > 0 /\ thr[t].dev.lba48

\* If calls never overlap, such a read is answered: no interrupt is lost, comes
\* too early, or leaves a sector with the drive.
AloneCompletes ==
    (\E t \in Threads : Reading(t)) ~> (overlapped \/ \A t \in Threads : ~Reading(t))
=============================================================================
