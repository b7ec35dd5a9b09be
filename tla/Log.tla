-------------------------------- MODULE Log --------------------------------
(***************************************************************************)
(* The write-ahead redo log of kernel/log.c over the buffer cache of      *)
(* kernel/bio.c, with crashes and the recovery that initlog runs at boot. *)
(*                                                                         *)
(* File-system system calls (Procs) bracket their block writes with      *)
(* begin_op/end_op; the last end_op of a group runs commit(): write_log,  *)
(* write_head (the commit point), install_trans, and a second write_head  *)
(* that erases the log.  A crash may strike between any two disk writes; *)
(* it loses all of memory (the cache, struct log, the running calls) and *)
(* the next boot runs recover_from_log.                                   *)
(*                                                                         *)
(* Every critical section under log.lock is one atomic step.  A block's   *)
(* data is a single value of Vals.  The buffer cache is abstracted to the *)
(* contents of the cached home blocks and the log's pin count on each;    *)
(* eviction of an unreferenced buffer by some other bget is an            *)
(* environment step (Evict).                                              *)
(***************************************************************************)
EXTENDS Naturals, Sequences, FiniteSets, SequencesExt

CONSTANTS Procs,        \* processes running file-system calls
          Blocks,       \* home block numbers
          Vals,         \* block contents
          V0,           \* contents of every block of a fresh disk
          NotCached,    \* cache[b] = NotCached: no buffer holds block b
          NoWrite,      \* used by the refinement mapping only
          LOGSIZE,      \* param.h: capacity of the in-memory header
          MAXOPBLOCKS,  \* param.h: blocks one operation may write
          LogDiskSize,  \* superblock nlog: header block plus body blocks
          MaxLogWrites, \* bound: log_write calls by one operation
          MaxOps,       \* bound: operations started by one process
          MaxCrashes    \* bound: crashes in one behaviour

ASSUME /\ V0 \in Vals /\ NotCached \notin Vals /\ NoWrite \notin Vals
       /\ {LOGSIZE, MAXOPBLOCKS, LogDiskSize, MaxLogWrites, MaxOps, MaxCrashes} \subseteq Nat
       /\ MAXOPBLOCKS <= LOGSIZE /\ LogDiskSize >= 2

VARIABLES disk,        \* home blocks on disk
          logdisk,     \* log body blocks on disk: logdisk[i] is block log.start+i
          dhead,       \* the log header block on disk, <<block[0], ..., block[n-1]>>
          cache,       \* data of the cached buffer of each home block
          pin,         \* refcnt added by bpin/bunpin (log_write, install_trans)
          lh,          \* log.lh: the in-memory header
          outstanding, \* log.outstanding
          committing,  \* log.committing
          tail,        \* loop index of write_log / install_trans
          pc,          \* where each process is
          touched,     \* blocks written by the current operation of p
          nwrites,     \* log_write calls by the current operation of p
          ops,         \* operations started by p
          boot,        \* "read"/"install": recover_from_log; "up": running; "panic": halted
          crashes

vars == <<disk, logdisk, dhead, cache, pin, lh, outstanding, committing, tail,
          pc, touched, nwrites, ops, boot, crashes>>

LogSlots == 1 .. (LogDiskSize - 1)
PcVals == {"idle", "begin", "sleep", "op", "commit", "wlog", "install", "endcommit"}

-----------------------------------------------------------------------------
(* Helpers *)

\* bread: the data a buffer holds, read from disk when not cached (bio.c 98-107)
Bread(b) == IF cache[b] = NotCached THEN disk[b] ELSE cache[b]

\* wakeup(&log): every process sleeping in begin_op becomes runnable
Wakeup(f) == [q \in Procs |-> IF f[q] = "sleep" THEN "begin" ELSE f[q]]

\* Seeded fault: the reservation forgets the operation being admitted.
AdmissibleNoReserve == /\ ~committing
                       /\ Len(lh) + outstanding * MAXOPBLOCKS <= LOGSIZE

\* begin_op's admission test: not committing and room for one more operation
Admissible == /\ ~committing
              /\ Len(lh) + (outstanding + 1) * MAXOPBLOCKS <= LOGSIZE

\* log_write's "too big a transaction" test, made before log absorption
LogFull == Len(lh) >= LOGSIZE \/ Len(lh) >= LogDiskSize - 1

-----------------------------------------------------------------------------
(* Boot: initlog -> recover_from_log *)

Init == /\ disk = [b \in Blocks |-> V0]
        /\ logdisk = [i \in LogSlots |-> V0]
        /\ dhead = <<>>
        /\ cache = [b \in Blocks |-> NotCached]
        /\ pin = [b \in Blocks |-> 0]
        /\ lh = <<>>
        /\ outstanding = 0
        /\ committing = FALSE
        /\ tail = 0
        /\ pc = [p \in Procs |-> "idle"]
        /\ touched = [p \in Procs |-> {}]
        /\ nwrites = [p \in Procs |-> 0]
        /\ ops = [p \in Procs |-> 0]
        /\ boot = "read"
        /\ crashes = 0

\* read_head: copy the on-disk header into log.lh
ReadHead == /\ boot = "read"
            /\ lh' = dhead
            /\ tail' = 0
            /\ boot' = "install"
            /\ UNCHANGED <<disk, logdisk, dhead, cache, pin, outstanding, committing,
                           pc, touched, nwrites, ops, crashes>>

\* Seeded fault: recovery ignores the recovering flag and calls bunpin.
RecoverInstallUnpin == /\ boot = "install"
                       /\ tail < Len(lh)
                       /\ disk' = [disk EXCEPT ![lh[tail + 1]] = logdisk[tail + 1]]
                       /\ cache' = [cache EXCEPT ![lh[tail + 1]] = logdisk[tail + 1]]
                       /\ pin' = [pin EXCEPT ![lh[tail + 1]] = @ - 1]
                       /\ tail' = tail + 1
                       /\ UNCHANGED <<logdisk, dhead, lh, outstanding, committing,
                                      pc, touched, nwrites, ops, boot, crashes>>

\* one iteration of install_trans(1): copy a log body to its home block, no bunpin
RecoverInstall == /\ boot = "install"
                  /\ tail < Len(lh)
                  /\ disk' = [disk EXCEPT ![lh[tail + 1]] = logdisk[tail + 1]]
                  /\ cache' = [cache EXCEPT ![lh[tail + 1]] = logdisk[tail + 1]]
                  /\ tail' = tail + 1
                  /\ UNCHANGED <<logdisk, dhead, pin, lh, outstanding, committing,
                                 pc, touched, nwrites, ops, boot, crashes>>

\* log.lh.n = 0; write_head(): the log is cleared and the system runs
RecoverClear == /\ boot = "install"
                /\ tail = Len(lh)
                /\ lh' = <<>>
                /\ dhead' = <<>>
                /\ tail' = 0
                /\ boot' = "up"
                /\ UNCHANGED <<disk, logdisk, cache, pin, outstanding, committing,
                               pc, touched, nwrites, ops, crashes>>

Recovery == ReadHead \/ RecoverInstall \/ RecoverClear

-----------------------------------------------------------------------------
(* A file-system call: begin_op, bread/modify/log_write/brelse, end_op *)

\* the system call starts (bounded by MaxOps)
Start(p) == /\ boot = "up"
            /\ pc[p] = "idle"
            /\ ops[p] < MaxOps
            /\ pc' = [pc EXCEPT ![p] = "begin"]
            /\ ops' = [ops EXCEPT ![p] = @ + 1]
            /\ touched' = [touched EXCEPT ![p] = {}]
            /\ nwrites' = [nwrites EXCEPT ![p] = 0]
            /\ UNCHANGED <<disk, logdisk, dhead, cache, pin, lh, outstanding,
                           committing, tail, boot, crashes>>

\* begin_op: one pass of its loop under log.lock; sleep(&log) or admit
begin_op(p) == /\ boot = "up"
               /\ pc[p] = "begin"
               /\ \/ /\ Admissible
                     /\ outstanding' = outstanding + 1
                     /\ pc' = [pc EXCEPT ![p] = "op"]
                  \/ /\ ~Admissible
                     /\ pc' = [pc EXCEPT ![p] = "sleep"]
                     /\ UNCHANGED outstanding
               /\ UNCHANGED <<disk, logdisk, dhead, cache, pin, lh, committing,
                              tail, touched, nwrites, ops, boot, crashes>>

\* Seeded fault: bpin on every log_write, absorbed or not.
log_writePinAlways(b) == \/ /\ LogFull \/ outstanding < 1
                            /\ boot' = "panic"
                            /\ UNCHANGED <<lh, pin>>
                         \/ /\ ~LogFull /\ outstanding >= 1
                            /\ lh' = IF Contains(lh, b) THEN lh ELSE Append(lh, b)
                            /\ pin' = [pin EXCEPT ![b] = @ + 1]
                            /\ UNCHANGED boot

\* log_write(b) under log.lock: panic, absorb, or append and bpin
log_write(b) == \/ /\ LogFull \/ outstanding < 1
                   /\ boot' = "panic"
                   /\ UNCHANGED <<lh, pin>>
                \/ /\ ~LogFull /\ outstanding >= 1
                   /\ Contains(lh, b)
                   /\ UNCHANGED <<lh, pin, boot>>
                \/ /\ ~LogFull /\ outstanding >= 1
                   /\ ~Contains(lh, b)
                   /\ lh' = Append(lh, b)
                   /\ pin' = [pin EXCEPT ![b] = @ + 1]
                   /\ UNCHANGED boot

\* the caller holds b (bread), sets its data to v, calls log_write, brelse.
\* An operation writes at most MAXOPBLOCKS distinct blocks.
WriteBlock(p, b, v) == /\ boot = "up"
                       /\ pc[p] = "op"
                       /\ nwrites[p] < MaxLogWrites
                       /\ b \in touched[p] \/ Cardinality(touched[p]) < MAXOPBLOCKS
                       /\ cache' = [cache EXCEPT ![b] = v]
                       /\ log_write(b)
                       /\ touched' = [touched EXCEPT ![p] = @ \cup {b}]
                       /\ nwrites' = [nwrites EXCEPT ![p] = @ + 1]
                       /\ UNCHANGED <<disk, logdisk, dhead, outstanding, committing,
                                      tail, pc, ops, crashes>>

\* (seeded fault: outstanding tested before the decrement, so the last
\* operation out takes the else branch and nobody commits)
end_opLateCheck(p) == /\ boot = "up"
                      /\ pc[p] = "op"
                      /\ ~committing
                      /\ \/ /\ outstanding = 0
                            /\ outstanding' = 0
                            /\ committing' = TRUE
                            /\ pc' = [pc EXCEPT ![p] = "commit"]
                         \/ /\ outstanding >= 1
                            /\ outstanding' = outstanding - 1
                            /\ pc' = [Wakeup(pc) EXCEPT ![p] = "idle"]
                            /\ UNCHANGED committing
                      /\ UNCHANGED <<disk, logdisk, dhead, cache, pin, lh, tail, touched,
                                     nwrites, ops, boot, crashes>>

\* end_op: the last operation out commits, the others wake begin_op waiters.
\* Its panic("log.committing") is the second conjunct of NoLogPanic.
end_op(p) == /\ boot = "up"
             /\ pc[p] = "op"
             /\ ~committing
             /\ \/ /\ outstanding = 1
                   /\ outstanding' = 0
                   /\ committing' = TRUE
                   /\ pc' = [pc EXCEPT ![p] = "commit"]
                \/ /\ outstanding > 1
                   /\ outstanding' = outstanding - 1
                   /\ pc' = [Wakeup(pc) EXCEPT ![p] = "idle"]
                   /\ UNCHANGED committing
             /\ UNCHANGED <<disk, logdisk, dhead, cache, pin, lh, tail, touched,
                            nwrites, ops, boot, crashes>>

-----------------------------------------------------------------------------
(* commit(), run by the process whose end_op found outstanding == 0 *)

\* if (log.lh.n > 0) ...
commit(p) == /\ boot = "up"
             /\ pc[p] = "commit"
             /\ \/ Len(lh) > 0 /\ pc' = [pc EXCEPT ![p] = "wlog"]
                \/ Len(lh) = 0 /\ pc' = [pc EXCEPT ![p] = "endcommit"]
             /\ tail' = 0
             /\ UNCHANGED <<disk, logdisk, dhead, cache, pin, lh, outstanding,
                            committing, touched, nwrites, ops, boot, crashes>>

\* one iteration of write_log: bread the home block, copy it to the log body
write_log(p) == /\ boot = "up"
                /\ pc[p] = "wlog"
                /\ tail < Len(lh)
                /\ logdisk' = [logdisk EXCEPT ![tail + 1] = Bread(lh[tail + 1])]
                /\ cache' = [cache EXCEPT ![lh[tail + 1]] = Bread(lh[tail + 1])]
                /\ tail' = tail + 1
                /\ UNCHANGED <<disk, dhead, pin, lh, outstanding, committing, pc,
                               touched, nwrites, ops, boot, crashes>>

\* Seeded fault: the header is written before the bodies are all logged.
write_headEarly(p) == /\ boot = "up"
                      /\ pc[p] = "wlog"
                      /\ dhead' = lh
                      /\ tail' = 0
                      /\ pc' = [pc EXCEPT ![p] = "install"]
                      /\ UNCHANGED <<disk, logdisk, cache, pin, lh, outstanding, committing,
                                     touched, nwrites, ops, boot, crashes>>

\* write_head after write_log: the header naming the blocks reaches the disk
write_head(p) == /\ boot = "up"
                 /\ pc[p] = "wlog"
                 /\ tail = Len(lh)
                 /\ dhead' = lh
                 /\ tail' = 0
                 /\ pc' = [pc EXCEPT ![p] = "install"]
                 /\ UNCHANGED <<disk, logdisk, cache, pin, lh, outstanding, committing,
                                touched, nwrites, ops, boot, crashes>>

\* one iteration of install_trans(0): log body to home block, bwrite, bunpin
install_trans(p) == /\ boot = "up"
                    /\ pc[p] = "install"
                    /\ tail < Len(lh)
                    /\ disk' = [disk EXCEPT ![lh[tail + 1]] = logdisk[tail + 1]]
                    /\ cache' = [cache EXCEPT ![lh[tail + 1]] = logdisk[tail + 1]]
                    /\ pin' = [pin EXCEPT ![lh[tail + 1]] = @ - 1]
                    /\ tail' = tail + 1
                    /\ UNCHANGED <<logdisk, dhead, lh, outstanding, committing, pc,
                                   touched, nwrites, ops, boot, crashes>>

\* Seeded fault: commit clears log.lh but skips the second write_head.
clear_logNoErase(p) == /\ boot = "up"
                       /\ pc[p] = "install"
                       /\ tail = Len(lh)
                       /\ lh' = <<>>
                       /\ tail' = 0
                       /\ pc' = [pc EXCEPT ![p] = "endcommit"]
                       /\ UNCHANGED <<disk, logdisk, dhead, cache, pin, outstanding,
                                      committing, touched, nwrites, ops, boot, crashes>>

\* log.lh.n = 0; write_head(): erase the transaction from the log
clear_log(p) == /\ boot = "up"
                /\ pc[p] = "install"
                /\ tail = Len(lh)
                /\ lh' = <<>>
                /\ dhead' = <<>>
                /\ tail' = 0
                /\ pc' = [pc EXCEPT ![p] = "endcommit"]
                /\ UNCHANGED <<disk, logdisk, cache, pin, outstanding, committing,
                               touched, nwrites, ops, boot, crashes>>

\* Seeded fault: committing is cleared without wakeup(&log).
end_commitNoWakeup(p) == /\ boot = "up"
                         /\ pc[p] = "endcommit"
                         /\ committing' = FALSE
                         /\ pc' = [pc EXCEPT ![p] = "idle"]
                         /\ UNCHANGED <<disk, logdisk, dhead, cache, pin, lh, outstanding,
                                        tail, touched, nwrites, ops, boot, crashes>>

\* end_op after commit(): committing = 0; wakeup(&log)
end_commit(p) == /\ boot = "up"
                 /\ pc[p] = "endcommit"
                 /\ committing' = FALSE
                 /\ pc' = [Wakeup(pc) EXCEPT ![p] = "idle"]
                 /\ UNCHANGED <<disk, logdisk, dhead, cache, pin, lh, outstanding,
                                tail, touched, nwrites, ops, boot, crashes>>

-----------------------------------------------------------------------------
(* The environment *)

\* another bget recycles the buffer of b: only when its refcnt is 0
Evict(b) == /\ boot # "panic"
            /\ cache[b] # NotCached
            /\ pin[b] = 0
            /\ cache' = [cache EXCEPT ![b] = NotCached]
            /\ UNCHANGED <<disk, logdisk, dhead, pin, lh, outstanding, committing,
                           tail, pc, touched, nwrites, ops, boot, crashes>>

\* power failure (or a reset after a panic): memory is lost, the disk is kept, the next boot recovers
Crash == /\ crashes < MaxCrashes
         /\ cache' = [b \in Blocks |-> NotCached]
         /\ pin' = [b \in Blocks |-> 0]
         /\ lh' = <<>>
         /\ outstanding' = 0
         /\ committing' = FALSE
         /\ tail' = 0
         /\ pc' = [p \in Procs |-> "idle"]
         /\ boot' = "read"
         /\ crashes' = crashes + 1
         /\ UNCHANGED <<disk, logdisk, dhead, touched, nwrites, ops>>

Proc(p) == \/ Start(p) \/ begin_op(p) \/ \E b \in Blocks, v \in Vals : WriteBlock(p, b, v)
           \/ end_op(p) \/ commit(p) \/ write_log(p) \/ write_head(p)
           \/ install_trans(p) \/ clear_log(p) \/ end_commit(p)

Next == \/ Recovery
        \/ \E p \in Procs : Proc(p)
        \/ \E b \in Blocks : Evict(b)
        \/ Crash

\* The scheduler runs every RUNNABLE process and the boot hart finishes
\* recovery; eviction and crashes are not forced.
Fairness == /\ WF_vars(Recovery)
            /\ \A p \in Procs : WF_vars(Proc(p))

Spec == Init /\ [][Next]_vars
FairSpec == Spec /\ Fairness

-----------------------------------------------------------------------------
(* Properties *)

\* Type invariant.  Among others, bpin/bunpin keep every refcnt pin
\* count a natural number: install_trans never unpins during recovery.
TypeOK == /\ disk \in [Blocks -> Vals]
          /\ logdisk \in [LogSlots -> Vals]
          /\ dhead \in Seq(Blocks) /\ lh \in Seq(Blocks)
          /\ cache \in [Blocks -> Vals \cup {NotCached}]
          /\ pin \in [Blocks -> Nat]
          /\ outstanding \in Nat /\ committing \in BOOLEAN
          /\ tail \in Nat
          /\ pc \in [Procs -> PcVals]
          /\ touched \in [Procs -> SUBSET Blocks]
          /\ nwrites \in [Procs -> Nat] /\ ops \in [Procs -> Nat]
          /\ boot \in {"read", "install", "up", "panic"}
          /\ crashes \in Nat

\* The disk as recovery would leave it: a home block named by the on-disk
\* header takes the body logged for it, every other block its home copy.
LogicalDisk == [b \in Blocks |->
                  LET i == SelectLastInSeq(dhead, LAMBDA x : x = b)
                  IN IF i > 0 THEN logdisk[i] ELSE disk[b]]

\* The writes of the running transaction: the cached data of the blocks in
\* log.lh, until write_head puts them on disk.
PendingTx == [b \in Blocks |->
                IF dhead = <<>> /\ Contains(lh, b) THEN cache[b] ELSE NoWrite]

Abs == INSTANCE AtomicDisk WITH adisk <- LogicalDisk, atx <- PendingTx

\* Crash atomicity (log.c commit/recover_from_log): the disk as recovery
\* sees it changes only by applying a whole transaction of the cached
\* writes, at write_head; crashes at any point lose only uncommitted writes.
AtomicDiskRefined == Abs!Spec

\* log.c never panics: begin_op's reservation of MAXOPBLOCKS per
\* outstanding operation keeps log_write below LOGSIZE ("too big a
\* transaction"), and no operation is open while committing, so end_op
\* never finds log.committing set.
NoLogPanic == /\ boot # "panic"
              /\ committing => \A p \in Procs : pc[p] # "op"

\* Entry i of log.lh is installed once install_trans has passed it.
Installed(i) == \E p \in Procs : pc[p] \in {"install", "endcommit"} /\ i <= tail

\* The refcnt the log adds to a buffer (bpin in log_write, bunpin in
\* install_trans) is exactly one for each logged block not yet installed,
\* and zero otherwise, recovery included: no logged buffer is evictable
\* and no buffer stays pinned after its transaction.
PinsMatchLog == \A b \in Blocks :
                  pin[b] = IF /\ boot = "up"
                              /\ \E i \in 1 .. Len(lh) : lh[i] = b /\ ~Installed(i)
                           THEN 1 ELSE 0

\* Spec 8.5: with no operation open and no commit running, the on-disk
\* header is empty, so a crash then has nothing to replay.
QuiescentHeaderEmpty == (boot = "up" /\ outstanding = 0 /\ ~committing) => dhead = <<>>

\* No lost wakeup in begin_op/end_op: every process that calls begin_op
\* returns from its end_op (or is ended by a crash).
OpsComplete == \A p \in Procs : pc[p] = "begin" ~> pc[p] = "idle"

\* Group commit does not strand a logged write: once log_write has put
\* block b in log.lh, the on-disk header eventually names it (write_head,
\* the commit point) unless a crash comes first.  It rests on end_op's
\* test that this was the last outstanding operation and on begin_op's
\* admission letting the open operations drain.
LoggedWritesCommit ==
  \A b \in Blocks :
     (boot = "up" /\ \E i \in 1 .. Len(lh) : lh[i] = b)
        ~> (boot # "up" \/ \E i \in 1 .. Len(dhead) : dhead[i] = b)

\* Spec 8.6: when end_op returns, the blocks the operation wrote hold
\* their latest contents durably.
DurableAfterEndOp ==
  [][\A p \in Procs :
       (pc[p] \in {"op", "endcommit"} /\ pc'[p] = "idle" /\ crashes' = crashes)
         => \A b \in touched[p] : LogicalDisk'[b] = cache'[b]]_vars
=============================================================================
