------------------------------ MODULE BufCache ------------------------------
(***************************************************************************)
(* The buffer cache of kernel/bio.c with the sleep locks of               *)
(* kernel/sleeplock.c, used by concurrent processes.                      *)
(*                                                                         *)
(* A process bread()s a block, may change it and bwrite() it, or change  *)
(* it and log_write() it (log.c:219-223), and brelse()s it.  log_write    *)
(* pins the buffer (bpin: refcnt++) unless the block is already in the   *)
(* log; install_trans later writes it home and unpins it.  A logged      *)
(* change is therefore in the cache and not yet on the disk.  bget runs under bcache.lock (one atomic step): it finds *)
(* the block's buffer and takes a reference, or recycles the least        *)
(* recently used unreferenced buffer.  It then drops bcache.lock and      *)
(* takes the buffer's sleep lock, sleeping while another process holds   *)
(* it.  brelse releases the sleep lock first and then, under bcache.lock, *)
(* drops the reference and moves an unreferenced buffer to the head of    *)
(* the LRU list.  The list is a sequence of buffer indices, most recently *)
(* used first (bcache.head.next); the linked-list surgery is abstracted.  *)
(* Disk I/O (virtio_disk_rw) is one step that copies a block.            *)
(***************************************************************************)
EXTENDS Naturals, Sequences, FiniteSets, SequencesExt

CONSTANTS Procs,    \* processes using the cache
          NBUF,     \* param.h: number of buffers
          Blocks,   \* block numbers (one device)
          Vals,     \* block contents
          V0,       \* contents of every block initially
          NoBlock,  \* identity of a buffer never used (dev 0, blockno 0)
          NoProc    \* sleeplock.pid of an unlocked lock

ASSUME /\ NBUF \in Nat \ {0} /\ V0 \in Vals
       /\ NoBlock \notin Blocks /\ NoProc \notin Procs

Bufs == 1 .. NBUF

VARIABLES blockno,  \* buf.blockno
          valid,    \* buf.valid
          refcnt,   \* buf.refcnt
          data,     \* buf.data
          locked,   \* buf.lock.locked
          holder,   \* buf.lock.pid
          lru,      \* the LRU list: lru[1] = head.next (MRU), lru[NBUF] = head.prev
          disk,     \* the disk
          pc,       \* where each process is
          want,     \* the block process p asked bread for
          buf,      \* the buffer bget returned to p
          panicked, \* bget found no buffer: panic("bget: no buffers")
          pinned,   \* the buffer holds a block of the current log transaction (bpin'd)
          last      \* history: the data most recently written to each block

vars == <<blockno, valid, refcnt, data, locked, holder, lru, disk, pc, want, buf, panicked, pinned, last>>

PcVals == {"idle", "acquire", "sleep", "read", "hold", "relse"}

\* binit: every buffer is linked in; buffer i ends up at position NBUF + 1 - i
Init == /\ blockno = [b \in Bufs |-> NoBlock]
        /\ valid = [b \in Bufs |-> FALSE]
        /\ refcnt = [b \in Bufs |-> 0]
        /\ data = [b \in Bufs |-> V0]
        /\ locked = [b \in Bufs |-> FALSE]
        /\ holder = [b \in Bufs |-> NoProc]
        /\ lru = [i \in Bufs |-> NBUF + 1 - i]
        /\ disk = [k \in Blocks |-> V0]
        /\ pc = [p \in Procs |-> "idle"]
        /\ want = [p \in Procs |-> NoBlock]
        /\ buf = [p \in Procs |-> 1]
        /\ panicked = FALSE
        /\ pinned = [b \in Bufs |-> FALSE]
        /\ last = [k \in Blocks |-> V0]

-----------------------------------------------------------------------------
(* bget(dev, blockno), the part under bcache.lock *)

\* the buffer cached for block k, scanning from the MRU end (0 if none)
CachedAt(k) == SelectInSeq(lru, LAMBDA b : blockno[b] = k)

\* mutant: the recycling scan forgets the refcnt == 0 test
RecycleAtAny == Len(lru)

\* the least recently used buffer with refcnt 0, scanning from head.prev
RecycleAt == SelectLastInSeq(lru, LAMBDA b : refcnt[b] = 0)

\* mutant: the cache lookup is skipped, a cached block is loaded again
bgetNoLookup(p, k) ==
  /\ ~panicked /\ pc[p] = "idle" /\ RecycleAt # 0
  /\ want' = [want EXCEPT ![p] = k]
  /\ LET b == lru[RecycleAt]
     IN /\ blockno' = [blockno EXCEPT ![b] = k]
        /\ valid' = [valid EXCEPT ![b] = FALSE]
        /\ refcnt' = [refcnt EXCEPT ![b] = 1]
        /\ buf' = [buf EXCEPT ![p] = b]
  /\ pc' = [pc EXCEPT ![p] = "acquire"]
  /\ UNCHANGED <<data, locked, holder, lru, disk, panicked, pinned, last>>

\* mutant: a recycled buffer keeps valid set (b->valid = 0 dropped)
bgetKeepValid(p, k) ==
  /\ ~panicked /\ pc[p] = "idle"
  /\ want' = [want EXCEPT ![p] = k]
  /\ \/ /\ CachedAt(k) # 0
        /\ refcnt' = [refcnt EXCEPT ![lru[CachedAt(k)]] = @ + 1]
        /\ buf' = [buf EXCEPT ![p] = lru[CachedAt(k)]]
        /\ UNCHANGED blockno
     \/ /\ CachedAt(k) = 0 /\ RecycleAt # 0
        /\ blockno' = [blockno EXCEPT ![lru[RecycleAt]] = k]
        /\ refcnt' = [refcnt EXCEPT ![lru[RecycleAt]] = 1]
        /\ buf' = [buf EXCEPT ![p] = lru[RecycleAt]]
  /\ pc' = [pc EXCEPT ![p] = "acquire"]
  /\ UNCHANGED <<valid, data, locked, holder, lru, disk, panicked, pinned, last>>

\* mutant: a cache hit does not take a reference (b->refcnt++ dropped)
bgetNoRef(p, k) ==
  /\ ~panicked /\ pc[p] = "idle"
  /\ want' = [want EXCEPT ![p] = k]
  /\ \/ /\ CachedAt(k) # 0
        /\ buf' = [buf EXCEPT ![p] = lru[CachedAt(k)]]
        /\ UNCHANGED <<blockno, valid, refcnt>>
     \/ /\ CachedAt(k) = 0 /\ RecycleAt # 0
        /\ blockno' = [blockno EXCEPT ![lru[RecycleAt]] = k]
        /\ valid' = [valid EXCEPT ![lru[RecycleAt]] = FALSE]
        /\ refcnt' = [refcnt EXCEPT ![lru[RecycleAt]] = 1]
        /\ buf' = [buf EXCEPT ![p] = lru[RecycleAt]]
  /\ pc' = [pc EXCEPT ![p] = "acquire"]
  /\ UNCHANGED <<data, locked, holder, lru, disk, panicked, pinned, last>>

bget(p, k) ==
  /\ ~panicked
  /\ pc[p] = "idle"
  /\ want' = [want EXCEPT ![p] = k]
  /\ \/ /\ CachedAt(k) # 0                     \* cached: refcnt++
        /\ refcnt' = [refcnt EXCEPT ![lru[CachedAt(k)]] = @ + 1]
        /\ buf' = [buf EXCEPT ![p] = lru[CachedAt(k)]]
        /\ pc' = [pc EXCEPT ![p] = "acquire"]
        /\ UNCHANGED <<blockno, valid, panicked>>
     \/ /\ CachedAt(k) = 0 /\ RecycleAt # 0    \* recycle the LRU unused buffer
        /\ LET b == lru[RecycleAt]
           IN /\ blockno' = [blockno EXCEPT ![b] = k]
              /\ valid' = [valid EXCEPT ![b] = FALSE]
              /\ refcnt' = [refcnt EXCEPT ![b] = 1]
              /\ buf' = [buf EXCEPT ![p] = b]
        /\ pc' = [pc EXCEPT ![p] = "acquire"]
        /\ UNCHANGED panicked
     \/ /\ CachedAt(k) = 0 /\ RecycleAt = 0    \* panic("bget: no buffers")
        /\ panicked' = TRUE
        /\ UNCHANGED <<blockno, valid, refcnt, buf, pc>>
  /\ UNCHANGED <<data, locked, holder, lru, disk, pinned, last>>

-----------------------------------------------------------------------------
(* sleeplock.c, each body under the sleep lock's spinlock *)

\* one pass of acquiresleep's loop: sleep(lk) while locked, else take it
acquiresleep(p) ==
  /\ pc[p] = "acquire"
  /\ LET b == buf[p]
     IN \/ /\ locked[b]
           /\ pc' = [pc EXCEPT ![p] = "sleep"]
           /\ UNCHANGED <<locked, holder>>
        \/ /\ ~locked[b]
           /\ locked' = [locked EXCEPT ![b] = TRUE]
           /\ holder' = [holder EXCEPT ![b] = p]
           /\ pc' = [pc EXCEPT ![p] = "read"]
  /\ UNCHANGED <<blockno, valid, refcnt, data, lru, disk, want, buf, panicked, pinned, last>>

\* wakeup(lk): the processes sleeping on buffer b's lock become runnable
WakeupLock(b, f) == [q \in Procs |-> IF f[q] = "sleep" /\ buf[q] = b THEN "acquire" ELSE f[q]]

-----------------------------------------------------------------------------
(* bread, bwrite, brelse *)

\* bread: if (!b->valid) { virtio_disk_rw(b, 0); b->valid = 1; }
bread(p) ==
  /\ pc[p] = "read"
  /\ LET b == buf[p]
     IN \/ /\ ~valid[b]
           /\ data' = [data EXCEPT ![b] = disk[blockno[b]]]
           /\ valid' = [valid EXCEPT ![b] = TRUE]
        \/ /\ valid[b]
           /\ UNCHANGED <<data, valid>>
  /\ pc' = [pc EXCEPT ![p] = "hold"]
  /\ UNCHANGED <<blockno, refcnt, locked, holder, lru, disk, want, buf, panicked, pinned, last>>

\* holdingsleep(&b->lock): locked by the caller
holdingsleep(p, b) == locked[b] /\ holder[b] = p

\* the caller changes the data and bwrite()s it: virtio_disk_rw(b, 1)
bwrite(p, v) ==
  /\ pc[p] = "hold"
  /\ holdingsleep(p, buf[p])
  /\ data' = [data EXCEPT ![buf[p]] = v]
  /\ disk' = [disk EXCEPT ![blockno[buf[p]]] = v]
  /\ last' = [last EXCEPT ![blockno[buf[p]]] = v]
  /\ UNCHANGED <<blockno, valid, refcnt, locked, holder, lru, pc, want, buf, panicked, pinned>>

\* the caller changes the data and calls log_write instead of bwrite
\* (log.c:219-223): a block not yet in the log is pinned, bpin's refcnt++
\* keeping it cached; a block already in the log is absorbed
log_write(p, v) ==
  /\ pc[p] = "hold"
  /\ holdingsleep(p, buf[p])
  /\ LET b == buf[p]
     IN /\ data' = [data EXCEPT ![b] = v]
        /\ last' = [last EXCEPT ![blockno[b]] = v]
        /\ refcnt' = IF pinned[b] THEN refcnt ELSE [refcnt EXCEPT ![b] = @ + 1]
        /\ pinned' = [pinned EXCEPT ![b] = TRUE]
  /\ UNCHANGED <<blockno, valid, locked, holder, lru, disk, pc, want, buf, panicked>>

\* install_trans for one logged block, in one step while its sleep lock is
\* free: bread (a cache hit), bwrite home, bunpin, brelse.  The net effect
\* is the disk write and refcnt--; an unused buffer goes to the MRU end.
install(b) ==
  /\ pinned[b]
  /\ ~locked[b]
  /\ disk' = [disk EXCEPT ![blockno[b]] = data[b]]
  /\ pinned' = [pinned EXCEPT ![b] = FALSE]
  /\ refcnt' = [refcnt EXCEPT ![b] = @ - 1]
  /\ lru' = IF refcnt[b] = 1 THEN <<b>> \o Remove(lru, b) ELSE lru
  /\ UNCHANGED <<blockno, valid, data, locked, holder, pc, want, buf, panicked, last>>

\* mutant: releasesleep clears the lock but forgets wakeup(lk)
releasesleepNoWakeup(p) ==
  /\ pc[p] = "hold"
  /\ holdingsleep(p, buf[p])
  /\ locked' = [locked EXCEPT ![buf[p]] = FALSE]
  /\ holder' = [holder EXCEPT ![buf[p]] = NoProc]
  /\ pc' = [pc EXCEPT ![p] = "relse"]
  /\ UNCHANGED <<blockno, valid, refcnt, data, lru, disk, want, buf, panicked, pinned, last>>

\* brelse, first half: holdingsleep check, then releasesleep (locked = 0, wakeup)
releasesleep(p) ==
  /\ pc[p] = "hold"
  /\ holdingsleep(p, buf[p])
  /\ locked' = [locked EXCEPT ![buf[p]] = FALSE]
  /\ holder' = [holder EXCEPT ![buf[p]] = NoProc]
  /\ pc' = [WakeupLock(buf[p], pc) EXCEPT ![p] = "relse"]
  /\ UNCHANGED <<blockno, valid, refcnt, data, lru, disk, want, buf, panicked, pinned, last>>

\* mutant: the buffer is linked in at the head without being unlinked first
brelseNoUnlink(p) ==
  /\ pc[p] = "relse"
  /\ refcnt' = [refcnt EXCEPT ![buf[p]] = @ - 1]
  /\ lru' = IF refcnt[buf[p]] = 1 THEN <<buf[p]>> \o lru ELSE lru
  /\ pc' = [pc EXCEPT ![p] = "idle"]
  /\ UNCHANGED <<blockno, valid, data, locked, holder, disk, want, buf, panicked, pinned, last>>

\* brelse, second half under bcache.lock: refcnt--, an unused buffer goes to the MRU end
brelse(p) ==
  /\ pc[p] = "relse"
  /\ LET b == buf[p]
     IN /\ refcnt' = [refcnt EXCEPT ![b] = @ - 1]
        /\ lru' = IF refcnt[b] = 1 THEN <<b>> \o Remove(lru, b) ELSE lru
  /\ pc' = [pc EXCEPT ![p] = "idle"]
  /\ UNCHANGED <<blockno, valid, data, locked, holder, disk, want, buf, panicked, pinned, last>>

Proc(p) == \/ \E k \in Blocks : bget(p, k)
           \/ acquiresleep(p) \/ bread(p)
           \/ \E v \in Vals : bwrite(p, v) \/ log_write(p, v)
           \/ releasesleep(p) \/ brelse(p)

Next == \/ \E p \in Procs : Proc(p)
        \/ \E b \in Bufs : install(b)

\* xv6's scheduler runs every RUNNABLE process (a sleeper is not runnable),
\* and a caller keeps a buffer only for a bounded stretch of work (bio.c:
\* "do not keep them longer than necessary"): each step from bget to the
\* end of brelse is weakly fair.  Starting a bread and changing data are not.
Spec == Init /\ [][Next]_vars
FairSpec == /\ Spec
            /\ \A p \in Procs : /\ WF_vars(acquiresleep(p)) /\ WF_vars(bread(p))
                                /\ WF_vars(releasesleep(p)) /\ WF_vars(brelse(p))

-----------------------------------------------------------------------------
(* Properties *)

\* Type invariant.  lru is always a permutation of the NBUF buffers:
\* brelse's unlink and re-insert at the head never loses or repeats one.
TypeOK == /\ blockno \in [Bufs -> Blocks \cup {NoBlock}]
          /\ valid \in [Bufs -> BOOLEAN]
          /\ refcnt \in [Bufs -> Nat]
          /\ data \in [Bufs -> Vals]
          /\ locked \in [Bufs -> BOOLEAN]
          /\ holder \in [Bufs -> Procs \cup {NoProc}]
          /\ lru \in Seq(Bufs) /\ ToSet(lru) = Bufs /\ Len(lru) = NBUF
          /\ disk \in [Blocks -> Vals]
          /\ pc \in [Procs -> PcVals]
          /\ want \in [Procs -> Blocks \cup {NoBlock}]
          /\ buf \in [Procs -> Bufs]
          /\ panicked \in BOOLEAN
          /\ pinned \in [Bufs -> BOOLEAN]
          /\ last \in [Blocks -> Vals]

\* Spec 8.1, strengthened: however bget calls interleave, no block is
\* cached in two buffers, so two processes never hold separate copies.
UniqueIdentity == \A b1, b2 \in Bufs :
                    (b1 # b2 /\ blockno[b1] # NoBlock) => blockno[b1] # blockno[b2]

\* From bread to brelse a process is the only one inside its buffer, and
\* the buffer still holds the block it asked for: the reference bget
\* took before sleeping on the lock kept the buffer from being recycled.
ExclusiveAccess == \A p \in Procs :
                     pc[p] \in {"read", "hold"} =>
                       /\ holdingsleep(p, buf[p])
                       /\ blockno[buf[p]] = want[p]
                       /\ \A q \in Procs \ {p} : pc[q] \in {"read", "hold"} => buf[q] # buf[p]

\* A valid buffer holds the last data written to its block, by bwrite or
\* by log_write, whether or not it has reached the disk: recycling clears
\* valid, so no process reads another block's stale data, and the pin
\* keeps a logged change from being recycled before install_trans.  A
\* block with no pinned buffer has its last data on the disk.
Coherent == /\ \A b \in Bufs : valid[b] => data[b] = last[blockno[b]]
            /\ \A k \in Blocks :
                 (\A b \in Bufs : pinned[b] => blockno[b] # k) => disk[k] = last[k]

\* Every reference counted in refcnt belongs to a process between bget and
\* the end of brelse, or is the log's pin: no reference leaks and none is lost.
RefcntExact == \A b \in Bufs :
                 refcnt[b] = Cardinality({p \in Procs : pc[p] # "idle" /\ buf[p] = b})
                               + (IF pinned[b] THEN 1 ELSE 0)

\* No lost wakeup in releasesleep: a process sleeping on a buffer's lock
\* is eventually woken (it may lose the race and sleep again).
SleeperWoken == \A p \in Procs : pc[p] = "sleep" ~> pc[p] # "sleep"
=============================================================================
