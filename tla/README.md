# TLA+ models of the xv6 kernel core

This directory holds TLA+ specifications of the concurrent and crash-prone
parts of the xv6 kernel under `src/kernel/`, the TLC configurations that
check them, and `PROJECT.json`, which maps every definition to the source
lines it models and lists the runs, seeded faults (mutants), findings and
hazards.

## The system and its parts

| Part (spec.md) | Source | State | Operations |
|---|---|---|---|
| C1 frame allocator | `kalloc.c` | `kmem.freelist` | `kinit`, `freerange`, `kfree`, `kalloc` |
| C2/C3 spin lock, per-CPU state | `spinlock.c`, `spinlock.h` | `locked`, `cpu`; per CPU `noff`, `intena`, interrupt enable | `acquire`, `release`, `holding`, `push_off`, `pop_off` |
| C4 sleep lock | `sleeplock.c` | `locked`, `pid` | `acquiresleep`, `releasesleep`, `holdingsleep` |
| C5 trap pipeline | `trap.c` | trap frame, `ticks` | `usertrap`, `usertrapret`, `kerneltrap`, `devintr`, `clockintr` |
| C6 buffer cache | `bio.c`, `buf.h` | `bcache.buf[NBUF]` (`blockno`, `valid`, `refcnt`, `data`, sleep lock), the LRU list | `binit`, `bget`, `bread`, `bwrite`, `brelse`, `bpin`, `bunpin` |
| C7 redo log | `log.c` | `struct log` (`lh`, `outstanding`, `committing`), the on-disk header and log bodies | `initlog`, `recover_from_log`, `begin_op`, `log_write`, `end_op`, `commit` |
| C8 ELF loader | `exec.c` | the process's page table, size, trap frame | `exec`, `loadseg` |
| C9 pipe | `pipe.c` | `nread`, `nwrite`, `data`, `readopen`, `writeopen` | `pipealloc`, `pipewrite`, `piperead`, `pipeclose` |
| boot | `main.c` | `started`, `kernel_pagetable`, each hart's `satp` | `main` on every hart |

How they interact: every spin lock acquisition nests `push_off` on the
current CPU; the sleep lock is a spin lock plus `sleep`/`wakeup`. The log
sits on the buffer cache: `log_write` pins a buffer (`bpin`) so it cannot be
recycled before `install_trans` unpins it; `write_log` reads home blocks
through the cache. A file-system call brackets its block writes with
`begin_op`/`end_op`; the last `end_op` of a group commits. `exec` runs inside
one log operation. The pipe lives in one frame from `kalloc`.
`main` runs `kinit` on hart 0 before it releases the other harts through
`started`; those harts then turn paging on with the page table `kvminit`
built and run processes that call `kalloc`/`kfree`.

What makes it hard: several processes interleave in `bget`, on a buffer's
sleep lock, in `begin_op`/`end_op`; a crash can hit between any two disk
writes of `commit`, and recovery must replay idempotently; sleepers must be
woken (`wakeup(&log)`, `releasesleep`, pipe wakeups); the log and the cache
are bounded (`LOGSIZE`, `NBUF`) and overflow panics.

## Modules

* `AtomicDisk` — the abstract specification of the log: a disk of blocks and
  one pending transaction; writes go to the transaction, `Commit` applies it
  whole, `Crash` drops it.
* `Log` — `log.c` over an abstracted buffer cache, with crashes. Variables:
  `disk`, `logdisk` (log bodies), `dhead` (on-disk header as a sequence of
  block numbers), `cache` (cached home-block data or `NotCached`), `pin`
  (the refcnt that `bpin`/`bunpin` add), `lh`, `outstanding`, `committing`,
  `tail` (loop index of `write_log`/`install_trans`), per process `pc`, and
  `boot` (`read`/`install` during `recover_from_log`, `up`, or `panic`).
  Every critical section under `log.lock` is one action; the loops of
  `write_log` and `install_trans` take one action per iteration, since each
  iteration is a disk write a crash can follow. `WriteBlock` is a caller's
  `bread`, modify, `log_write`, `brelse`. `Evict` is another process's `bget`
  recycling an unreferenced buffer; `Crash` clears memory and reboots into
  recovery. `Log` refines `AtomicDisk` under the mapping `LogicalDisk` (the
  disk as recovery would leave it) and `PendingTx` (cached data of the blocks
  in `log.lh` while the on-disk header is empty).
* `BufCache` — `bio.c` with `sleeplock.c`. Per buffer `blockno`, `valid`,
  `refcnt`, `data`, `locked`, `holder`; `lru` is the list as a sequence of
  buffer indices, MRU first. Each process runs `bget` (one action under
  `bcache.lock`: hit, recycle or panic), `acquiresleep` (one pass of its loop:
  sleep or take), `bread`'s disk read, any number of changes written either by `bwrite`
  or by `log_write`, and `brelse` in two actions (`releasesleep`, then the `refcnt`/LRU update under
  `bcache.lock`), because another process can run in between.
  `log_write` is the write path of `log.c:219-223`. It changes the data
  and pins a buffer that is not yet in the log (`pinned`, one more
  reference), and it leaves the disk alone. `install` is `install_trans`
  for one logged block, taken as one step while the sleep lock is free:
  it writes the block home and unpins it. The history variable `last`
  records the data most recently written to each block by either path.
* `PipeChannel` — the abstract specification of a pipe: a FIFO of at
  most `PIPESIZE` bytes. `Create` opens both ends. `Put` appends a byte
  while both ends are open and the channel is not full. `Take(k)` removes
  the `k` oldest bytes while the read end is open. `Close(e)` closes an
  end for good.
* `Pipe` — `pipe.c`. Variables `nread`, `nwrite` (kept modulo `Wrap`, a
  multiple of `PIPESIZE`, so the `uint` wrap-around of the counters happens
  in the model), `data`, `readopen`, `writeopen`, `freed` (the `kfree(pi)`
  of `pipeclose`), `lock` (the holder of `pi->lock`), per process `pc`, the
  request `n`, the loop index `i`, `killed`, `ret`, and the history
  variables `sent`, `consumed` and `returned` (the byte stream stored into,
  taken from, and handed out of the ring). Each pass of `pipewrite`'s loop
  is one action under the lock: fail (killed or read end closed, returns
  -1), full (wake readers, sleep), store one byte, or done (`i = n` or a
  `copyin` fault; wake readers, return `i`). `piperead` is a wait step and a
  copy step that takes every available byte up to `n` or stops at a
  `copyout` fault. `sleep` releases the lock and `wakeup` moves sleepers to
  re-acquire it. `kill` sets `killed` and wakes its victim. `pipeclose`
  closes an end once its users are idle. It stands for `fileclose`
  dropping the end's last reference: the file entry returns to the table
  (`ffree`), and the last close returns the page (`frames`). Before all
  this, `pipealloc` runs: `alloc` is its position, `f0`, `f1` and `pi` its
  locals. It has one action per `filealloc`, one for `kalloc` with the
  pipe's initialisation, and one for the whole `goto bad` cleanup.
  `filealloc` (`file.c`, not in the repository) hands out a free entry or
  0. `avail0` is a history variable holding the free files and pages
  before `pipealloc`. `Pipe` refines `PipeChannel` under the mapping
  `Chan`: the channel exists once `pipealloc` has succeeded, its bytes
  are `RingBytes(Count)`, and its open ends are `readopen` and
  `writeopen`.
* `SpinLock` — `spinlock.c` with the timer path of `trap.c`. Per hart:
  `intr` (SIE), `noff`, `intena`, `frame` (kernel code or the trap handler),
  `spie` (the saved SIE of `kerneltrap`), and per frame `pc`, `want`, `held`.
  Per lock: `locked`, `owner`. `acquire` is `push_off`, the `holding` check
  and then the test-and-set as a step of its own; `release` is clearing the
  owner, unlocking and `pop_off`. The kernel code of a hart takes locks in
  the lock order and releases them in any order. It turns interrupts on or
  off only when it holds nothing; `sie` remembers what it chose. A trap
  with SIE on enters `kerneltrap`, which saves SIE. On hart 0 it runs
  `clockintr` (`acquire(&tickslock)`, `ticks++`, `release`); on any hart it
  then returns and restores SIE.
* `Kalloc` — `kalloc.c`. `freelist` is `kmem.freelist` as a sequence.
  `contents` is each page's fill (`junk1`, `junk5`, or the owner's `data`).
  `p` is `freerange`'s loop variable and `booted` is `main`'s hand-off to
  the other harts. Per hart: `pc`, `page`, `owned`. Each `freerange`
  iteration is one `kfree`. The critical sections of `kalloc` and `kfree`
  are atomic steps. The memsets outside `kmem.lock` are steps of their own.
* `Exec` — `exec.c` and `loadseg`, run by several processes at once. They
  share three things: kalloc's free frames (`nfree`), the log's admission
  (`outstanding`, through `begin_op`/`end_op`), and each inode's sleep lock
  (`ilocked`). Per process: `pc` (the step of `exec` it is at), the `file`
  and `argv` it passed, the half-built page table (`pt`, `sz`), the loop
  index `i`, the locked inode `ip`, and the stack it built (`stk`).
  `image` is what the caller sees: `p->sz`, `p->pagetable`, and the trap
  frame's `epc`, `sp`, `a1`. `saved` is a history variable: the image at
  the call. Each step of `exec` is one action, and every `goto bad` leads
  to the `bad` action: `namei`, `ilock`, the header checks with
  `proc_pagetable`, one action per program header (skip, reject, out of
  memory, or map and `loadseg`), `iunlockput`/`end_op`, the two stack
  pages, the argument copy, and the commit. `PushArgs` is the argument
  loop as a recursive operator. A file is a record: does it exist, is the
  header good, the entry point, and the program headers with `type`,
  `vaddr`, `memsz`, `filesz`, and whether the segment's bytes can be read.
  The helpers live in `vm.c`, `proc.c` and `fs.c`, which are not in the
  repository. `uvmalloc`, `walkaddr`, `proc_pagetable` and
  `proc_freepagetable` follow their contracts. A page table costs its
  root frame plus one frame per page.
* `Trap` — `usertrap`, `usertrapret`, `kerneltrap` and `devintr`'s
  classification on one hart running one process. The supervisor CSRs are
  variables: `mode`, `sie`, `spie`, `spp`, `sepc`, `scause`, `stvec`; with
  them the trapframe's `epc`, `p->killed`, `usertrap`'s `which_dev` and
  `kerneltrap`'s saved `sepc`/`sstatus` (`ksaved`). `pc` is a user
  instruction (a model value of the user program `UserCode`, a loop) or a
  point of the kernel code. The hardware's trap entry (`TakeTrap`: save pc
  and mode, clear SIE, jump to `stvec`) and `sret` are steps of their own,
  so an interrupt can arrive between any two kernel steps while SIE is
  set. One action per stretch of code between such points: `usertrap`'s
  entry (SPP check, `w_stvec(kernelvec)`, `epc = r_sepc()`), its dispatch
  on `scause` (ecall: killed check, `epc += 4`, `intr_on`; `devintr`;
  otherwise `setkilled`), `syscall` (which may be an `exec` that sets a
  new `epc`), the final killed check, `yield`; `usertrapret`'s `intr_off`
  and the rest of it (`stvec`, SPP, SPIE, `w_sepc(epc)`); `kerneltrap`
  with its panics, its `yield` and its restore. `yield()` is `Clobber`:
  other processes run and trap on the hart, leaving any `sepc`, `scause`,
  SPP and SPIE behind (the scheduler, `proc.c`, is not in the
  repository). `kill()` from another hart may set `killed` at any point.
  `resume` is an auxiliary variable: where user code must continue.
* `Boot` — `main()` on every hart under RISC-V weak memory ordering.
  `pc` per hart; `call` is hart 0's position in its list of init calls
  (`Calls0`, in `main`'s order). Hart 0's stores go through a store buffer
  `sb` and reach `mem` one at a time, in any order (`Drain`). A
  secondary hart may perform its later loads early while it spins
  (`Prefetch`, into `view`). Of the init data, only what other harts read
  without a lock is kept: `kernel_pagetable`, stored by `kvminit` and
  loaded by each hart's `kvminithart` into `satp`. One action per init
  call of hart 0; `__sync_synchronize()` waits for an empty buffer on hart
  0 and refreshes `view` on a secondary; `started = 1` is a buffered
  store; the spin loop is a volatile load of memory. Data behind locks
  (`kmem`, `bcache`, the proc table) is ordered by the locks' fences.
* `BootKalloc` — `Boot` and `Kalloc` composed: `kinit`, hart 0's third
  init call, is `freerange`'s loop, and it must finish before `main`
  goes on. Secondary harts call `kalloc`/`kfree` only once in
  `scheduler()`.
* `MCLog`, `MCBufCache`, `MCPipe`, `MCSpinLock`, `MCExec`, `MCTrap` — the
  model-checking instances. `BootKalloc` is checked directly.

## Runs

| Run | Config | Checks | Result |
|---|---|---|---|
| log_safety | `MCLog.cfg` | `TypeOK`, `NoLogPanic`, `PinsMatchLog`, `QuiescentHeaderEmpty`, `AtomicDiskRefined`, `OpsComplete`, `LoggedWritesCommit` | pass |
| log_absorb_panic | `MCLogAbsorb.cfg` | `NoLogPanic` | violation (finding) |
| log_durable_end_op | `MCLogDurable.cfg` | `DurableAfterEndOp` | violation (finding) |
| bufcache_safety | `MCBufCache.cfg` | `TypeOK`, `UniqueIdentity`, `ExclusiveAccess`, `Coherent`, `RefcntExact` | pass |
| bufcache_liveness | `MCBufCacheLive.cfg` | `SleeperWoken` | pass |
| pipe_safety | `MCPipe.cfg` | `TypeOK`, `SleepJustified`, `ResourcesConserved`, `ChannelRefined`, `CallsReturn` | pass |
| pipe_killed_write_count | `MCPipeKilledWriteReportsBytes.cfg` | `KilledWriteReportsBytes` | violation (finding) |
| pipe_copyout_drop | `MCPipeReturnedIsStream.cfg` | `ReturnedIsStream` | violation (finding) |
| trap_pipeline | `MCTrap.cfg` | `TypeOK`, `NoTrapPanic`, `ModeConsistent`, `ResumeCorrect`, `KilledExits` | pass |
| spinlock_safety | `MCSpinLock.cfg` | `TypeOK`, `NoffMatchesLocks`, `NoReacquire`, `InterruptsRestored`, `AcquireCompletes` | pass |
| boot_kalloc | `MCBootKalloc.cfg` | `TypeOK`, `FramesConserved`, `FreePagesJunk`, `PagingOnKernelTable`, `AllHartsSchedule` | pass |
| exec_safety | `MCExec.cfg` | `TypeOK`, `FramesConserved`, `CallerImageIntact`, `OpsAndLocksBalanced`, `NoLoadsegPanic`, `StackLayout`, `ExecReturns` | pass |

What they show:

* `AtomicDiskRefined`: whatever the interleaving of three calls and wherever
  one crash falls (including during recovery), the disk as recovery sees it
  changes only by applying a whole group's writes at `write_head`.
* `NoLogPanic`: the reservation in `begin_op` keeps `log_write` from
  overflowing and no call is open while committing. With `LOGSIZE = 2`,
  `MAXOPBLOCKS = 1` two operations share a transaction and fill the log.
* `PinsMatchLog`: the pins equal the logged, not yet installed blocks, so a
  logged buffer is never evicted and none stays pinned.
* `QuiescentHeaderEmpty`: spec 8.5.
* `OpsComplete`: every `begin_op` is followed by a return from `end_op`.
* `LoggedWritesCommit`: a block in `log.lh` eventually appears in the
  on-disk header, unless a crash intervenes. This holds because the last
  `end_op` commits; testing `outstanding` before the decrement would leave
  the write stranded. Each process's operations are bounded, so an
  endless overlap of operations that postpones commit forever is not
  among the checked behaviours.
* `UniqueIdentity`, `ExclusiveAccess`, `Coherent`, `RefcntExact`: spec 8.1,
  the sleep lock's exclusion together with the reference `bget` takes before
  sleeping. `Coherent`: a valid buffer holds the last data written to its
  block, even when a logged change has not reached the disk yet, and a
  block with no pinned buffer has that data on disk. `refcnt` counts the
  processes between `bget` and the end of `brelse`, plus the log's pin.
* `SleeperWoken`: no lost wakeup on a buffer's sleep lock.
* `SleepJustified`: whenever `pi->lock` is free, a sleeping writer faces a
  full ring with the read end open, and a sleeping reader an open write end.
* `ResourcesConserved`: no file entry or page is lost or freed twice.
  Each `goto bad` of `pipealloc` gives back exactly what it took, and the
  closes give back both files and, after the second, the page.
* `ChannelRefined` (spec 8.9): the pipe implements the bounded FIFO
  channel. With the counters wrapping and two writers interleaving, the
  ring holds at most `PIPESIZE` bytes, and they are exactly the next
  bytes of the stream written. No byte is overwritten, lost or
  duplicated. A byte is never stored after the read end closed, not even
  by a writer woken from a full ring after the reader left. A read takes
  the oldest bytes, and no end reopens. The ring contents alone would not
  show a store that skips the `readopen` test: the stray bytes sit in the
  ring in order.
* `CallsReturn`: every `pipewrite`/`piperead` returns, whether the other
  side keeps calling, is killed or closes.
* `NoffMatchesLocks`, `NoReacquire`, `InterruptsRestored`,
  `AcquireCompletes`: `noff` counts exactly the locks a hart holds or spins
  for, and interrupts are off while it is positive. A timer interrupt
  never lands on a hart that holds `tickslock`. Interrupts come back as
  the kernel code set them (spec E2). Every acquire returns. Each hart
  acquires a bounded number of times, so this shows that contention
  always ends, not that test-and-set is starvation-free: under unbounded
  contention one hart can lose every race.
* `NoTrapPanic`: none of the panics of `usertrap` and `kerneltrap` fires,
  whatever interrupts arrive: `usertrapret` turns interrupts off before
  `stvec` points at the trampoline, and `usertrap` points it back at
  `kernelvec` before `intr_on`. `Trap`'s `TypeOK` also says that a kernel
  interrupt lands only in code that runs with interrupts on.
* `ModeConsistent`: the hart is in user mode exactly when it runs user
  code. Every `sret` lands in the right mode, also when a `yield` inside
  `kerneltrap` let other traps overwrite `sepc` and `sstatus`.
* `ResumeCorrect`: every return to user mode continues at the right
  instruction: after the `ecall`, at the interrupted instruction, or at
  `exec`'s new entry, although interrupts during `syscall` overwrite
  `sepc`.
* `KilledExits`: a killed process exits, also when `kill` comes after
  `usertrap`'s last check: the timer traps it again.
* `FramesConserved`: `freerange` frees exactly the aligned pages of
  `[end, PHYSTOP)`. Afterwards every frame is in exactly one place: the
  free list, a caller, or a hart between the lock and its memset. So no
  page is handed out twice and none is lost.
* `FreePagesJunk`: every page on the free list holds `kfree`'s junk.
* `PagingOnKernelTable`: every hart turns paging on with the table
  `kvminit` stored, never with the 0 memory held before. It needs both
  fences: without hart 0's, `started` can drain before
  `kernel_pagetable`; without a secondary's, its early load of
  `kernel_pagetable` stands.
* `AllHartsSchedule`: every hart reaches `scheduler()`. The buffered
  `started` store drains, and the spin loop re-reads memory each time
  (a load hoisted out of the loop would spin forever).
* `Exec`'s `FramesConserved`: no frame leaks on any path out of `exec`.
  Each `goto bad` frees the new page table with the `sz` that covers what
  was mapped. The commit frees the old table with `oldsz`.
* `CallerImageIntact` (spec 8.7): the caller's image is unchanged until
  the commit, and after any failure.
* `OpsAndLocksBalanced`: every path ends the log operation and unlocks the
  inode exactly once. `ip = 0` at line 80 is what keeps a late failure
  from doing it twice.
* `NoLoadsegPanic`: the segment checks keep every file the model offers,
  however malformed, from making `loadseg` panic.
* `StackLayout`: after a successful exec, each argument string and its
  NUL lies in the stack page. No two strings overlap. The `argv` array
  lies below them, and `sp` is 16-byte aligned.
* `ExecReturns`: every exec returns. With `LOGOPS = 1` an exec waits in
  `begin_op` for the other exec's operation. The log operation then
  serialises the execs, so no exec ever waits on another exec's inode
  lock or for frames another exec holds. The mutant that leaves the inode
  lock held on an error path shows a blocked exec.

Findings (violation runs):

1. `log_write` checks `log.lh.n >= LOGSIZE` before its absorption loop
   (`log.c:233`). TLC's trace: two operations each write one block, filling
   `LOGSIZE = 2`; the first re-writes its block and panics, though spec 4.6
   says the write is absorbed. Real xv6 keeps `MAXOPBLOCKS` well below what
   a call writes, so the window is narrow, but it is reachable by the code.
2. An `end_op` that is not the last of its group returns before commit
   (`log.c:172`), so spec 8.6's "after end_op returns every block is
   durable" holds only for the last operation of a group.

3. `pipewrite` returns -1 when the caller is killed or the read end closes
   (`pipe.c:97`), even after it stored bytes. Spec 7 says a call
   interrupted by death returns the count transferred so far.
   The same early return also skips `wakeup(&pi->nread)` (`pipe.c:96`),
   so a reader can stay asleep on a ring that holds bytes until the next
   write or close; `CallsReturn` shows it is woken then.
4. `piperead` advances `nread` before `copyout` (`pipe.c:140`); a fault
   drops that byte, so the bytes returned are not the stream written
   (spec 8.8).

Each property of a passing run is also checked against a seeded fault of the
code it is about (the `mutants` of `PROJECT.json`): dropping the `+1` of
the reservation, `bunpin` during recovery, pinning absorbed writes, writing
the header before the bodies, skipping the erasing `write_head`, forgetting a
`wakeup`, testing `outstanding` before `end_op`'s decrement, skipping the cache lookup, recycling a referenced buffer, keeping
`valid` on recycle, not counting a cache hit, not unlinking in `brelse`,
an off-by-one full test in the pipe, forgetting `piperead`'s or
`pipeclose`'s wakeups, a `goto bad` that closes only `*f0`, a store at `i <= n`, a store that does not test `readopen`, saving `intena` at every
`push_off` or not disabling interrupts, re-enabling interrupts in an inner
`pop_off`, `release` leaving the lock set, `kalloc` not unlinking the page,
`PGROUNDDOWN` in `freerange`, `kfree` without its junk fill, dropping
either `__sync_synchronize()` of `main`, a non-volatile `started`, `exec`
checks and frees done with the wrong size or not at all, switching `stvec`
before `intr_off`, not restoring `sstatus` after `yield`, not reloading
`sepc` from the trapframe, dropping `usertrap`'s last killed check.

## Bounds

* Log: 2 blocks, values {0, 1}, `LOGSIZE = 2`, `MAXOPBLOCKS = 1`, a log
  region of a header and two bodies; safety with 3 processes, one operation
  each and one crash (52k states), checked under `FairSpec` so `OpsComplete`
  covers the third process's wait for log space. Two blocks and two slots are enough for a group commit of
  two operations, absorption, and a crash between the two installs.
* BufCache: 2 buffers, 3 blocks, values {0, 1}; 2 processes. Recycling evicts a
  valid block, and a held buffer plus a buffer pinned by the log run the
  cache out.
* Pipe: `pipealloc` starts with 0, 1 or 2 free file entries and 0 or 1
  free pages. Every path then runs: failure at either `filealloc`,
  failure at `kalloc`, and success. `PIPESIZE = 2`, counters modulo 4, two
  writers and one reader,
  one call each of 1–2 bytes, under `FairSpec` (25k states). The ring
  fills, both sides sleep, the two writers' bytes interleave, and the
  counters wrap. The check relies on `Wrap` being a multiple of
  `PIPESIZE`, as 2^32 is of 512: the index `% PIPESIZE` and the full test
  then behave as with `uint`. A second reader was dropped to keep the
  liveness check small. It gives 368k states and adds no step that one
  reader lacks.
* Trap: a user loop of 3 instructions, so an ecall's resume point, the
  interrupted instruction and an exec entry can differ. Every cause traps
  at every instruction, kernel interrupts come wherever SIE is set, and
  `yield` may leave any CSR values behind. Nothing is bounded: the state
  space is finite as it is (11k states).
* SpinLock: 2 harts, 2 locks (`tickslock` and one more), 2 acquires and 1
  timer interrupt per hart. That is enough for nesting, out-of-order
  release, contention, and a handler acquire on top of kernel code.
* Kalloc: `PGSIZE = 2`, `end = 3` (unaligned), `PHYSTOP = 9` (a partial
  last page). The frames are 4 and 6. Two harts make two `kalloc` calls
  each, so the list runs empty and `kalloc` returns 0. These run inside
  `BootKalloc` with hart 0 and two secondaries (836 states): two
  secondaries let one prefetch while the other already sees `started`,
  and the two buffered stores can drain in either order.
* Exec: 2 processes, one exec each. Pages are 64 bytes, user addresses
  stay below 1024, `uint64` wraps at 2048, `MAXARG = 3`, and there are 10
  frames. There are seven files: good, missing, bad magic, `memsz <
  filesz`, a wrapping segment, an unaligned one, and a truncated one.
  There are three argument vectors: none; one of 16 bytes, where a
  miscounted NUL would show; and two of 30 bytes, which overflow the stack
  page. "good" needs 6 of the 6 free frames, so one exec can run out of
  memory while the other holds frames. The log admits one operation at a
  time (13k states).

## Fairness

The xv6 scheduler runs every RUNNABLE process, so each process's steps are
weakly fair; a sleeping process is not runnable (it has no enabled step
until woken). In `BufCache`, `bget` (starting a new read), `bwrite`,
`log_write` and `install` are not fair: a process need not start work, and a holder does a bounded amount
of work before `brelse`. Crashes and evictions are never forced. In `Pipe`,
every step of `pipealloc` and of a call is fair. New calls and `kill` are not. Closing an end
whose users are idle is fair, because a process that holds a pipe end
eventually exits and `exit` closes its files. In `SpinLock`, the
test-and-set, the kernel code's release, and the handler's steps are fair.
Taking a lock or an interrupt, and toggling SIE, are not. In `Exec`,
every step of an exec is fair and calling `exec` is not. In `Trap`, the
kernel's steps are weakly fair, and the four steps that run with
interrupts enabled are strongly fair: interrupts may delay them but not
forever, since the timer period is long and the PLIC lets a device raise
one interrupt at a time. A timer interrupt of user code is weakly fair,
because the timer fires periodically. User code, ecalls, faults, device
interrupts and `kill` are not fair. In `Boot`, each hart's `main` step is
weakly fair (`start()` jumps to `main` on every hart) and every buffered
store drains eventually, as RVWMO requires; early loads are not forced.
`freerange`'s loop is weakly fair.

`SpinLock` checks deadlock: a hart that holds nothing can always toggle
SIE, so a stuck state would be a real one.

`CHECK_DEADLOCK FALSE` is used where the system really stops: after each
process has run its bounded number of operations, after a panic, and in
`Trap` after the process exits.

## Not modelled

* In `exec.c`, `flags2perm` is left out, because page permissions are
  not modelled. Argument vectors longer than `MAXARG - 1` are also left
  out. Exec's only caller, `sys_exec`, which is not in the repository,
  never passes one. With exactly `MAXARG` strings, `ustack[argc] = 0`
  would write one slot past the array.
* The trapframe's kernel slots, `satp` and the trampoline's register
  saves: register plumbing with no control flow. The work of `devintr`'s
  PLIC branch (`uart.c`, `virtio_disk.c` are not in the repository).
  Other processes and several harts in `Trap`: `yield` stands for them.
* The bodies of `main`'s other init calls (`consoleinit`, `kvminit`'s
  mappings, `procinit`, `plicinit`, `binit`, ...): most live in files not
  in the repository, and none writes data another hart reads without a
  lock except `kernel_pagetable`, so they are steps without data.
  The `printf`s are left out.
* `pipeclose`'s use-after-free window depends on file reference counts
  (`file.c`, not in the repository).
* Device drivers, the file system above the log, and the scheduler itself.
  The scheduler is modelled only through `sleep`/`wakeup` semantics and
  fairness.
