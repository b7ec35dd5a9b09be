\* Two harts, two locks (tickslock is lock 1, below lock 2), two acquires
\* per hart and one timer interrupt per hart: nested acquires, releases in
\* either order, contention, and clockintr on hart 0 contending with kernel
\* code of hart 1 for tickslock.  A hart may always switch interrupts when
\* it holds nothing, so the system never stops: deadlock is checked.  Under
\* FairSpec every acquire returns.
CONSTANTS
  NCPU = 2
  Locks = {1, 2}
  TicksLock = 1
  NoCpu = NoCpu
  MaxAcq = 2
  MaxIntr = 1
SPECIFICATION FairSpec
INVARIANT TypeOK
INVARIANT NoffMatchesLocks
INVARIANT NoReacquire
INVARIANT InterruptsRestored
PROPERTY AcquireCompletes
