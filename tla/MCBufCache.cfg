\* Concurrent bread/bwrite/brelse: two processes, two buffers, three
\* blocks, so a bread of a new block recycles a buffer, processes race for
\* one buffer's sleep lock, and a held buffer plus one pinned by
\* the log exhaust the cache.
CONSTANTS
  Procs = {p1, p2}
  NBUF = 2
  Blocks = {k1, k2, k3}
  Vals <- MCVals
  V0 = 0
  NoBlock = NoBlock
  NoProc = NoProc
SPECIFICATION Spec
\* A panic("bget: no buffers") halts the kernel: that state has no successor.
CHECK_DEADLOCK FALSE
INVARIANT TypeOK
INVARIANT UniqueIdentity
INVARIANT ExclusiveAccess
INVARIANT Coherent
INVARIANT RefcntExact
