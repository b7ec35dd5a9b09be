\* Liveness of the sleep locks: two processes contend for the buffers'
\* sleep locks under the fairness of FairSpec.  With one buffer pinned by
\* the log and the other held, a bget of a third block panics.
CONSTANTS
  Procs = {p1, p2}
  NBUF = 2
  Blocks = {k1, k2, k3}
  Vals <- MCVals
  V0 = 0
  NoBlock = NoBlock
  NoProc = NoProc
SPECIFICATION FairSpec
\* A panic("bget: no buffers") halts the kernel: that state has no successor.
CHECK_DEADLOCK FALSE
PROPERTY SleeperWoken
