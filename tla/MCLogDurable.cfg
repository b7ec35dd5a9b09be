\* Spec 8.6 claims that when end_op returns the operation's blocks are
\* durable; with group commit only the last end_op commits.
CONSTANTS
  Procs = {p1, p2}
  Blocks = {b1, b2}
  Vals <- MCVals
  V0 = 0
  NotCached = NotCached
  NoWrite = NoWrite
  LOGSIZE = 2
  MAXOPBLOCKS = 1
  LogDiskSize = 3
  MaxLogWrites = 1
  MaxOps = 1
  MaxCrashes = 0
SPECIFICATION Spec
PROPERTY DurableAfterEndOp
CHECK_DEADLOCK FALSE
