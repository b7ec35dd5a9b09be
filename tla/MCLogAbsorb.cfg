\* log_write tests "too big a transaction" before log absorption: when two
\* open operations have filled the log to LOGSIZE, a second log_write of a
\* block already in the log (as iupdate/writei do) panics.
CONSTANTS
  Procs = {p1, p2}
  Blocks = {b1, b2}
  Vals <- MCVals
  V0 = 0
  NotCached = NotCached
  NoWrite = NoWrite
  LOGSIZE = 2
  MAXOPBLOCKS = 1
  LogDiskSize = 3
  MaxLogWrites = 2
  MaxOps = 1
  MaxCrashes = 0
SPECIFICATION Spec
INVARIANT NoLogPanic
CHECK_DEADLOCK FALSE
