\* Safety and crash atomicity of the redo log with group commit.
\* LOGSIZE = 2, MAXOPBLOCKS = 1: two operations may be open at once and a
\* third sleeps for log space; one crash may strike anywhere, recovery included.
\* Under weak fairness of every process (xv6's scheduler runs every RUNNABLE
\* process) each begin_op, including the third one's wait for log space, is
\* followed by a return from end_op.  The workload is bounded (MaxOps per
\* process), so the system stops when it is done: deadlock is not checked;
\* a stuck sleeper violates OpsComplete.
CONSTANTS
  Procs = {p1, p2, p3}
  Blocks = {b1, b2}
  Vals <- MCVals
  V0 = 0
  NotCached = NotCached
  NoWrite = NoWrite
  LOGSIZE = 2
  MAXOPBLOCKS = 1
  LogDiskSize = 3
  MaxLogWrites = 1
  MaxOps = 1
  MaxCrashes = 1
SPECIFICATION FairSpec
INVARIANT TypeOK
INVARIANT NoLogPanic
INVARIANT PinsMatchLog
INVARIANT QuiescentHeaderEmpty
PROPERTY AtomicDiskRefined
CHECK_DEADLOCK FALSE
PROPERTY OpsComplete
PROPERTY LoggedWritesCommit
