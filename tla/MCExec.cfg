\* Two processes, one exec each, over seven files and three argument
\* vectors.  10 frames: each image starts at one page (two frames); "good"
\* needs six, so one exec of it can run out of memory while the other
\* holds frames.  The log admits one operation at a time, so execs also
\* wait in begin_op.  Every exec ends, so the system stops: deadlock is
\* not checked; a stuck exec violates ExecReturns.
CONSTANTS
  Procs = {p1, p2}
  Files = {"good", "missing", "nomagic", "shrink", "wrap", "unaligned", "short"}
  ELF <- MCELF
  Argvs <- MCArgvs
  PGSIZE = 64
  MAXVA = 1024
  U64 = 2048
  MAXARG = 3
  NFRAMES = 10
  LOGOPS = 1
  SZ0 = 64
  MaxCalls = 1
  NoProc = NoProc
  NoFile = NoFile
SPECIFICATION FairSpec
INVARIANT TypeOK
INVARIANT FramesConserved
INVARIANT CallerImageIntact
INVARIANT OpsAndLocksBalanced
INVARIANT NoLoadsegPanic
INVARIANT StackLayout
PROPERTY ExecReturns
CHECK_DEADLOCK FALSE
