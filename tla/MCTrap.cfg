\* One hart, one process running a three-instruction user loop.  Every
\* cause can trap user code at every instruction; timer and device
\* interrupts hit the kernel wherever SIE is set; yield may leave any
\* sepc, scause and sstatus behind; kill may come at any point.  The
\* process stops at exit(-1) or at a panic, so deadlock is not checked.
CONSTANTS
  u1 = u1
  u2 = u2
  u3 = u3
  UserCode <- MCUserCode
SPECIFICATION FairSpec
CHECK_DEADLOCK FALSE
INVARIANT TypeOK
INVARIANT NoTrapPanic
INVARIANT ModeConsistent
PROPERTY ResumeCorrect
PROPERTY KilledExits
