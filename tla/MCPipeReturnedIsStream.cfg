\* piperead advances nread before copyout; a failing copyout drops that
\* byte from the stream the reader gets (spec 8.8).
CONSTANTS
  Writers = {w1, w2}
  Readers = {r1}
  PIPESIZE = 2
  Wrap = 4
  MaxN = 2
  MaxCalls = 1
  NoProc = NoProc
SPECIFICATION Spec
CHECK_DEADLOCK FALSE
INVARIANT ReturnedIsStream
