\* A writer killed (or finding the read end closed) after storing bytes
\* returns -1 instead of the count (spec 7: the bytes transferred so far).
CONSTANTS
  Writers = {w1, w2}
  Readers = {r1}
  PIPESIZE = 2
  Wrap = 4
  MaxN = 2
  MaxCalls = 1
  NoProc = NoProc
SPECIFICATION Spec
CHECK_DEADLOCK FALSE
PROPERTY KilledWriteReportsBytes
