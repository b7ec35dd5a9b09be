\* Two writers and one reader, one call each of up to two bytes, on a
\* two-byte ring whose counters wrap at 4.  pipealloc starts with up to
\* two free files and one free page, so each of its goto bad paths runs;
\* when it succeeds the writers' bytes interleave,
\* the ring fills, writers and the reader sleep, and nread/nwrite wrap
\* around.  Under FairSpec every call returns, whether the other side
\* keeps calling, is killed or closes its end.  The system stops for good
\* once both ends are closed: deadlock is not an error.
CONSTANTS
  Writers = {w1, w2}
  Readers = {r1}
  PIPESIZE = 2
  Wrap = 4
  MaxN = 2
  MaxCalls = 1
  NoProc = NoProc
SPECIFICATION FairSpec
INVARIANT TypeOK
INVARIANT SleepJustified
INVARIANT ResourcesConserved
PROPERTY ChannelRefined
CHECK_DEADLOCK FALSE
PROPERTY CallsReturn
