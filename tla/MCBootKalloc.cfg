\* main() on hart 0 and two secondary harts, then the two secondaries
\* calling kalloc and kfree.  end = 3 is not page-aligned and PHYSTOP = 9
\* leaves a partial last page, so both edges of freerange are exercised;
\* frames are 4 and 6, and two kallocs per hart run the list empty.  Every
\* hart stops after its bounded number of calls, so deadlock is not checked.
CONSTANTS
    Hart0 = Hart0
    Secondaries = {h1, h2}
    PGSIZE = 2
    KEnd = 3
    PHYSTOP = 9
    MaxOps = 2
SPECIFICATION FairSpec
INVARIANTS TypeOK FramesConserved FreePagesJunk PagingOnKernelTable
PROPERTY AllHartsSchedule
CHECK_DEADLOCK FALSE
