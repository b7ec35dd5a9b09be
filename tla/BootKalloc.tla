----------------------------- MODULE BootKalloc -----------------------------
(***************************************************************************)
(* Boot and the frame allocator together, as main() runs them: kinit, the *)
(* third of hart 0's init calls, is freerange's loop, and main() goes on  *)
(* only when it returns; the secondary harts call kalloc and kfree only   *)
(* from the processes scheduler() runs, after their own boot.             *)
(***************************************************************************)
CONSTANTS Hart0, Secondaries, PGSIZE, KEnd, PHYSTOP, MaxOps

VARIABLES bpc, call, sb, mem, view, satp,                    \* Boot
          freelist, contents, p, booted, kpc, page, owned, ops \* Kalloc

B == INSTANCE Boot WITH pc <- bpc
K == INSTANCE Kalloc WITH pc <- kpc, Harts <- Secondaries

bootvars  == <<bpc, call, sb, mem, view, satp>>
allocvars == <<freelist, contents, p, booted, kpc, page, owned, ops>>
vars == <<bootvars, allocvars>>

Init == B!Init /\ K!Init

\* hart 0 is inside kinit()
InKinit == bpc[Hart0] = "init" /\ B!CurrentCall = "kinit"

\* hart 0's init calls; kinit returns only once freerange is done
Call0 == /\ B!Call0
         /\ InKinit => booted
         /\ UNCHANGED allocvars

\* kinit: freerange's loop on hart 0
Kinit == /\ InKinit
         /\ K!freerange_step \/ K!freerange_done
         /\ UNCHANGED bootvars

\* hart 0's main()
Hart0Step == Call0 \/ ((B!Sync0 \/ B!Start0) /\ UNCHANGED allocvars)

BootStep == \/ B!Sync0 \/ B!Start0
            \/ \E h \in Secondaries : B!HartStep(h) \/ B!Prefetch(h)
            \/ \E l \in B!Locations : B!Drain(l)

\* kernel code of a process on hart h
AllocStep(h) == /\ bpc[h] = "scheduler"
                /\ \/ K!kalloc_pop(h) \/ K!kalloc_fill(h) \/ K!kfree_push(h)
                   \/ \E a \in K!Frames : K!Use(h, a) \/ K!kfree_fill(h, a)

Next == \/ Call0
        \/ BootStep /\ UNCHANGED allocvars
        \/ Kinit
        \/ \E h \in Secondaries : AllocStep(h) /\ UNCHANGED bootvars

Spec == Init /\ [][Next]_vars

\* every hart runs main() and every buffered store drains (Boot's
\* fairness); freerange's loop runs to its end
FairSpec == /\ Spec
            /\ WF_vars(Hart0Step)
            /\ \A h \in Secondaries : WF_vars(B!HartStep(h) /\ UNCHANGED allocvars)
            /\ \A l \in B!Locations : WF_vars(B!Drain(l) /\ UNCHANGED allocvars)
            /\ WF_vars(Kinit)

-----------------------------------------------------------------------------
(* Properties: those of the two components, checked on the composition *)

\* Type invariant of both components.
TypeOK == B!TypeOK /\ K!TypeOK

\* kinit's freerange, run inside hart 0's main(), frees exactly the frames
\* of [end, PHYSTOP), and then the secondary harts' kalloc and kfree keep
\* every frame in exactly one place (Kalloc's FramesConserved).
FramesConserved == K!FramesConserved

\* Every page on kmem.freelist holds kfree's junk fill (Kalloc's
\* FreePagesJunk).
FreePagesJunk == K!FreePagesJunk

\* Every hart turns paging on with the page table kvminit built: the two
\* __sync_synchronize() of main() order it before started (Boot's
\* PagingOnKernelTable).
PagingOnKernelTable == B!PagingOnKernelTable

\* Every hart reaches scheduler(): hart 0 once freerange's loop is done,
\* the others once started is visible (Boot's AllHartsSchedule).
AllHartsSchedule == B!AllHartsSchedule
====
