-------------------------------- MODULE Boot --------------------------------
(***************************************************************************)
(* main() of kernel/main.c on every hart: hart 0 runs the init calls, then *)
(* __sync_synchronize() and started = 1; the other harts spin while       *)
(* started == 0, then __sync_synchronize() and their per-hart init, and   *)
(* every hart enters scheduler().                                          *)
(*                                                                         *)
(* Memory is weakly ordered (RISC-V RVWMO).  Hart 0's stores go through a *)
(* store buffer and reach memory in any order; a fence waits until the    *)
(* buffer is empty.  A secondary hart's loads after its spin loop may be  *)
(* performed early, while it still spins (Prefetch); its fence makes them *)
(* read memory afresh.  Of the data the init calls write, the model keeps *)
(* what other harts read without a lock: kvminit's kernel_pagetable,      *)
(* which each hart's kvminithart loads into satp.  The data behind locks  *)
(* (kmem, bcache, the proc table) is ordered by the locks' fences.        *)
(***************************************************************************)
EXTENDS Naturals, Sequences

CONSTANTS Hart0,        \* cpuid() == 0
          Secondaries   \* the other harts

CPUs == {Hart0} \cup Secondaries

\* hart 0's init calls, in the order of main()
Calls0 == <<"consoleinit", "printfinit", "kinit", "kvminit", "kvminithart",
            "procinit", "trapinit", "trapinithart", "plicinit", "plicinithart",
            "binit", "iinit", "fileinit", "virtio_disk_init", "userinit">>

\* memory words other harts read without a lock; 0 until written
Locations == {"kernel_pagetable", "started"}

VARIABLES pc,     \* where each hart is in main()
          call,   \* hart 0: index of its next init call in Calls0
          sb,     \* hart 0's store buffer: locations written, not yet visible
          mem,    \* memory as every hart sees it
          view,   \* a secondary's loads of the init data
          satp    \* the page table each hart turned paging on with (0: none)

bvars == <<pc, call, sb, mem, view, satp>>

Zero == [l \in Locations |-> 0]

Init == /\ pc = [h \in CPUs |-> IF h = Hart0 THEN "init" ELSE "spin"]
        /\ call = 1
        /\ sb = {}
        /\ mem = Zero
        /\ view = [h \in Secondaries |-> Zero]
        /\ satp = [h \in CPUs |-> 0]

CurrentCall == Calls0[call]

\* hart 0 reads its own buffered stores
Load0(l) == IF l \in sb THEN 1 ELSE mem[l]

-----------------------------------------------------------------------------
(* hart 0 *)

\* one init call: kvminit stores kernel_pagetable, kvminithart loads it
\* into satp; the others write nothing another hart reads without a lock
Call0 == /\ pc[Hart0] = "init"
         /\ sb' = IF CurrentCall = "kvminit" THEN sb \cup {"kernel_pagetable"} ELSE sb
         /\ satp' = IF CurrentCall = "kvminithart"
                       THEN [satp EXCEPT ![Hart0] = Load0("kernel_pagetable")]
                       ELSE satp
         /\ call' = IF call < Len(Calls0) THEN call + 1 ELSE call
         /\ pc' = IF call < Len(Calls0) THEN pc ELSE [pc EXCEPT ![Hart0] = "sync"]
         /\ UNCHANGED <<mem, view>>

\* (seeded fault: no __sync_synchronize() before started = 1)
Sync0NoFence == /\ pc[Hart0] = "sync"
                /\ pc' = [pc EXCEPT ![Hart0] = "start"]
                /\ UNCHANGED <<call, sb, mem, view, satp>>

\* __sync_synchronize(): every earlier store is visible before any later one
Sync0 == /\ pc[Hart0] = "sync"
         /\ sb = {}
         /\ pc' = [pc EXCEPT ![Hart0] = "start"]
         /\ UNCHANGED <<call, sb, mem, view, satp>>

\* started = 1; then scheduler()
Start0 == /\ pc[Hart0] = "start"
          /\ sb' = sb \cup {"started"}
          /\ pc' = [pc EXCEPT ![Hart0] = "scheduler"]
          /\ UNCHANGED <<call, mem, view, satp>>

\* a buffered store of hart 0 reaches memory
Drain(l) == /\ l \in sb
            /\ sb' = sb \ {l}
            /\ mem' = [mem EXCEPT ![l] = 1]
            /\ UNCHANGED <<pc, call, view, satp>>

-----------------------------------------------------------------------------
(* the other harts *)

\* the hart performs its later loads early, while it still spins
Prefetch(h) == /\ pc[h] = "spin"
               /\ view' = [view EXCEPT ![h] = mem]
               /\ UNCHANGED <<pc, call, sb, mem, satp>>

\* (seeded fault: started not volatile, its load hoisted out of the loop)
SpinHoisted(h) == /\ pc[h] = "spin"
                  /\ view[h]["started"] = 1
                  /\ pc' = [pc EXCEPT ![h] = "sync"]
                  /\ UNCHANGED <<call, sb, mem, view, satp>>

\* while (started == 0) ; -- the volatile load reads memory each time
Spin(h) == /\ pc[h] = "spin"
           /\ mem["started"] = 1
           /\ pc' = [pc EXCEPT ![h] = "sync"]
           /\ UNCHANGED <<call, sb, mem, view, satp>>

\* (seeded fault: no __sync_synchronize() after the loop)
SyncNoFence(h) == /\ pc[h] = "sync"
                  /\ pc' = [pc EXCEPT ![h] = "kvminithart"]
                  /\ UNCHANGED <<call, sb, mem, view, satp>>

\* __sync_synchronize(): the loads after it read memory as it is now
Sync(h) == /\ pc[h] = "sync"
           /\ view' = [view EXCEPT ![h] = mem]
           /\ pc' = [pc EXCEPT ![h] = "kvminithart"]
           /\ UNCHANGED <<call, sb, mem, satp>>

\* printf; kvminithart(): w_satp(MAKE_SATP(kernel_pagetable))
KvmInitHart(h) == /\ pc[h] = "kvminithart"
                  /\ satp' = [satp EXCEPT ![h] = view[h]["kernel_pagetable"]]
                  /\ pc' = [pc EXCEPT ![h] = "trapinithart"]
                  /\ UNCHANGED <<call, sb, mem, view>>

\* trapinithart(); plicinithart(); then scheduler()
PerHartInit(h) == /\ pc[h] = "trapinithart"
                  /\ pc' = [pc EXCEPT ![h] = "scheduler"]
                  /\ UNCHANGED <<call, sb, mem, view, satp>>

-----------------------------------------------------------------------------

\* the steps of hart h's main()
HartStep(h) == IF h = Hart0
                  THEN Call0 \/ Sync0 \/ Start0
                  ELSE Spin(h) \/ Sync(h) \/ KvmInitHart(h) \/ PerHartInit(h)

Next == \/ \E h \in CPUs : HartStep(h)
        \/ \E h \in Secondaries : Prefetch(h)
        \/ \E l \in Locations : Drain(l)

Spec == Init /\ [][Next]_bvars

\* Every hart runs (start() jumps to main() on all of them) and every
\* buffered store eventually reaches memory.  Early loads are not forced.
FairSpec == /\ Spec
            /\ \A h \in CPUs : WF_bvars(HartStep(h))
            /\ \A l \in Locations : WF_bvars(Drain(l))

-----------------------------------------------------------------------------
(* Properties *)

\* Type invariant.  A hart's satp only ever holds what kvminit stored or
\* the 0 of memory before it.
TypeOK == /\ pc \in [CPUs -> {"init", "sync", "start", "spin", "kvminithart",
                              "trapinithart", "scheduler"}]
          /\ call \in 1 .. Len(Calls0)
          /\ sb \subseteq Locations
          /\ mem \in [Locations -> {0, 1}]
          /\ view \in [Secondaries -> [Locations -> {0, 1}]]
          /\ satp \in [CPUs -> {0, 1}]

\* Every hart that has turned paging on did so with the kernel page table
\* kvminit built, never with the 0 of memory not yet written: hart 0's
\* fence keeps started from becoming visible before kernel_pagetable, and
\* a secondary's fence keeps its load of kernel_pagetable from being
\* performed before it saw started.
PagingOnKernelTable ==
    \A h \in CPUs : pc[h] \in {"trapinithart", "scheduler"} => satp[h] = 1

\* Every hart reaches scheduler(): started eventually becomes visible and
\* the spin loop re-reads it.
AllHartsSchedule == <>(\A h \in CPUs : pc[h] = "scheduler")
====
