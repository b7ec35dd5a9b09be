------------------------------ MODULE SpinLock ------------------------------
(***************************************************************************)
(* Spin locks with push_off/pop_off (kernel/spinlock.c) on several harts,  *)
(* interrupted by the timer interrupt that kerneltrap/devintr/clockintr    *)
(* (kernel/trap.c) handle in kernel mode.                                  *)
(*                                                                         *)
(* Each hart runs kernel code (frame "thread") that takes and releases     *)
(* locks in the order of the lock hierarchy, and may turn interrupts on or *)
(* off while it holds no lock, as usertrap and the scheduler do.  While    *)
(* SIE is set a timer interrupt may trap into kerneltrap (frame           *)
(* "handler"): the hart clears SIE and saves it in SPIE; on hart 0,        *)
(* clockintr takes tickslock, increments ticks and releases it; sret      *)
(* restores SIE.  acquire is push_off plus the holding() check (one local *)
(* step), then the test-and-set that succeeds together with lk->cpu =     *)
(* mycpu() (a failed test-and-set changes nothing).  release, whose       *)
(* pop_off follows with interrupts still off, is one step.                *)
(***************************************************************************)
EXTENDS Naturals, FiniteSets

CONSTANTS NCPU,       \* harts, numbered 0 .. NCPU - 1 (cpuid)
          Locks,      \* spin locks, numbered in lock-hierarchy order
          TicksLock,  \* tickslock
          NoCpu,      \* lk->cpu of a free lock (0 in the code)
          MaxAcq,     \* bound: acquires by the kernel code of one hart
          MaxIntr     \* bound: timer interrupts taken by one hart

ASSUME /\ NCPU \in Nat \ {0} /\ Locks \subseteq Nat /\ TicksLock \in Locks
       /\ NoCpu \notin 0 .. (NCPU - 1)

CPUs == 0 .. (NCPU - 1)
Frames == {"thread", "handler"}

VARIABLES locked,   \* lk->locked
          owner,    \* lk->cpu
          intr,     \* SIE of each hart (intr_get)
          noff,     \* mycpu()->noff
          intena,   \* mycpu()->intena
          frame,    \* running on each hart: kernel code or the trap handler
          spie,     \* SPIE: SIE saved by the trap
          pc,       \* pc[c][f]: "idle" or "spin" (in acquire, waiting for want)
          want,     \* want[c][f]: the lock being acquired
          held,     \* held[c][f]: locks that frame f of hart c holds
          hstep,    \* where the handler of hart c is
          ticks,    \* ticks
          sie,      \* what the kernel code of each hart last set SIE to
          acqs, intrs

vars == <<locked, owner, intr, noff, intena, frame, spie, pc, want, held, hstep,
          ticks, sie, acqs, intrs>>

\* initlock for every lock; each hart boots with interrupts off, noff = 0
Init == /\ locked = [l \in Locks |-> FALSE]
        /\ owner = [l \in Locks |-> NoCpu]
        /\ intr = [c \in CPUs |-> FALSE]
        /\ noff = [c \in CPUs |-> 0]
        /\ intena = [c \in CPUs |-> FALSE]
        /\ frame = [c \in CPUs |-> "thread"]
        /\ spie = [c \in CPUs |-> FALSE]
        /\ pc = [c \in CPUs |-> [f \in Frames |-> "idle"]]
        /\ want = [c \in CPUs |-> [f \in Frames |-> TicksLock]]
        /\ held = [c \in CPUs |-> [f \in Frames |-> {}]]
        /\ hstep = [c \in CPUs |-> "done"]
        /\ ticks = 0
        /\ sie = [c \in CPUs |-> FALSE]
        /\ acqs = [c \in CPUs |-> 0]
        /\ intrs = [c \in CPUs |-> 0]

\* locks held on hart c, by any frame
HeldBy(c) == held[c]["thread"] \cup held[c]["handler"]

-----------------------------------------------------------------------------
(* push_off / pop_off, as functions of the hart's (intr, noff, intena) *)

\* mutant: intena is saved by every push_off, not only the outermost
push_offAlwaysSave(c) == /\ intr' = [intr EXCEPT ![c] = FALSE]
                         /\ intena' = [intena EXCEPT ![c] = intr[c]]
                         /\ noff' = [noff EXCEPT ![c] = @ + 1]

\* mutant: push_off forgets intr_off()
push_offKeepIntr(c) == /\ UNCHANGED intr
                       /\ intena' = [intena EXCEPT ![c] = IF noff[c] = 0 THEN intr[c] ELSE @]
                       /\ noff' = [noff EXCEPT ![c] = @ + 1]

\* mutant: push_off forgets noff += 1
push_offNoCount(c) == /\ intr' = [intr EXCEPT ![c] = FALSE]
                      /\ intena' = [intena EXCEPT ![c] = IF noff[c] = 0 THEN intr[c] ELSE @]
                      /\ UNCHANGED noff

\* push_off: old = intr_get(); intr_off(); if (noff == 0) intena = old; noff++
push_off(c) == /\ intr' = [intr EXCEPT ![c] = FALSE]
               /\ intena' = [intena EXCEPT ![c] = IF noff[c] = 0 THEN intr[c] ELSE @]
               /\ noff' = [noff EXCEPT ![c] = @ + 1]

\* mutant: pop_off re-enables interrupts without waiting for noff == 0
pop_offAnyLevel(c) == /\ noff' = [noff EXCEPT ![c] = @ - 1]
                      /\ intr' = [intr EXCEPT ![c] = IF intena[c] THEN TRUE ELSE @]
                      /\ UNCHANGED intena

\* pop_off: noff--; if (noff == 0 && intena) intr_on().  Its panics
\* ("pop_off - interruptible", "pop_off") are the invariant NoffMatchesLocks.
pop_off(c) == /\ noff' = [noff EXCEPT ![c] = @ - 1]
              /\ intr' = [intr EXCEPT ![c] = IF noff[c] = 1 /\ intena[c] THEN TRUE ELSE @]
              /\ UNCHANGED intena

-----------------------------------------------------------------------------
(* acquire / release, by the running frame of hart c *)

\* acquire, first part: push_off(); if (holding(lk)) panic("acquire").
\* The panic is the invariant NoReacquire.
acquire_start(c, l) == LET f == frame[c] IN
                       /\ pc[c][f] = "idle"
                       /\ push_off(c)
                       /\ pc' = [pc EXCEPT ![c][f] = "spin"]
                       /\ want' = [want EXCEPT ![c][f] = l]

\* while (__sync_lock_test_and_set(&lk->locked, 1) != 0); lk->cpu = mycpu()
acquire_tas(c) == LET f == frame[c]
                      l == want[c][f]
                  IN /\ pc[c][f] = "spin"
                     /\ ~locked[l]
                     /\ locked' = [locked EXCEPT ![l] = TRUE]
                     /\ owner' = [owner EXCEPT ![l] = c]
                     /\ held' = [held EXCEPT ![c][f] = @ \cup {l}]
                     /\ pc' = [pc EXCEPT ![c][f] = "idle"]
                     /\ UNCHANGED <<intr, noff, intena, frame, spie, want, hstep, ticks,
                                    sie, acqs, intrs>>

\* mutant: release forgets __sync_lock_release(&lk->locked)
releaseKeepLocked(c, l) == LET f == frame[c] IN
                           /\ pc[c][f] = "idle"
                           /\ l \in held[c][f]
                           /\ owner[l] = c /\ locked[l]
                           /\ owner' = [owner EXCEPT ![l] = NoCpu]
                           /\ UNCHANGED locked
                           /\ held' = [held EXCEPT ![c][f] = @ \ {l}]
                           /\ pop_off(c)

\* release: holding check, lk->cpu = 0, __sync_lock_release, pop_off()
release(c, l) == LET f == frame[c] IN
                 /\ pc[c][f] = "idle"
                 /\ l \in held[c][f]
                 /\ owner[l] = c /\ locked[l]
                 /\ owner' = [owner EXCEPT ![l] = NoCpu]
                 /\ locked' = [locked EXCEPT ![l] = FALSE]
                 /\ held' = [held EXCEPT ![c][f] = @ \ {l}]
                 /\ pop_off(c)

-----------------------------------------------------------------------------
(* The kernel code of a hart *)

\* the kernel code takes a lock above every lock it holds (lock hierarchy)
ThreadAcquire(c, l) == /\ frame[c] = "thread"
                       /\ acqs[c] < MaxAcq
                       /\ \A k \in held[c]["thread"] : k < l
                       /\ acquire_start(c, l)
                       /\ acqs' = [acqs EXCEPT ![c] = @ + 1]
                       /\ UNCHANGED <<locked, owner, frame, spie, held, hstep, ticks,
                                      sie, intrs>>

ThreadRelease(c, l) == /\ frame[c] = "thread"
                       /\ release(c, l)
                       /\ UNCHANGED <<frame, spie, pc, want, hstep, ticks, sie, acqs, intrs>>

\* intr_on() / intr_off() with no lock held (usertrap, scheduler, usertrapret)
SetIntr(c, on) == /\ frame[c] = "thread"
                  /\ pc[c]["thread"] = "idle" /\ held[c]["thread"] = {}
                  /\ intr[c] # on
                  /\ intr' = [intr EXCEPT ![c] = on]
                  /\ sie' = [sie EXCEPT ![c] = on]
                  /\ UNCHANGED <<locked, owner, noff, intena, frame, spie, pc, want, held,
                                 hstep, ticks, acqs, intrs>>

-----------------------------------------------------------------------------
(* The timer interrupt: kernelvec -> kerneltrap -> devintr -> clockintr *)

\* the trap: SPIE = SIE, SIE = 0; devintr calls clockintr on hart 0 only
trap(c) == /\ frame[c] = "thread"
           /\ intr[c]
           /\ intrs[c] < MaxIntr
           /\ frame' = [frame EXCEPT ![c] = "handler"]
           /\ spie' = [spie EXCEPT ![c] = intr[c]]
           /\ intr' = [intr EXCEPT ![c] = FALSE]
           /\ hstep' = [hstep EXCEPT ![c] = IF c = 0 THEN "acquire" ELSE "return"]
           /\ intrs' = [intrs EXCEPT ![c] = @ + 1]
           /\ UNCHANGED <<locked, owner, noff, intena, pc, want, held, ticks, sie, acqs>>

\* clockintr: acquire(&tickslock)
clock_acquire(c) == /\ frame[c] = "handler" /\ hstep[c] = "acquire"
                    /\ acquire_start(c, TicksLock)
                    /\ hstep' = [hstep EXCEPT ![c] = "tick"]
                    /\ UNCHANGED <<locked, owner, frame, spie, held, ticks, sie, acqs, intrs>>

\* ticks++; wakeup(&ticks); release(&tickslock)
clock_release(c) == /\ frame[c] = "handler" /\ hstep[c] = "tick"
                    /\ TicksLock \in held[c]["handler"]
                    /\ ticks' = ticks + 1
                    /\ release(c, TicksLock)
                    /\ hstep' = [hstep EXCEPT ![c] = "return"]
                    /\ UNCHANGED <<frame, spie, pc, want, sie, acqs, intrs>>

\* kerneltrap's w_sstatus(sstatus) and sret: SIE = SPIE
sret(c) == /\ frame[c] = "handler" /\ hstep[c] = "return"
           /\ frame' = [frame EXCEPT ![c] = "thread"]
           /\ intr' = [intr EXCEPT ![c] = spie[c]]
           /\ hstep' = [hstep EXCEPT ![c] = "done"]
           /\ UNCHANGED <<locked, owner, noff, intena, spie, pc, want, held, ticks, sie,
                          acqs, intrs>>

Next == \E c \in CPUs :
          \/ \E l \in Locks : ThreadAcquire(c, l) \/ ThreadRelease(c, l)
          \/ acquire_tas(c)
          \/ \E on \in BOOLEAN : SetIntr(c, on)
          \/ trap(c) \/ clock_acquire(c) \/ clock_release(c) \/ sret(c)

\* Every hart keeps running: a spinning hart retries its test-and-set, a
\* critical section ends with a release, and a trap handler runs to sret.
\* Taking new locks and switching interrupts are not forced.
Spec == Init /\ [][Next]_vars
FairSpec == Spec /\ \A c \in CPUs : WF_vars(\/ acquire_tas(c)
                                            \/ \E l \in Locks : ThreadRelease(c, l)
                                            \/ clock_acquire(c) \/ clock_release(c)
                                            \/ sret(c))

-----------------------------------------------------------------------------
(* Properties *)

\* Type invariant.  noff is never negative: every pop_off matches a
\* push_off.
TypeOK == /\ locked \in [Locks -> BOOLEAN]
          /\ owner \in [Locks -> CPUs \cup {NoCpu}]
          /\ intr \in [CPUs -> BOOLEAN] /\ intena \in [CPUs -> BOOLEAN]
          /\ noff \in [CPUs -> Nat]
          /\ frame \in [CPUs -> Frames] /\ spie \in [CPUs -> BOOLEAN]
          /\ pc \in [CPUs -> [Frames -> {"idle", "spin"}]]
          /\ want \in [CPUs -> [Frames -> Locks]]
          /\ held \in [CPUs -> [Frames -> SUBSET Locks]]
          /\ hstep \in [CPUs -> {"acquire", "tick", "return", "done"}]
          /\ ticks \in Nat /\ sie \in [CPUs -> BOOLEAN]
          /\ acqs \in [CPUs -> Nat] /\ intrs \in [CPUs -> Nat]

\* Spec 8.3 and 8.4: noff counts exactly the locks the hart holds or is
\* spinning for, over nested acquires, out-of-order releases and the
\* handler's own acquire; and interrupts are off whenever it is positive
\* -- so pop_off never panics and no interrupt arrives inside a critical
\* section.
NoffMatchesLocks ==
  \A c \in CPUs :
    /\ noff[c] = Cardinality(HeldBy(c)) + Cardinality({f \in Frames : pc[c][f] = "spin"})
    /\ noff[c] > 0 => ~intr[c]

\* acquire's holding() check never fires: no hart spins for a lock it holds
\* itself -- in particular clockintr never interrupts a hart that holds
\* tickslock, which would otherwise spin for ever.
NoReacquire == \A c \in CPUs, f \in Frames :
                 pc[c][f] = "spin" => owner[want[c][f]] # c

\* Spec E2: intena is captured only by the outermost push_off, so when the
\* kernel code of a hart has released all its locks, and after a trap
\* handler returns, interrupts are on exactly if that code had turned them
\* on.
InterruptsRestored == \A c \in CPUs :
                        (frame[c] = "thread" /\ noff[c] = 0) => intr[c] = sie[c]

\* Every acquire returns: the lock hierarchy and the interrupt discipline
\* leave no hart spinning for ever.
AcquireCompletes == \A c \in CPUs, f \in Frames : pc[c][f] = "spin" ~> pc[c][f] = "idle"
====
