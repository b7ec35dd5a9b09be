-------------------------------- MODULE Trap --------------------------------
(***************************************************************************)
(* The trap pipeline of kernel/trap.c on one hart running one process:    *)
(* traps from user mode through uservec to usertrap, system calls with    *)
(* interrupts re-enabled, the return through usertrapret and userret, and *)
(* interrupts taken in the kernel through kernelvec to kerneltrap.        *)
(*                                                                         *)
(* The supervisor CSRs the code reads and writes are variables: the mode, *)
(* sstatus.SIE/SPIE/SPP, sepc, scause and stvec.  The hardware's trap     *)
(* entry and sret are actions of their own (RISC-V privileged spec), so   *)
(* an interrupt can arrive between any two kernel steps while SIE is set. *)
(* A program counter names a user instruction (a model value of UserCode) *)
(* or a point of the kernel code (a string).  Other processes are not     *)
(* modelled; yield() stands for everything the hart does until this       *)
(* process runs again, which may include other traps that overwrite sepc, *)
(* scause and sstatus (proc.c is not in the repository).  kill() from     *)
(* another hart may set the killed flag at any time.                      *)
(***************************************************************************)
EXTENDS Naturals, Sequences, SequencesExt

CONSTANTS UserCode  \* the user program: a loop of distinct instruction addresses

UserPCs == ToSet(UserCode)

\* the instruction after u (sepc + 4), the program being a loop
NextPC(u) == UserCode[(SelectInSeq(UserCode, LAMBDA x : x = u) % Len(UserCode)) + 1]

\* the points of the kernel code that run with interrupts enabled, where
\* sepc may point after a trap from the kernel
KernelPCs == {"syscall", "ut_check", "ut_yield", "usertrapret"}

\* every other control point of the trap path
TrapPCs == {"uservec", "usertrap", "ut_cause", "utr_setup", "userret",
            "kernelvec", "kerneltrap", "kt_yield", "kt_restore", "kernelret",
            "exited", "panic"}

Causes     == {"ecall", "timer", "device", "fault"}  \* r_scause(): 8, timer, PLIC, other
Interrupts == {"timer", "device"}

VARIABLES mode,      \* privilege level: "U" or "S"
          pc,        \* where the hart executes
          sie,       \* sstatus.SIE
          spie,      \* sstatus.SPIE
          spp,       \* sstatus.SPP: mode before the last trap
          sepc,      \* sepc
          scause,    \* scause
          stvec,     \* stvec: "uservec" (trampoline) or "kernelvec"
          epc,       \* p->trapframe->epc
          killed,    \* p->killed
          which_dev, \* usertrap's which_dev
          ksaved,    \* kerneltrap's locals sepc and sstatus
          resume     \* where user code must continue (auxiliary)

vars == <<mode, pc, sie, spie, spp, sepc, scause, stvec, epc, killed, which_dev,
          ksaved, resume>>

\* The process runs its user code after usertrapret to it: user mode,
\* stvec at the trampoline's uservec.
Init == /\ mode = "U"
        /\ pc = UserCode[1]
        /\ sie = TRUE /\ spie = TRUE /\ spp = "U"
        /\ sepc = UserCode[1]
        /\ scause = "timer"
        /\ stvec = "uservec"
        /\ epc = UserCode[1]
        /\ killed = FALSE
        /\ which_dev = 0
        /\ ksaved = [sepc |-> UserCode[1], spp |-> "S", spie |-> FALSE]
        /\ resume = UserCode[1]

-----------------------------------------------------------------------------
(* Hardware and environment *)

\* user code executes one instruction
UserStep == /\ mode = "U"
            /\ pc' = NextPC(pc)
            /\ UNCHANGED <<mode, sie, spie, spp, sepc, scause, stvec, epc, killed,
                           which_dev, ksaved, resume>>

\* Trap entry: an ecall or a faulting instruction in user mode, or an
\* interrupt, taken in user mode always and in supervisor mode only while
\* SIE is set.  The hart saves the pc and the mode, clears SIE and jumps
\* to stvec.
TakeTrap(cause) ==
    /\ pc \notin {"exited", "panic"}   \* the process is gone; the model ends
    /\ IF mode = "U" THEN pc \in UserPCs ELSE sie /\ cause \in Interrupts
    /\ sepc' = pc /\ scause' = cause
    /\ spp' = mode /\ spie' = sie /\ sie' = FALSE
    /\ mode' = "S" /\ pc' = stvec
    /\ resume' = CASE mode = "S"       -> resume
                    [] cause = "ecall"  -> NextPC(pc)
                    [] OTHER            -> pc
    /\ UNCHANGED <<stvec, epc, killed, which_dev, ksaved>>

\* sret: back to the mode in SPP, at sepc, with SIE from SPIE
Sret == /\ mode' = spp /\ pc' = sepc
        /\ sie' = spie /\ spie' = TRUE
        /\ UNCHANGED <<spp, sepc, scause, stvec, epc, killed, which_dev, ksaved,
                       resume>>

\* kill(pid) on another hart
Kill == /\ ~killed
        /\ killed' = TRUE
        /\ UNCHANGED <<mode, pc, sie, spie, spp, sepc, scause, stvec, epc, which_dev,
                       ksaved, resume>>

\* yield(): other processes run on this hart and may trap, leaving any
\* sepc, scause, SPP and SPIE behind; sched() restores SIE.
Clobber == /\ sepc' \in UserPCs \cup KernelPCs
           /\ scause' \in Causes
           /\ spp' \in {"U", "S"} /\ spie' \in BOOLEAN
           /\ UNCHANGED <<mode, sie, stvec, epc, killed, which_dev, ksaved, resume>>

\* the trampoline's uservec saves the user registers, switches to the
\* kernel page table and jumps to usertrap
uservec == /\ pc = "uservec"
           /\ pc' = "usertrap"
           /\ UNCHANGED <<mode, sie, spie, spp, sepc, scause, stvec, epc, killed,
                          which_dev, ksaved, resume>>

\* kernelvec saves the kernel registers and calls kerneltrap
kernelvec == /\ pc = "kernelvec"
             /\ pc' = "kerneltrap"
             /\ UNCHANGED <<mode, sie, spie, spp, sepc, scause, stvec, epc, killed,
                            which_dev, ksaved, resume>>

\* userret (trampoline) and kernelvec restore the registers and sret
userret   == pc = "userret" /\ Sret
kernelret == pc = "kernelret" /\ Sret

-----------------------------------------------------------------------------
(* usertrap *)

\* SPP must say user mode, else panic; w_stvec(kernelvec);
\* p->trapframe->epc = r_sepc()
usertrap_entry == /\ pc = "usertrap"
                  /\ IF spp # "U"
                        THEN pc' = "panic" /\ UNCHANGED <<stvec, epc>>
                        ELSE /\ stvec' = "kernelvec"
                             /\ epc' = sepc
                             /\ pc' = "ut_cause"
                  /\ which_dev' = 0
                  /\ UNCHANGED <<mode, sie, spie, spp, sepc, scause, killed, ksaved,
                                 resume>>

\* dispatch on r_scause(): a system call exits if killed, else skips the
\* ecall, enables interrupts and runs syscall(); devintr() classifies an
\* interrupt (2 for the timer, 1 for a device); anything else marks the
\* process killed
usertrap_cause ==
    /\ pc = "ut_cause"
    /\ CASE scause = "ecall" /\ killed ->
              pc' = "exited" /\ UNCHANGED <<epc, sie, which_dev, killed>>
         [] scause = "ecall" ->
              /\ epc' = NextPC(epc)
              /\ sie' = TRUE
              /\ pc' = "syscall"
              /\ UNCHANGED <<which_dev, killed>>
         [] scause \in Interrupts ->
              /\ which_dev' = IF scause = "timer" THEN 2 ELSE 1
              /\ pc' = "ut_check"
              /\ UNCHANGED <<epc, sie, killed>>
         [] OTHER ->
              /\ which_dev' = 0
              /\ killed' = TRUE
              /\ pc' = "ut_check"
              /\ UNCHANGED <<epc, sie>>
    /\ UNCHANGED <<mode, spie, spp, sepc, scause, stvec, ksaved, resume>>

\* syscall() returns; an exec() that succeeds sets the trapframe's epc to
\* the new program's entry
syscall == /\ pc = "syscall"
           /\ \E entry \in {epc} \cup UserPCs :
                 /\ epc' = entry
                 /\ resume' = entry
           /\ pc' = "ut_check"
           /\ UNCHANGED <<mode, sie, spie, spp, sepc, scause, stvec, killed, which_dev,
                          ksaved>>

\* (seeded fault: the killed check at the end of usertrap left out)
usertrap_checkNoKill == /\ pc = "ut_check"
                        /\ pc' = IF which_dev = 2 THEN "ut_yield" ELSE "usertrapret"
                        /\ UNCHANGED <<mode, sie, spie, spp, sepc, scause, stvec, epc,
                                       killed, which_dev, ksaved, resume>>

\* if (killed(p)) exit(-1); if (which_dev == 2) yield(); usertrapret()
usertrap_check == /\ pc = "ut_check"
                  /\ pc' = CASE killed         -> "exited"
                             [] which_dev = 2  -> "ut_yield"
                             [] OTHER          -> "usertrapret"
                  /\ UNCHANGED <<mode, sie, spie, spp, sepc, scause, stvec, epc,
                                 killed, which_dev, ksaved, resume>>

usertrap_yield == /\ pc = "ut_yield"
                  /\ Clobber
                  /\ pc' = "usertrapret"

-----------------------------------------------------------------------------
(* usertrapret *)

\* (seeded fault: stvec switched to uservec before interrupts are off)
usertrapretStvecFirst == /\ pc = "usertrapret"
                         /\ stvec' = "uservec"
                         /\ pc' = "utr_setup"
                         /\ UNCHANGED <<mode, sie, spie, spp, sepc, scause, epc, killed,
                                        which_dev, ksaved, resume>>

\* intr_off(): the vector is about to change to uservec
usertrapret == /\ pc = "usertrapret"
               /\ sie' = FALSE
               /\ pc' = "utr_setup"
               /\ UNCHANGED <<mode, spie, spp, sepc, scause, stvec, epc, killed,
                              which_dev, ksaved, resume>>

\* (seeded fault: w_sepc(p->trapframe->epc) left out)
usertrapret_setupKeepSepc == /\ pc = "utr_setup"
                             /\ stvec' = "uservec"
                             /\ spp' = "U" /\ spie' = TRUE
                             /\ pc' = "userret"
                             /\ UNCHANGED <<mode, sie, sepc, scause, epc, killed,
                                            which_dev, ksaved, resume>>

\* w_stvec(uservec); the trapframe's kernel slots; SPP cleared, SPIE set;
\* w_sepc(p->trapframe->epc); jump to userret
usertrapret_setup == /\ pc = "utr_setup"
                     /\ stvec' = "uservec"
                     /\ spp' = "U" /\ spie' = TRUE
                     /\ sepc' = epc
                     /\ pc' = "userret"
                     /\ UNCHANGED <<mode, sie, scause, epc, killed, which_dev, ksaved,
                                    resume>>

-----------------------------------------------------------------------------
(* kerneltrap *)

\* (seeded fault: the trap pc read instead of r_sepc())
kerneltrapSavePc == /\ pc = "kerneltrap"
                    /\ ksaved' = [sepc |-> pc, spp |-> spp, spie |-> spie]
                    /\ pc' = IF spp # "S" \/ sie \/ scause \notin Interrupts THEN "panic"
                             ELSE IF scause = "timer" THEN "kt_yield" ELSE "kt_restore"
                    /\ UNCHANGED <<mode, sie, spie, spp, sepc, scause, stvec, epc, killed,
                                   which_dev, resume>>

\* sepc, sstatus, scause saved in locals; panic unless SPP says supervisor
\* and interrupts are off; devintr() == 0 panics; on a timer interrupt
\* with a process running, yield
kerneltrap == /\ pc = "kerneltrap"
              /\ ksaved' = [sepc |-> sepc, spp |-> spp, spie |-> spie]
              /\ pc' = IF spp # "S" \/ sie \/ scause \notin Interrupts THEN "panic"
                       ELSE IF scause = "timer" THEN "kt_yield" ELSE "kt_restore"
              /\ UNCHANGED <<mode, sie, spie, spp, sepc, scause, stvec, epc, killed,
                             which_dev, resume>>

kerneltrap_yield == /\ pc = "kt_yield"
                    /\ Clobber
                    /\ pc' = "kt_restore"

\* (seeded fault: w_sstatus(sstatus) left out)
kerneltrap_restoreNoStatus == /\ pc = "kt_restore"
                              /\ sepc' = ksaved.sepc
                              /\ pc' = "kernelret"
                              /\ UNCHANGED <<mode, sie, spie, spp, scause, stvec, epc,
                                             killed, which_dev, ksaved, resume>>

\* w_sepc(sepc); w_sstatus(sstatus): the yield may have trapped
kerneltrap_restore == /\ pc = "kt_restore"
                      /\ sepc' = ksaved.sepc
                      /\ spp' = ksaved.spp /\ spie' = ksaved.spie
                      /\ pc' = "kernelret"
                      /\ UNCHANGED <<mode, sie, scause, stvec, epc, killed, which_dev,
                                     ksaved, resume>>

-----------------------------------------------------------------------------

\* the steps of the kernel's own code on this hart
KernelStep == \/ uservec \/ usertrap_entry \/ usertrap_cause \/ syscall
              \/ usertrap_check \/ usertrap_yield \/ usertrapret
              \/ usertrapret_setup \/ userret \/ kernelvec \/ kerneltrap
              \/ kerneltrap_yield \/ kerneltrap_restore \/ kernelret

Next == \/ UserStep \/ Kill \/ KernelStep
        \/ \E cause \in Causes : TakeTrap(cause)

Spec == Init /\ [][Next]_vars

\* The kernel's own code runs on: weak fairness of its steps.  Where it
\* runs with interrupts enabled (syscall and the end of usertrap), each
\* step is strongly fair: interrupts may delay it but not forever, as the
\* timer period is long and the PLIC lets a device raise one interrupt at
\* a time.  The timer interrupts user code periodically: weakly fair
\* while the hart is in user mode.  User code, ecalls, faults, device
\* interrupts and kill are not fair.
FairSpec == /\ Spec
            /\ WF_vars(KernelStep)
            /\ SF_vars(syscall) /\ SF_vars(usertrap_check)
            /\ SF_vars(usertrap_yield) /\ SF_vars(usertrapret)
            /\ WF_vars(mode = "U" /\ TakeTrap("timer"))

-----------------------------------------------------------------------------
(* Properties *)

\* Type invariant.  Among others, sepc and kerneltrap's saved sepc only
\* ever hold user instructions or kernel code that runs with interrupts
\* enabled: a kernel interrupt lands nowhere else.
TypeOK == /\ mode \in {"U", "S"}
          /\ pc \in UserPCs \cup KernelPCs \cup TrapPCs
          /\ sie \in BOOLEAN /\ spie \in BOOLEAN /\ spp \in {"U", "S"}
          /\ sepc \in UserPCs \cup KernelPCs
          /\ scause \in Causes
          /\ stvec \in {"uservec", "kernelvec"}
          /\ epc \in UserPCs
          /\ killed \in BOOLEAN
          /\ which_dev \in {0, 1, 2}
          /\ ksaved \in [sepc : UserPCs \cup KernelPCs, spp : {"U", "S"},
                         spie : BOOLEAN]
          /\ resume \in UserPCs

\* None of the panics of usertrap and kerneltrap fires: a trap reaches
\* usertrap only from user mode and kerneltrap only from the kernel with
\* interrupts off, whatever interrupts arrive between the steps of
\* usertrap, syscall and usertrapret (stvec switched to uservec only
\* after intr_off, back to kernelvec before intr_on).
NoTrapPanic == pc # "panic"

\* The hart is in user mode exactly when it executes user code: every sret
\* of userret and of kernelvec lands in the mode its code was running in,
\* even when a yield inside kerneltrap let other traps overwrite sepc and
\* sstatus.
ModeConsistent == (mode = "U") <=> (pc \in UserPCs)

\* Every return to user mode continues the program where it must: after
\* the ecall for a system call, at the interrupted instruction for an
\* interrupt, at the new entry after exec; interrupts taken during
\* syscall() overwrite sepc, so usertrapret must reload it from the
\* trapframe.
ResumeCorrect == [][mode = "S" /\ mode' = "U" => pc' = resume]_vars

\* A killed process eventually exits: usertrap checks the flag on every
\* trap before returning to user mode, and the timer keeps trapping user
\* code.
KilledExits == killed ~> pc = "exited"
====
