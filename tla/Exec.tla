-------------------------------- MODULE Exec --------------------------------
(***************************************************************************)
(* exec() of kernel/exec.c, run by several processes at once.             *)
(*                                                                         *)
(* What the processes share: the free frames of kalloc (nfree), the log's *)
(* admission of file-system operations (outstanding, begin_op/end_op) and *)
(* the sleep lock of each inode (ilock/iunlockput).  Everything else an   *)
(* exec touches is its own: the new page table it builds (pt, sz) and,    *)
(* at the commit, its process's image (p->pagetable, p->sz and the trap   *)
(* frame's epc, sp and a1).                                               *)
(*                                                                         *)
(* An image is a record: the file it came from, its size, entry, stack    *)
(* pointer, a1 (argv) and the user addresses of the argument strings.     *)
(* Page tables are counted in frames: the root page and one frame per     *)
(* page below PGROUNDUP(sz).  vm.c, proc.c and fs.c are not in the        *)
(* repository: uvmalloc, proc_pagetable, proc_freepagetable, walkaddr,    *)
(* namei, readi and the inode lock follow the contracts of spec.md 6.     *)
(***************************************************************************)
EXTENDS Naturals, Sequences, FiniteSets, FiniteSetsExt

CONSTANTS Procs,
          Files,     \* path names; ELF[f].exists is FALSE if namei fails
          ELF,       \* the contents of each file
          Argvs,     \* argument vectors callers pass: sequences of strlen
          PGSIZE,
          MAXVA,     \* user virtual addresses are below MAXVA
          MAXARG,
          NFRAMES,   \* physical frames
          LOGOPS,    \* operations the log admits at once (LOGSIZE / MAXOPBLOCKS)
          SZ0,       \* size of each process's image before its exec
          U64,       \* 2^64, scaled down: uint64 arithmetic wraps here
          MaxCalls,  \* bound: exec calls per process
          NoProc, NoFile

ELF_PROG_LOAD == 1

\* the callers are sys_exec, which copies each argument into one page
ASSUME \A a \in Argvs : \A k \in 1 .. Len(a) : a[k] < PGSIZE

PGROUNDUP(a) == ((a + PGSIZE - 1) \div PGSIZE) * PGSIZE
Pages(s) == PGROUNDUP(s) \div PGSIZE
\* the frames of a page table covering [0, s): the root and the user pages
Frames(s) == Pages(s) + 1

VARIABLES pc, file, argv, ret,
          image,     \* p->pagetable, p->sz, p->trapframe->{epc, sp, a1}
          saved,     \* the image when exec was called (history)
          pt,        \* the new pagetable is allocated (pagetable != 0)
          sz,        \* exec's local sz
          i,         \* the program-header loop index
          ip,        \* the locked inode, or NoFile (ip == 0)
          stk,       \* the user stack exec has built: [sp, ustack]
          nfree,     \* free frames of kalloc
          outstanding, \* log.outstanding
          ilocked,   \* holder of each inode's sleep lock
          panicked,  \* loadseg's "address should exist" panic has fired
          calls

vars == <<pc, file, argv, ret, image, saved, pt, sz, i, ip, stk, nfree,
          outstanding, ilocked, panicked, calls>>

InitImage == [file |-> NoFile, sz |-> SZ0, entry |-> 0, sp |-> 0, a1 |-> 0,
              ustack |-> <<>>, lens |-> <<>>]

Init == /\ pc = [p \in Procs |-> "idle"]
        /\ file = [p \in Procs |-> NoFile]
        /\ argv = [p \in Procs |-> <<>>]
        /\ ret = [p \in Procs |-> 0]
        /\ image = [p \in Procs |-> InitImage]
        /\ saved = image
        /\ pt = [p \in Procs |-> FALSE]
        /\ sz = [p \in Procs |-> 0]
        /\ i = [p \in Procs |-> 1]
        /\ ip = [p \in Procs |-> NoFile]
        /\ stk = [p \in Procs |-> [sp |-> 0, ustack |-> <<>>]]
        /\ nfree = NFRAMES - Cardinality(Procs) * Frames(SZ0)
        /\ outstanding = 0
        /\ ilocked = [f \in Files |-> NoProc]
        /\ panicked = FALSE
        /\ calls = [p \in Procs |-> 0]

-----------------------------------------------------------------------------
(* Helpers of vm.c, from their contracts *)

\* (seeded fault: kalloc's 0 is not checked)
uvmallocNoCheck(oldsz, newsz) == IF newsz < oldsz THEN oldsz ELSE newsz

\* uvmalloc(pagetable, oldsz, newsz): the new size, or 0 if kalloc ran out
\* (it frees what it had allocated); a smaller newsz leaves oldsz
uvmalloc(oldsz, newsz) ==
  IF newsz < oldsz THEN oldsz
  ELSE IF Pages(newsz) - Pages(oldsz) > nfree THEN 0 ELSE newsz

\* walkaddr: a user page is mapped iff it lies below the page table's size
Mapped(va, s) == va < MAXVA /\ va < PGROUNDUP(s)

\* ph.vaddr + ph.memsz as a uint64
SegEnd(ph) == (ph.vaddr + ph.memsz) % U64

\* (seeded fault: the check memsz >= filesz is left out)
SegOKNoSize(ph) == /\ ~(SegEnd(ph) < ph.vaddr)
                   /\ ph.vaddr % PGSIZE = 0

\* the checks of a LOAD segment: memsz >= filesz, vaddr + memsz does not
\* wrap, vaddr is page-aligned
SegOK(ph) == /\ ph.memsz >= ph.filesz
             /\ ~(SegEnd(ph) < ph.vaddr)
             /\ ph.vaddr % PGSIZE = 0

\* loadseg(pagetable, va, ip, off, filesz) finds every page it reads into
LoadsegMapped(va, n, s) == \A k \in 0 .. ((n + PGSIZE - 1) \div PGSIZE) - 1 :
                             Mapped(va + k * PGSIZE, s)

\* (seeded fault: the NUL of each string is not counted)
RECURSIVE PushArgsNoNul(_, _, _, _)
PushArgsNoNul(sp, stackbase, lens, ustack) ==
  IF Len(ustack) = Len(lens) THEN [ok |-> TRUE, sp |-> sp, ustack |-> ustack]
  ELSE IF Len(ustack) >= MAXARG THEN [ok |-> FALSE]
  ELSE LET s1 == sp - lens[Len(ustack) + 1]
           s2 == s1 - (s1 % 16)
       IN IF s2 < stackbase THEN [ok |-> FALSE]
          ELSE PushArgsNoNul(s2, stackbase, lens, Append(ustack, s2))

\* The argument loop of exec (lines 111-121), from sp down to stackbase:
\* each string takes strlen + 1 bytes, sp is rounded down to 16.  The
\* result says whether it failed and where the strings went.
RECURSIVE PushArgs(_, _, _, _)
PushArgs(sp, stackbase, lens, ustack) ==
  IF Len(ustack) = Len(lens) THEN [ok |-> TRUE, sp |-> sp, ustack |-> ustack]
  ELSE IF Len(ustack) >= MAXARG THEN [ok |-> FALSE]
  ELSE LET s1 == sp - (lens[Len(ustack) + 1] + 1)
           s2 == s1 - (s1 % 16)
       IN IF s2 < stackbase THEN [ok |-> FALSE]
          ELSE PushArgs(s2, stackbase, lens, Append(ustack, s2))

-----------------------------------------------------------------------------
(* exec(path, argv) *)

Call(p) == /\ pc[p] = "idle"
           /\ calls[p] < MaxCalls
           /\ \E f \in Files, a \in Argvs :
                 /\ file' = [file EXCEPT ![p] = f]
                 /\ argv' = [argv EXCEPT ![p] = a]
           /\ calls' = [calls EXCEPT ![p] = @ + 1]
           /\ saved' = [saved EXCEPT ![p] = image[p]]
           /\ pc' = [pc EXCEPT ![p] = "begin_op"]
           /\ UNCHANGED <<ret, image, pt, sz, i, ip, stk, nfree, outstanding,
                          ilocked, panicked>>

\* begin_op(): sleep until the log admits one more operation
begin_op(p) == /\ pc[p] = "begin_op"
               /\ outstanding < LOGOPS
               /\ outstanding' = outstanding + 1
               /\ pc' = [pc EXCEPT ![p] = "namei"]
               /\ UNCHANGED <<file, argv, ret, image, saved, pt, sz, i, ip, stk,
                              nfree, ilocked, panicked, calls>>

\* if ((ip = namei(path)) == 0) { end_op(); return -1; }
namei(p) == /\ pc[p] = "namei"
            /\ \/ /\ ELF[file[p]].exists
                  /\ pc' = [pc EXCEPT ![p] = "ilock"]
                  /\ UNCHANGED <<ret, outstanding>>
               \/ /\ ~ELF[file[p]].exists
                  /\ outstanding' = outstanding - 1
                  /\ ret' = [ret EXCEPT ![p] = -1]
                  /\ pc' = [pc EXCEPT ![p] = "idle"]
            /\ UNCHANGED <<file, argv, image, saved, pt, sz, i, ip, stk, nfree,
                           ilocked, panicked, calls>>

\* ilock(ip): the inode's sleep lock
ilock(p) == /\ pc[p] = "ilock"
            /\ ilocked[file[p]] = NoProc
            /\ ilocked' = [ilocked EXCEPT ![file[p]] = p]
            /\ ip' = [ip EXCEPT ![p] = file[p]]
            /\ pc' = [pc EXCEPT ![p] = "header"]
            /\ UNCHANGED <<file, argv, ret, image, saved, pt, sz, i, stk, nfree,
                           outstanding, panicked, calls>>

\* readi of the ELF header, the magic check, proc_pagetable
header(p) == /\ pc[p] = "header"
             /\ \/ /\ ELF[file[p]].hdr /\ nfree > 0
                   /\ pt' = [pt EXCEPT ![p] = TRUE]
                   /\ nfree' = nfree - Frames(0)
                   /\ sz' = [sz EXCEPT ![p] = 0]
                   /\ i' = [i EXCEPT ![p] = 1]
                   /\ pc' = [pc EXCEPT ![p] = "load"]
                \/ /\ ~ELF[file[p]].hdr \/ nfree = 0
                   /\ pc' = [pc EXCEPT ![p] = "bad"]
                   /\ UNCHANGED <<pt, nfree, sz, i>>
             /\ UNCHANGED <<file, argv, ret, image, saved, ip, stk, outstanding,
                            ilocked, panicked, calls>>

\* One pass of the program-header loop: readi of ph (the model's files
\* are not truncated there); skip a segment that is not LOAD; the three
\* validity checks; uvmalloc up to vaddr + memsz, then sz = sz1; loadseg,
\* which panics if walkaddr finds a page unmapped and fails if readi of
\* the segment comes up short.
load_ph(p) ==
  LET ph == ELF[file[p]].phs[i[p]]
      sz1 == uvmalloc(sz[p], SegEnd(ph))
  IN /\ pc[p] = "load"
     /\ i[p] <= Len(ELF[file[p]].phs)
     /\ \/ /\ ph.type # ELF_PROG_LOAD
           /\ i' = [i EXCEPT ![p] = @ + 1]
           /\ UNCHANGED <<pc, sz, nfree, panicked>>
        \/ /\ ph.type = ELF_PROG_LOAD
           /\ ~SegOK(ph)
           /\ pc' = [pc EXCEPT ![p] = "bad"]
           /\ UNCHANGED <<sz, i, nfree, panicked>>
        \/ /\ ph.type = ELF_PROG_LOAD
           /\ SegOK(ph)
           /\ sz1 = 0                            \* uvmalloc failed
           /\ pc' = [pc EXCEPT ![p] = "bad"]
           /\ UNCHANGED <<sz, i, nfree, panicked>>
        \/ /\ ph.type = ELF_PROG_LOAD
           /\ SegOK(ph)
           /\ sz1 # 0
           /\ nfree' = nfree - (Pages(sz1) - Pages(sz[p]))
           /\ sz' = [sz EXCEPT ![p] = sz1]
           /\ panicked' = (panicked \/ ~LoadsegMapped(ph.vaddr, ph.filesz, sz1))
           /\ IF ph.ok THEN /\ i' = [i EXCEPT ![p] = @ + 1]
                            /\ UNCHANGED pc
                       ELSE /\ pc' = [pc EXCEPT ![p] = "bad"]
                            /\ UNCHANGED i
     /\ UNCHANGED <<file, argv, ret, image, saved, pt, ip, stk, outstanding,
                    ilocked, calls>>

\* (seeded fault: ip = 0 is left out)
load_doneKeepIp(p) == /\ pc[p] = "load"
                      /\ i[p] > Len(ELF[file[p]].phs)
                      /\ ilocked' = [ilocked EXCEPT ![ip[p]] = NoProc]
                      /\ outstanding' = outstanding - 1
                      /\ pc' = [pc EXCEPT ![p] = "stack"]
                      /\ UNCHANGED <<file, argv, ret, image, saved, pt, sz, i, ip,
                                     stk, nfree, panicked, calls>>

\* iunlockput(ip); end_op(); ip = 0
load_done(p) == /\ pc[p] = "load"
                /\ i[p] > Len(ELF[file[p]].phs)
                /\ ilocked' = [ilocked EXCEPT ![ip[p]] = NoProc]
                /\ outstanding' = outstanding - 1
                /\ ip' = [ip EXCEPT ![p] = NoFile]
                /\ pc' = [pc EXCEPT ![p] = "stack"]
                /\ UNCHANGED <<file, argv, ret, image, saved, pt, sz, i, stk,
                               nfree, panicked, calls>>

\* (seeded fault: the stack's size is stored in p->sz at once)
stackSetsSz(p) == LET sz0 == PGROUNDUP(sz[p])
                      sz1 == uvmalloc(sz0, sz0 + 2 * PGSIZE)
                  IN /\ pc[p] = "stack"
                     /\ \/ /\ sz1 = 0
                           /\ sz' = [sz EXCEPT ![p] = sz0]
                           /\ pc' = [pc EXCEPT ![p] = "bad"]
                           /\ UNCHANGED <<nfree, image>>
                        \/ /\ sz1 # 0
                           /\ nfree' = nfree - 2
                           /\ sz' = [sz EXCEPT ![p] = sz1]
                           /\ image' = [image EXCEPT ![p].sz = sz1]
                           /\ pc' = [pc EXCEPT ![p] = "args"]
                     /\ UNCHANGED <<file, argv, ret, saved, pt, i, ip, stk,
                                    outstanding, ilocked, panicked, calls>>

\* sz = PGROUNDUP(sz); two more pages by uvmalloc; uvmclear of the guard
stack(p) == LET sz0 == PGROUNDUP(sz[p])
                sz1 == uvmalloc(sz0, sz0 + 2 * PGSIZE)
            IN /\ pc[p] = "stack"
               /\ \/ /\ sz1 = 0
                     /\ sz' = [sz EXCEPT ![p] = sz0]
                     /\ pc' = [pc EXCEPT ![p] = "bad"]
                     /\ UNCHANGED nfree
                  \/ /\ sz1 # 0
                     /\ nfree' = nfree - 2
                     /\ sz' = [sz EXCEPT ![p] = sz1]
                     /\ pc' = [pc EXCEPT ![p] = "args"]
               /\ UNCHANGED <<file, argv, ret, image, saved, pt, i, ip, stk,
                              outstanding, ilocked, panicked, calls>>

\* sp = sz; stackbase = sp - PGSIZE; push the strings, then the array of
\* argc + 1 pointers, 16-byte aligned; fail if sp would pass stackbase.
\* copyout cannot fail above stackbase: the stack page is mapped for user.
args(p) == LET stackbase == sz[p] - PGSIZE
               r == PushArgs(sz[p], stackbase, argv[p], <<>>)
               s1 == r.sp - (Len(argv[p]) + 1) * 8
               sp == s1 - (s1 % 16)
           IN /\ pc[p] = "args"
              /\ IF r.ok /\ sp >= stackbase
                 THEN /\ stk' = [stk EXCEPT ![p] = [sp |-> sp, ustack |-> r.ustack]]
                      /\ pc' = [pc EXCEPT ![p] = "commit"]
                 ELSE /\ pc' = [pc EXCEPT ![p] = "bad"]
                      /\ UNCHANGED stk
              /\ UNCHANGED <<file, argv, ret, image, saved, pt, sz, i, ip, nfree,
                             outstanding, ilocked, panicked, calls>>

\* (seeded fault: the old page table is freed with the new size)
commitFreeNewSz(p) ==
  /\ pc[p] = "commit"
  /\ image' = [image EXCEPT ![p] =
                 [file |-> file[p], sz |-> sz[p], entry |-> ELF[file[p]].entry,
                  sp |-> stk[p].sp, a1 |-> stk[p].sp,
                  ustack |-> stk[p].ustack, lens |-> argv[p]]]
  /\ nfree' = nfree + Frames(sz[p])
  /\ pt' = [pt EXCEPT ![p] = FALSE]
  /\ ret' = [ret EXCEPT ![p] = Len(argv[p])]
  /\ pc' = [pc EXCEPT ![p] = "idle"]
  /\ UNCHANGED <<file, argv, saved, sz, i, ip, stk, outstanding, ilocked,
                 panicked, calls>>

\* install the new page table, sz, epc, sp and a1; proc_freepagetable of
\* the old one with oldsz; return argc
commit(p) ==
  /\ pc[p] = "commit"
  /\ image' = [image EXCEPT ![p] =
                 [file |-> file[p], sz |-> sz[p], entry |-> ELF[file[p]].entry,
                  sp |-> stk[p].sp, a1 |-> stk[p].sp,
                  ustack |-> stk[p].ustack, lens |-> argv[p]]]
  /\ nfree' = nfree + Frames(image[p].sz)
  /\ pt' = [pt EXCEPT ![p] = FALSE]
  /\ ret' = [ret EXCEPT ![p] = Len(argv[p])]
  /\ pc' = [pc EXCEPT ![p] = "idle"]
  /\ UNCHANGED <<file, argv, saved, sz, i, ip, stk, outstanding, ilocked,
                 panicked, calls>>

\* (seeded fault: the inode is not unlocked on the error path)
badNoUnlock(p) == /\ pc[p] = "bad"
                  /\ nfree' = IF pt[p] THEN nfree + Frames(sz[p]) ELSE nfree
                  /\ pt' = [pt EXCEPT ![p] = FALSE]
                  /\ outstanding' = IF ip[p] # NoFile THEN outstanding - 1 ELSE outstanding
                  /\ ip' = [ip EXCEPT ![p] = NoFile]
                  /\ ret' = [ret EXCEPT ![p] = -1]
                  /\ pc' = [pc EXCEPT ![p] = "idle"]
                  /\ UNCHANGED <<file, argv, image, saved, sz, i, stk, ilocked,
                                 panicked, calls>>

\* bad: if (pagetable) proc_freepagetable(pagetable, sz);
\*      if (ip) { iunlockput(ip); end_op(); }  return -1
bad(p) == /\ pc[p] = "bad"
          /\ nfree' = IF pt[p] THEN nfree + Frames(sz[p]) ELSE nfree
          /\ pt' = [pt EXCEPT ![p] = FALSE]
          /\ ilocked' = IF ip[p] # NoFile THEN [ilocked EXCEPT ![ip[p]] = NoProc]
                                          ELSE ilocked
          /\ outstanding' = IF ip[p] # NoFile THEN outstanding - 1 ELSE outstanding
          /\ ip' = [ip EXCEPT ![p] = NoFile]
          /\ ret' = [ret EXCEPT ![p] = -1]
          /\ pc' = [pc EXCEPT ![p] = "idle"]
          /\ UNCHANGED <<file, argv, image, saved, sz, i, stk, panicked, calls>>

Step(p) == \/ begin_op(p) \/ namei(p) \/ ilock(p) \/ header(p) \/ load_ph(p)
           \/ load_done(p) \/ stack(p) \/ args(p) \/ commit(p) \/ bad(p)

Next == \E p \in Procs : Call(p) \/ Step(p)

Spec == Init /\ [][Next]_vars

\* xv6's scheduler runs every RUNNABLE process; a caller need not call exec
FairSpec == Spec /\ \A p \in Procs : WF_vars(Step(p))

-----------------------------------------------------------------------------
(* Properties *)

Image == [file : Files \cup {NoFile}, sz : Nat, entry : Nat, sp : Nat,
          a1 : Nat, ustack : Seq(Nat), lens : Seq(Nat)]

\* Type invariant.  nfree stays within 0 .. NFRAMES: uvmalloc never
\* takes frames kalloc does not have, and frees never exceed what was taken.
TypeOK == /\ pc \in [Procs -> {"idle", "begin_op", "namei", "ilock", "header",
                               "load", "stack", "args", "commit", "bad"}]
          /\ image \in [Procs -> Image] /\ saved \in [Procs -> Image]
          /\ pt \in [Procs -> BOOLEAN] /\ sz \in [Procs -> Nat]
          /\ ip \in [Procs -> Files \cup {NoFile}]
          /\ nfree \in 0 .. NFRAMES
          /\ outstanding \in 0 .. LOGOPS
          /\ ilocked \in [Files -> Procs \cup {NoProc}]
          /\ ret \in [Procs -> {-1} \cup 0 .. MAXARG]

\* No frame leaks, on any path out of exec: the free frames, the frames of
\* every process's image and those of every page table under construction
\* add up to all frames -- every goto bad frees the new page table with
\* the sz that covers what uvmalloc mapped, and the commit frees the old
\* one with the size it had (oldsz).
FramesConserved ==
  nfree + MapThenSumSet(LAMBDA p : Frames(image[p].sz), Procs)
        + MapThenSumSet(LAMBDA p : IF pt[p] THEN Frames(sz[p]) ELSE 0, Procs)
    = NFRAMES

\* Spec 8.7 and 4.7: exec is all-or-nothing -- until it commits, and after
\* it fails at any step, the caller's page table, size and trap frame are
\* what they were when it called exec.
CallerImageIntact == \A p \in Procs :
                       (pc[p] # "idle" \/ ret[p] = -1) => image[p] = saved[p]

\* Every path out of exec closes what it opened: the log counts exactly the
\* execs between begin_op and end_op, and an inode's sleep lock is held by
\* exactly the exec whose ip it is -- after the inode is put at line 78,
\* ip = 0 keeps the error path from putting it and ending the op again.
OpsAndLocksBalanced ==
  /\ outstanding = Cardinality({p \in Procs : pc[p] \in {"namei", "ilock"}
                                              \/ ip[p] # NoFile})
  /\ \A f \in Files : \A p \in Procs : ilocked[f] = p <=> ip[p] = f
  /\ \A p \in Procs : pc[p] = "idle" => ip[p] = NoFile /\ ~pt[p]

\* Spec 7 lists "loadseg onto an unmapped VA" as a fatal programmer error:
\* the three checks of each LOAD segment keep any file, however malformed,
\* from making loadseg panic.
NoLoadsegPanic == ~panicked

\* After a successful exec the user stack is well formed: each argument
\* string with its NUL lies in the stack page [stackbase, sz), no two
\* overlap, the argv array of argc + 1 pointers lies below them, and sp
\* (= a1) is 16-byte aligned.
StackLayout ==
  \A p \in Procs : image[p].file # NoFile =>
    LET im == image[p]
        base == im.sz - PGSIZE
        Str(k) == im.ustack[k] .. (im.ustack[k] + im.lens[k])
    IN /\ Len(im.ustack) = Len(im.lens)
       /\ im.sp % 16 = 0 /\ im.a1 = im.sp /\ im.sp >= base
       /\ \A k \in 1 .. Len(im.lens) :
            /\ im.ustack[k] >= im.sp + (Len(im.lens) + 1) * 8
            /\ im.ustack[k] + im.lens[k] < im.sz
            /\ \A m \in 1 .. Len(im.lens) : m # k => Str(k) \cap Str(m) = {}

\* Every exec returns, whether it waits for the log, for another exec's
\* inode lock or for frames another exec holds.
ExecReturns == \A p \in Procs : pc[p] = "begin_op" ~> pc[p] = "idle"
====
