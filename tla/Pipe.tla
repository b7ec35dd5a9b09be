-------------------------------- MODULE Pipe --------------------------------
(***************************************************************************)
(* The pipe of kernel/pipe.c shared by writer and reader processes.       *)
(*                                                                         *)
(* pi->lock is a variable (lock): a process takes it on entry and after   *)
(* every wakeup, and gives it up in sleep() and on return.  One iteration *)
(* of pipewrite's loop is one step under the lock, because kill() may set *)
(* killed between iterations; piperead's copy loop never sleeps and reads *)
(* nothing another process changes, so it is one step.  nread and nwrite  *)
(* are uint counters: they are kept modulo Wrap, a multiple of PIPESIZE   *)
(* as 2^32 is of 512, so the wrap-around of the counters is checked too.  *)
(* The k-th byte ever written has value k: the stream is then visible in  *)
(* the ring.  copyin/copyout may fail on a bad user address: a choice.    *)
(* Before any call, pipealloc takes two file-table entries and a page;    *)
(* either may be exhausted, and its goto bad gives back what it took.     *)
(***************************************************************************)
EXTENDS Integers, Sequences, FiniteSets

CONSTANTS Writers,   \* processes calling pipewrite on the write end
          Readers,   \* processes calling piperead on the read end
          PIPESIZE,  \* ring capacity
          Wrap,      \* modulus of the uint counters nread and nwrite
          MaxN,      \* bound: bytes asked for by one call
          MaxCalls,  \* bound: calls made by one process
          NoProc     \* pi->lock is free

ASSUME /\ Writers \cap Readers = {} /\ NoProc \notin Writers \cup Readers
       /\ PIPESIZE > 0 /\ Wrap > PIPESIZE /\ Wrap % PIPESIZE = 0
       /\ MaxN > 0 /\ MaxCalls > 0

Procs == Writers \cup Readers
Slots == 0 .. (PIPESIZE - 1)

VARIABLES nread, nwrite,          \* pi->nread, pi->nwrite (mod Wrap)
          data,                   \* pi->data
          readopen, writeopen,    \* pi->readopen, pi->writeopen
          freed,                  \* kfree(pi) has run
          lock,                   \* holder of pi->lock
          pc,                     \* where each process is
          n, i,                   \* the call's n and its loop index i
          killed,                 \* p->killed
          calls,                  \* calls made by each process
          sent,                   \* history: bytes stored in the ring, in order
          consumed,               \* history: bytes taken from the ring, in order
          returned,               \* history: bytes copied out to readers, in order
          ret,                    \* the value the last call of p returned
          alloc,                  \* where pipealloc is
          f0, f1,                 \* pipealloc's *f0, *f1 are allocated files
          pi,                     \* pipealloc's pi is a page from kalloc
          ffree,                  \* free entries of the file table
          frames,                 \* free pages on kmem.freelist
          avail0                  \* history: <<ffree, frames>> before pipealloc

vars == <<nread, nwrite, data, readopen, writeopen, freed, lock, pc, n, i,
          killed, calls, sent, consumed, returned, ret, alloc, f0, f1, pi,
          ffree, frames, avail0>>
avars == <<alloc, f0, f1, pi, ffree, frames, avail0>>

PcVals == {"idle", "acquire", "wloop", "wsleep", "rloop", "rsleep"}

\* the number of bytes in the ring: nwrite - nread in uint arithmetic
Count == (nwrite - nread + Wrap) % Wrap
\* mutant: the full test is off by one
FullPlusOne == nwrite = (nread + PIPESIZE + 1) % Wrap

Full == nwrite = (nread + PIPESIZE) % Wrap
Empty == nread = nwrite

\* wakeup(chan): the processes asleep in state s become runnable and will
\* take pi->lock again
Wakeup(f, s) == [q \in Procs |-> IF f[q] = s THEN "acquire" ELSE f[q]]

\* pipealloc's entry: pi = 0; *f0 = *f1 = 0.  Other processes hold some of
\* the file table and of memory, so up to two files and one page are free.
\* The pipe's fields are set by pipealloc; until then both ends are closed.
Init == /\ nread = 0 /\ nwrite = 0
        /\ data = [k \in Slots |-> 0]
        /\ readopen = FALSE /\ writeopen = FALSE /\ freed = FALSE
        /\ alloc = "filealloc0" /\ f0 = FALSE /\ f1 = FALSE /\ pi = FALSE
        /\ ffree \in 0 .. 2 /\ frames \in 0 .. 1
        /\ avail0 = <<ffree, frames>>
        /\ lock = NoProc
        /\ pc = [p \in Procs |-> "idle"]
        /\ n = [p \in Procs |-> 0] /\ i = [p \in Procs |-> 0]
        /\ killed = [p \in Procs |-> FALSE]
        /\ calls = [p \in Procs |-> 0]
        /\ sent = <<>> /\ consumed = <<>> /\ returned = <<>>
        /\ ret = [p \in Procs |-> 0]

-----------------------------------------------------------------------------
(* pipealloc *)

\* filealloc(): a free file-table entry, or 0
FileAlloc(ok) == IF ffree > 0 THEN ok' = TRUE /\ ffree' = ffree - 1
                              ELSE ok' = FALSE /\ ffree' = ffree

\* if ((*f0 = filealloc()) == 0 || ...) goto bad
filealloc0 == /\ alloc = "filealloc0"
              /\ FileAlloc(f0)
              /\ alloc' = IF f0' THEN "filealloc1" ELSE "bad"
              /\ UNCHANGED <<f1, pi, frames, avail0, nread, nwrite, data, readopen,
                             writeopen, freed, lock, pc, n, i, killed, calls, sent,
                             consumed, returned, ret>>

\* ... || (*f1 = filealloc()) == 0) goto bad
filealloc1 == /\ alloc = "filealloc1"
              /\ FileAlloc(f1)
              /\ alloc' = IF f1' THEN "kalloc" ELSE "bad"
              /\ UNCHANGED <<f0, pi, frames, avail0, nread, nwrite, data, readopen,
                             writeopen, freed, lock, pc, n, i, killed, calls, sent,
                             consumed, returned, ret>>

\* pi = kalloc(), or goto bad; then both ends open, nread = nwrite = 0,
\* and *f0 reads from and *f1 writes to pi: return 0
pipe_kalloc == /\ alloc = "kalloc"
               /\ \/ /\ frames > 0
                     /\ frames' = frames - 1
                     /\ pi' = TRUE
                     /\ readopen' = TRUE /\ writeopen' = TRUE
                     /\ alloc' = "done"
                  \/ /\ frames = 0
                     /\ alloc' = "bad"
                     /\ UNCHANGED <<frames, pi, readopen, writeopen>>
               /\ UNCHANGED <<f0, f1, ffree, avail0, nread, nwrite, data, freed,
                              lock, pc, n, i, killed, calls, sent, consumed,
                              returned, ret>>

\* (seeded fault: bad closes *f0 only)
pipealloc_badNoF1 == /\ alloc = "bad"
                     /\ frames' = IF pi THEN frames + 1 ELSE frames
                     /\ ffree' = ffree + (IF f0 THEN 1 ELSE 0)
                     /\ pi' = FALSE /\ f0' = FALSE /\ f1' = FALSE
                     /\ alloc' = "failed"
                     /\ UNCHANGED <<avail0, nread, nwrite, data, readopen, writeopen,
                                    freed, lock, pc, n, i, killed, calls, sent,
                                    consumed, returned, ret>>

\* bad: if (pi) kfree(pi); if (*f0) fileclose(*f0); if (*f1) fileclose(*f1);
\* return -1.  A file from filealloc is FD_NONE, so fileclose only frees it.
pipealloc_bad == /\ alloc = "bad"
                 /\ frames' = IF pi THEN frames + 1 ELSE frames
                 /\ ffree' = ffree + (IF f0 THEN 1 ELSE 0) + (IF f1 THEN 1 ELSE 0)
                 /\ pi' = FALSE /\ f0' = FALSE /\ f1' = FALSE
                 /\ alloc' = "failed"
                 /\ UNCHANGED <<avail0, nread, nwrite, data, readopen, writeopen,
                                freed, lock, pc, n, i, killed, calls, sent,
                                consumed, returned, ret>>

pipealloc == filealloc0 \/ filealloc1 \/ pipe_kalloc \/ pipealloc_bad

-----------------------------------------------------------------------------
(* Entering a call, and acquire(&pi->lock) *)

\* read()/write() on the pipe's file: its end is open while p holds the file
Call(p, m) == /\ pc[p] = "idle"
              /\ calls[p] < MaxCalls
              /\ IF p \in Writers THEN writeopen ELSE readopen
              /\ pc' = [pc EXCEPT ![p] = "acquire"]
              /\ n' = [n EXCEPT ![p] = m]
              /\ i' = [i EXCEPT ![p] = 0]
              /\ calls' = [calls EXCEPT ![p] = @ + 1]
              /\ UNCHANGED <<avars, nread, nwrite, data, readopen, writeopen, freed, lock,
                             killed, sent, consumed, returned, ret>>

\* acquire(&pi->lock), on entry or on waking in sleep(); back to the loop head
acquire(p) == /\ pc[p] = "acquire"
              /\ lock = NoProc
              /\ lock' = p
              /\ pc' = [pc EXCEPT ![p] = IF p \in Writers THEN "wloop" ELSE "rloop"]
              /\ UNCHANGED <<avars, nread, nwrite, data, readopen, writeopen, freed, n, i,
                             killed, calls, sent, consumed, returned, ret>>

-----------------------------------------------------------------------------
(* pipewrite: one iteration of while (i < n), or the return after it *)

\* the reader end is closed or the caller is killed: release, return -1
pipewrite_fail(p) == /\ pc[p] = "wloop"
                     /\ i[p] < n[p]
                     /\ ~readopen \/ killed[p]
                     /\ lock' = NoProc
                     /\ pc' = [pc EXCEPT ![p] = "idle"]
                     /\ ret' = [ret EXCEPT ![p] = -1]
                     /\ UNCHANGED <<avars, nread, nwrite, data, readopen, writeopen, freed, n, i,
                                    killed, calls, sent, consumed, returned>>

\* the ring is full: wakeup(&pi->nread); sleep(&pi->nwrite, &pi->lock)
pipewrite_full(p) == /\ pc[p] = "wloop"
                     /\ i[p] < n[p]
                     /\ readopen /\ ~killed[p]
                     /\ Full
                     /\ lock' = NoProc
                     /\ pc' = [Wakeup(pc, "rsleep") EXCEPT ![p] = "wsleep"]
                     /\ UNCHANGED <<avars, nread, nwrite, data, readopen, writeopen, freed, n, i,
                                    killed, calls, sent, consumed, returned, ret>>

\* mutant: the loop runs while i <= n
pipewrite_byteLe(p) == /\ pc[p] = "wloop"
                       /\ i[p] <= n[p]
                       /\ readopen /\ ~killed[p]
                       /\ ~Full
                       /\ data' = [data EXCEPT ![nwrite % PIPESIZE] = Len(sent) + 1]
                       /\ nwrite' = (nwrite + 1) % Wrap
                       /\ i' = [i EXCEPT ![p] = @ + 1]
                       /\ sent' = Append(sent, Len(sent) + 1)
                       /\ UNCHANGED <<avars, nread, readopen, writeopen, freed, lock, pc, n,
                                      killed, calls, consumed, returned, ret>>

\* mutant: the loop tests only killed(pr), not pi->readopen
pipewrite_byteNoReadCheck(p) ==
  /\ pc[p] = "wloop"
  /\ i[p] < n[p]
  /\ ~killed[p]
  /\ ~Full
  /\ data' = [data EXCEPT ![nwrite % PIPESIZE] = Len(sent) + 1]
  /\ nwrite' = (nwrite + 1) % Wrap
  /\ i' = [i EXCEPT ![p] = @ + 1]
  /\ sent' = Append(sent, Len(sent) + 1)
  /\ UNCHANGED <<avars, nread, readopen, writeopen, freed, lock, pc, n,
                 killed, calls, consumed, returned, ret>>

\* copyin one byte, pi->data[pi->nwrite++ % PIPESIZE] = ch; i++
pipewrite_byte(p) == /\ pc[p] = "wloop"
                     /\ i[p] < n[p]
                     /\ readopen /\ ~killed[p]
                     /\ ~Full
                     /\ data' = [data EXCEPT ![nwrite % PIPESIZE] = Len(sent) + 1]
                     /\ nwrite' = (nwrite + 1) % Wrap
                     /\ i' = [i EXCEPT ![p] = @ + 1]
                     /\ sent' = Append(sent, Len(sent) + 1)
                     /\ UNCHANGED <<avars, nread, readopen, writeopen, freed, lock, pc, n,
                                    killed, calls, consumed, returned, ret>>

\* the loop ends (i == n) or copyin fails (break): wakeup(&pi->nread),
\* release, return i
pipewrite_done(p) == /\ pc[p] = "wloop"
                     /\ \/ i[p] = n[p]
                        \/ i[p] < n[p] /\ readopen /\ ~killed[p] /\ ~Full
                     /\ lock' = NoProc
                     /\ pc' = [Wakeup(pc, "rsleep") EXCEPT ![p] = "idle"]
                     /\ ret' = [ret EXCEPT ![p] = i[p]]
                     /\ UNCHANGED <<avars, nread, nwrite, data, readopen, writeopen, freed, n, i,
                                    killed, calls, sent, consumed, returned>>

-----------------------------------------------------------------------------
(* piperead *)

\* while (pi->nread == pi->nwrite && pi->writeopen): return -1 if killed,
\* else sleep(&pi->nread, &pi->lock)
piperead_wait(p) == /\ pc[p] = "rloop"
                    /\ Empty /\ writeopen
                    /\ lock' = NoProc
                    /\ pc' = [pc EXCEPT ![p] = IF killed[p] THEN "idle" ELSE "rsleep"]
                    /\ ret' = [ret EXCEPT ![p] = IF killed[p] THEN -1 ELSE @]
                    /\ UNCHANGED <<avars, nread, nwrite, data, readopen, writeopen, freed, n, i,
                                   killed, calls, sent, consumed, returned>>

\* the first g bytes of the ring, from pi->data[pi->nread % PIPESIZE] on
RingBytes(g) == [k \in 1 .. g |-> data[(nread + k - 1) % PIPESIZE]]

\* mutant: piperead returns without wakeup(&pi->nwrite)
piperead_copyNoWakeup(p) ==
  /\ pc[p] = "rloop"
  /\ ~(Empty /\ writeopen)
  /\ LET avail == IF n[p] < Count THEN n[p] ELSE Count
     IN /\ nread' = (nread + avail) % Wrap
        /\ consumed' = consumed \o RingBytes(avail)
        /\ returned' = returned \o RingBytes(avail)
        /\ ret' = [ret EXCEPT ![p] = avail]
  /\ lock' = NoProc
  /\ pc' = [pc EXCEPT ![p] = "idle"]
  /\ UNCHANGED <<avars, nwrite, data, readopen, writeopen, freed, n, i, killed, calls, sent>>

\* the copy loop: nread++ takes a byte, then copyout; it stops when n bytes
\* are copied, the ring is empty, or a copyout fails (the byte taken is
\* not returned).  Then wakeup(&pi->nwrite), release, return i.
piperead_copy(p) ==
  /\ pc[p] = "rloop"
  /\ ~(Empty /\ writeopen)
  /\ LET avail == IF n[p] < Count THEN n[p] ELSE Count
     IN \/ /\ nread' = (nread + avail) % Wrap
           /\ consumed' = consumed \o RingBytes(avail)
           /\ returned' = returned \o RingBytes(avail)
           /\ ret' = [ret EXCEPT ![p] = avail]
        \/ \E k \in 0 .. (avail - 1) :
             /\ nread' = (nread + k + 1) % Wrap
             /\ consumed' = consumed \o RingBytes(k + 1)
             /\ returned' = returned \o RingBytes(k)
             /\ ret' = [ret EXCEPT ![p] = k]
  /\ lock' = NoProc
  /\ pc' = [Wakeup(pc, "wsleep") EXCEPT ![p] = "idle"]
  /\ UNCHANGED <<avars, nwrite, data, readopen, writeopen, freed, n, i, killed, calls, sent>>

-----------------------------------------------------------------------------
(* pipeclose, and kill() from another process *)

\* mutant: pipeclose does not wake the other side
pipecloseNoWakeup(writable) ==
  /\ lock = NoProc
  /\ IF writable THEN writeopen ELSE readopen
  /\ \A p \in (IF writable THEN Writers ELSE Readers) : pc[p] = "idle"
  /\ writeopen' = (writeopen /\ ~writable)
  /\ readopen' = (readopen /\ writable)
  /\ freed' = (~writeopen' /\ ~readopen')
  /\ ffree' = ffree + 1
  /\ frames' = IF freed' THEN frames + 1 ELSE frames
  /\ UNCHANGED <<alloc, f0, f1, pi, avail0, nread, nwrite, data, lock, pc, n, i,
                 killed, calls, sent, consumed, returned, ret>>

\* the last reference to an end is dropped: fileclose frees the file-table
\* entry and calls pipeclose; no call is inside that end.  Under pi->lock:
\* clear the open flag, wake the other side, kfree the pipe once both
\* ends are closed.
pipeclose(writable) ==
  /\ lock = NoProc
  /\ IF writable THEN writeopen ELSE readopen
  /\ \A p \in (IF writable THEN Writers ELSE Readers) : pc[p] = "idle"
  /\ writeopen' = (writeopen /\ ~writable)
  /\ readopen' = (readopen /\ writable)
  /\ pc' = Wakeup(pc, IF writable THEN "rsleep" ELSE "wsleep")
  /\ freed' = (~writeopen' /\ ~readopen')
  /\ ffree' = ffree + 1
  /\ frames' = IF freed' THEN frames + 1 ELSE frames
  /\ UNCHANGED <<alloc, f0, f1, pi, avail0, nread, nwrite, data, lock, n, i, killed,
                 calls, sent, consumed, returned, ret>>

\* kill(p): set killed, and make p runnable if it sleeps
kill(p) == /\ ~killed[p]
           /\ killed' = [killed EXCEPT ![p] = TRUE]
           /\ pc' = [pc EXCEPT ![p] = IF @ \in {"wsleep", "rsleep"} THEN "acquire" ELSE @]
           /\ UNCHANGED <<avars, nread, nwrite, data, readopen, writeopen, freed, lock, n, i,
                          calls, sent, consumed, returned, ret>>

Proc(p) == \/ \E m \in 1 .. MaxN : Call(p, m)
           \/ acquire(p)
           \/ pipewrite_fail(p) \/ pipewrite_full(p) \/ pipewrite_byte(p) \/ pipewrite_done(p)
           \/ piperead_wait(p) \/ piperead_copy(p)

Next == \/ pipealloc
        \/ \E p \in Procs : Proc(p) \/ kill(p)
        \/ \E w \in BOOLEAN : pipeclose(w)

\* The scheduler runs every RUNNABLE process, a spinning acquire included;
\* every process eventually exits, and exit() closes its files, so an end
\* whose users are all idle is eventually closed.  New calls and kill()
\* are not forced.
Fairness == /\ \A p \in Procs :
                 WF_vars(acquire(p) \/ pipewrite_fail(p) \/ pipewrite_full(p)
                         \/ pipewrite_byte(p) \/ pipewrite_done(p)
                         \/ piperead_wait(p) \/ piperead_copy(p))
              /\ \A w \in BOOLEAN : WF_vars(pipeclose(w))
              /\ WF_vars(pipealloc)

Spec == Init /\ [][Next]_vars
FairSpec == Spec /\ Fairness

-----------------------------------------------------------------------------
(* Properties *)

\* Type invariant.  A pipewrite never stores past its n bytes and the
\* counters stay within their wrap-around range.
TypeOK == /\ nread \in 0 .. (Wrap - 1) /\ nwrite \in 0 .. (Wrap - 1)
          /\ data \in [Slots -> Nat]
          /\ readopen \in BOOLEAN /\ writeopen \in BOOLEAN /\ freed \in BOOLEAN
          /\ lock \in Procs \cup {NoProc}
          /\ pc \in [Procs -> PcVals]
          /\ n \in [Procs -> 0 .. MaxN] /\ i \in [Procs -> 0 .. MaxN]
          /\ killed \in [Procs -> BOOLEAN] /\ calls \in [Procs -> 0 .. MaxCalls]
          /\ sent \in Seq(Nat) /\ consumed \in Seq(Nat) /\ returned \in Seq(Nat)
          /\ ret \in [Procs -> -1 .. MaxN]
          /\ alloc \in {"filealloc0", "filealloc1", "kalloc", "bad", "done", "failed"}
          /\ {f0, f1, pi} \subseteq BOOLEAN
          /\ ffree \in Nat /\ frames \in Nat /\ avail0 \in Nat \X Nat

\* No lost wakeup: whenever pi->lock is free, a writer sleeps only while the
\* ring is full and the read end open, a reader only while the write end is
\* open; whoever changes that wakes the sleepers before releasing the lock
\* (piperead's wakeup(&pi->nwrite), pipeclose's wakeups), and kill wakes
\* its victim.
SleepJustified == lock = NoProc =>
                    \A p \in Procs :
                      /\ pc[p] = "wsleep" => Full /\ readopen /\ ~killed[p]
                      /\ pc[p] = "rsleep" => writeopen /\ ~killed[p]

\* 1 for a held resource, 0 otherwise
Held(b) == IF b THEN 1 ELSE 0

\* No file-table entry or page is lost or freed twice over the pipe's
\* life: what was free before pipealloc is free, held by pipealloc's *f0,
\* *f1 and pi, or, once pipealloc returned 0, an open end and the pipe's
\* page.  So pipealloc's goto bad gives back exactly what filealloc and
\* kalloc gave it, and fileclose/pipeclose give back each end's file and,
\* when both ends are closed, the page once.
ResourcesConserved ==
  LET files == IF alloc = "done" THEN Held(readopen) + Held(writeopen)
                                 ELSE Held(f0) + Held(f1)
      page  == IF alloc = "done" THEN Held(~freed) ELSE Held(pi)
  IN  /\ ffree + files = avail0[1]
      /\ frames + page = avail0[2]

\* The pipe as the abstract channel of PipeChannel: created once pipealloc
\* has returned 0, holding the bytes of the ring in order (the k-th byte
\* stored is k, so sent counts them), with the ends
\* whose open flags are set.
Chan == INSTANCE PipeChannel
          WITH made <- alloc = "done",
               chan <- RingBytes(Count),
               nput <- Len(sent),
               ends <- {e \in {"r", "w"} : IF e = "r" THEN readopen ELSE writeopen}

\* Spec 8.9 and the ring arithmetic of pipewrite/piperead (% PIPESIZE on
\* wrapping uint counters, the full test nwrite == nread + PIPESIZE):
\* every step of pipealloc, pipewrite, piperead and pipeclose is a step of
\* a bounded FIFO channel or changes nothing it shows -- no byte is
\* overwritten, lost or duplicated, the ring never holds more than
\* PIPESIZE bytes, a byte is stored
\* only while both ends are open (pipewrite re-tests pi->readopen on every
\* pass, also after sleeping on a full ring while the reader closed), a
\* read takes the oldest bytes, and a closed end never reopens.
ChannelRefined == Chan!Spec

\* Spec 7: a pipe operation interrupted by death returns the bytes it
\* transferred so far, and -1 only if it transferred none.
KilledWriteReportsBytes ==
  [][\A p \in Writers :
       (pc[p] = "wloop" /\ pc'[p] = "idle" /\ i[p] > 0) => ret'[p] = i[p]]_vars

\* Every pipewrite and piperead returns: nobody sleeps forever on a full
\* or empty pipe, whatever the other side does and however it ends.
CallsReturn == \A p \in Procs : pc[p] = "acquire" ~> pc[p] = "idle"

\* Spec 8.8: the bytes returned by successive pipereads are the bytes
\* taken from the ring, i.e. a prefix of the stream written.
ReturnedIsStream == returned = consumed
====
