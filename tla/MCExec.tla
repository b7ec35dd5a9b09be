------------------------------- MODULE MCExec -------------------------------
(***************************************************************************)
(* Two processes exec'ing files of a small file system.  Pages are 64     *)
(* bytes and user addresses below 1024, uint64 wraps at 2048: small       *)
(* enough to enumerate, large enough for 16-byte stack alignment and the  *)
(* segment checks to matter.                                               *)
(***************************************************************************)
EXTENDS Exec

\* program headers: a NOTE segment, then LOAD segments
Seg(t, va, mem, fil, ok) == [type |-> t, vaddr |-> va, memsz |-> mem,
                             filesz |-> fil, ok |-> ok]

MCELF ==
  [f \in Files |->
     CASE f = "good" ->    \* three pages of code and data, then the stack
            [exists |-> TRUE, hdr |-> TRUE, entry |-> 16,
             phs |-> << Seg(4, 0, 0, 0, TRUE), Seg(1, 0, 100, 80, TRUE),
                        Seg(1, 128, 10, 10, TRUE) >>]
       [] f = "missing" -> [exists |-> FALSE, hdr |-> FALSE, entry |-> 0, phs |-> <<>>]
       [] f = "nomagic" -> [exists |-> TRUE, hdr |-> FALSE, entry |-> 0, phs |-> <<>>]
       [] f = "shrink" ->  \* memsz < filesz
            [exists |-> TRUE, hdr |-> TRUE, entry |-> 0,
             phs |-> << Seg(1, 0, 10, 70, TRUE) >>]
       [] f = "wrap" ->    \* vaddr + memsz wraps around
            [exists |-> TRUE, hdr |-> TRUE, entry |-> 0,
             phs |-> << Seg(1, 1984, 128, 64, TRUE) >>]
       [] f = "unaligned" ->
            [exists |-> TRUE, hdr |-> TRUE, entry |-> 0,
             phs |-> << Seg(1, 10, 50, 50, TRUE) >>]
       [] f = "short" ->   \* the segment's bytes are cut off
            [exists |-> TRUE, hdr |-> TRUE, entry |-> 0,
             phs |-> << Seg(1, 0, 100, 80, FALSE) >>]]

\* no arguments, one that fills 16 bytes but its NUL, two that do not fit in a 64-byte stack
MCArgvs == {<<>>, <<16>>, <<30, 30>>}
====
