----------------------------- MODULE AtomicDisk -----------------------------
(***************************************************************************)
(* What the redo log of kernel/log.c promises to the file system above    *)
(* it: a disk of home blocks that changes only by whole transactions.     *)
(* The writes of the open operations accumulate in a pending transaction  *)
(* atx; a commit applies all of them at once; a crash discards the       *)
(* pending writes and never a part of a committed transaction.            *)
(***************************************************************************)
CONSTANTS Blocks,   \* home block numbers
          Vals,     \* block contents
          V0,       \* contents of a block never written
          NoWrite   \* atx[b] = NoWrite: b is not written by the transaction

ASSUME V0 \in Vals /\ NoWrite \notin Vals

VARIABLES adisk,    \* the durable contents of every home block
          atx       \* the writes of the transaction not yet committed

avars == <<adisk, atx>>

Init == /\ adisk = [b \in Blocks |-> V0]
        /\ atx = [b \in Blocks |-> NoWrite]

\* An operation inside the transaction writes v to block b.
Write(b, v) == /\ atx' = [atx EXCEPT ![b] = v]
               /\ UNCHANGED adisk

\* The whole pending transaction becomes durable in one step.
Commit == /\ adisk' = [b \in Blocks |-> IF atx[b] = NoWrite THEN adisk[b] ELSE atx[b]]
          /\ atx' = [b \in Blocks |-> NoWrite]

\* A crash loses exactly the writes that were not committed.
Crash == /\ atx' = [b \in Blocks |-> NoWrite]
         /\ UNCHANGED adisk

Next == \/ \E b \in Blocks, v \in Vals : Write(b, v)
        \/ Commit
        \/ Crash

Spec == Init /\ [][Next]_avars
=============================================================================
