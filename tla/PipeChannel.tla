---------------------------- MODULE PipeChannel ----------------------------
(***************************************************************************)
(* What a pipe of kernel/pipe.c promises the processes that use it: a    *)
(* FIFO of at most PIPESIZE bytes between a read end and a write end.     *)
(* Creation opens both ends at once.  A byte goes in only while both ends *)
(* are open; a read takes a non-empty prefix, and only while the read end *)
(* is open; an end, once closed, never opens again.  The k-th byte ever *)
(* written is the value k, so a lost, repeated or reordered byte shows.   *)
(***************************************************************************)
EXTENDS Naturals, Sequences

CONSTANTS PIPESIZE   \* capacity of the channel

VARIABLES made,      \* the pipe has been created
          chan,      \* the bytes written and not yet read, oldest first
          nput,      \* the number of bytes ever written
          ends       \* the open ends: a subset of {"r", "w"}

cvars == <<made, chan, nput, ends>>

Init == /\ made = FALSE
        /\ chan = <<>> /\ nput = 0
        /\ ends = {}

\* creation: both ends open on an empty channel
Create == /\ ~made
          /\ made' = TRUE
          /\ ends' = {"r", "w"}
          /\ UNCHANGED <<chan, nput>>

\* the writer adds the next byte at the tail of a channel that is not full
Put == /\ ends = {"r", "w"}
       /\ Len(chan) < PIPESIZE
       /\ nput' = nput + 1
       /\ chan' = Append(chan, nput')
       /\ UNCHANGED <<made, ends>>

\* the reader removes the k oldest bytes
Take(k) == /\ "r" \in ends
           /\ chan' = SubSeq(chan, k + 1, Len(chan))
           /\ UNCHANGED <<made, nput, ends>>

\* one end is closed for good
Close(e) == /\ e \in ends
            /\ ends' = ends \ {e}
            /\ UNCHANGED <<made, chan, nput>>

Next == \/ Create
        \/ Put
        \/ \E k \in 1 .. Len(chan) : Take(k)
        \/ \E e \in {"r", "w"} : Close(e)

Spec == Init /\ [][Next]_cvars
====
