------------------------------- MODULE MCTrap -------------------------------
EXTENDS Trap

CONSTANTS u1, u2, u3   \* user instruction addresses

\* a three-instruction loop, so that an ecall's resume point, the
\* interrupted instruction and an exec entry can all differ
MCUserCode == <<u1, u2, u3>>
====
