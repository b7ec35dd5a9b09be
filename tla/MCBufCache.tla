----------------------------- MODULE MCBufCache -----------------------------
(* Instantiates BufCache for TLC.                                         *)
EXTENDS BufCache

MCVals == {0, 1}
=============================================================================
