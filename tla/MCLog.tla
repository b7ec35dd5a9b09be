------------------------------- MODULE MCLog -------------------------------
(* Instantiates Log for TLC: three processes over two home blocks.       *)
EXTENDS Log

\* One value besides the fresh-disk contents is enough to tell a lost or
\* stale write from the latest one.
MCVals == {0, 1}
=============================================================================
