------------------------------- MODULE MCPair -------------------------------
(* The values of the system's constants that a configuration cannot write.  *)
EXTENDS RcSystemProps

\* x = y in every position, so that halves of two samples show.
Diagonal == {<<1, 1>>, <<2, 2>>}
OnePosition == {<<1, 1>>}
=============================================================================
