------------------------------- MODULE MCEsb -------------------------------
(***************************************************************************)
(* The radio driver on small FIFOs, with two payloads to send and two      *)
(* frames to hear.                                                         *)
(***************************************************************************)
EXTENDS EsbProps, TLC

CONSTANTS p1, p2, f1, f2

MCPayloads == {p1, p2}
MCFrames == {f1, f2}
MCSymmetry == Permutations(MCPayloads) \cup Permutations(MCFrames)
=============================================================================
