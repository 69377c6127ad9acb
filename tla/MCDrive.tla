------------------------------ MODULE MCDrive ------------------------------
(***************************************************************************)
(* The motors: readings of the stick on both sides of each threshold, one  *)
(* below 0, and a master that stands, approaches and leaves.               *)
(***************************************************************************)
EXTENDS DriveProps

MCStick == {-3, 491, 511, 521, 1023}
MCEchoes == {90, 100, 140}
=============================================================================
