------------------------------ MODULE MCRemote ------------------------------
(***************************************************************************)
(* One remote among frames of any origin; two positions of the joystick.   *)
(***************************************************************************)
EXTENDS RcRemoteProps

TwoPositions == {<<1, 1>>, <<0, 1>>}
=============================================================================
