------------------------------ MODULE MCTeleop ------------------------------
(* Instances of Teleop for TLC. *)
EXTENDS Teleop

CONSTANTS p1, s1, s2
=============================================================================
