---------------------------- MODULE MCTwistRos ----------------------------
(* Instances of TwistRos for TLC. *)
EXTENDS TwistRobot

Forward == [v |-> 120, w |-> 0]
Turn    == [v |-> 0, w |-> 150]

MCTwists == {Still, Forward, Turn}
=============================================================================
