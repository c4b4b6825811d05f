---------------------------- MODULE MCTeleopHttp ----------------------------
(* Instances of TeleopHttp for TLC. *)
EXTENDS TeleopHttp, TLC

CONSTANTS c1, c2, c3

AnyConnection == Permutations(Conns)
=============================================================================
