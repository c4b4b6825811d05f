----------------------------- MODULE MCEsteira -----------------------------
(* Instances of Esteira for TLC: the constants are in the .cfg files. *)
EXTENDS EsteiraInv
=============================================================================
