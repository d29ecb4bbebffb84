------------------------------ MODULE MCLibble ------------------------------
(* Instances of Libble for TLC. *)
EXTENDS Libble, TLC
=============================================================================
