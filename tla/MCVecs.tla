------------------------------ MODULE MCVecs ------------------------------
(* Instance of Vecs for TLC. *)
EXTENDS Vecs, TLC
=============================================================================
