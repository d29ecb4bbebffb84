----------------------------- MODULE MCGAttrib -----------------------------
(* Instance of GAttrib for TLC. *)
EXTENDS GAttrib, TLC
=============================================================================
