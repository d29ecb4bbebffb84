------------------------------ MODULE MCBtAtt ------------------------------
(* Instances of BtAtt for TLC. *)
EXTENDS BtAtt, TLC

CONSTANTS c1, c2
=============================================================================
