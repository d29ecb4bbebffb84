--------------------------- MODULE MCGattDiscover ---------------------------
(* Instances of GattDiscover for TLC. *)
EXTENDS GattDiscover, TLC
=============================================================================
