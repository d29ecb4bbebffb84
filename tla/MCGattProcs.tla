----------------------------- MODULE MCGattProcs -----------------------------
(* An instance of GattProcs for TLC. *)
EXTENDS GattProcs, TLC

\* Two of the service declarations have 128-bit UUIDs, one at the last handle.
MCDecls == 2 :> 8 @@ 4 :> 6 @@ 5 :> 6
=============================================================================
