------------------------ MODULE MCDeliveryHandshake ------------------------
(***************************************************************************)
(* DeliveryHandshake for TLC: two addresses, and one disruption of any     *)
(* kind at any point, a reload of either page included.                    *)
(***************************************************************************)
EXTENDS DeliveryHandshake
=============================================================================
