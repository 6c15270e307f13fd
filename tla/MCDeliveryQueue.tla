-------------------------- MODULE MCDeliveryQueue --------------------------
(* Small instance of DeliveryQueue. *)
EXTENDS DeliveryQueue
=============================================================================
