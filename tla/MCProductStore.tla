--------------------------- MODULE MCProductStore ---------------------------
(***************************************************************************)
(* ProductStore for TLC: one product of two units, two orders of its       *)
(* buyers, and one failure at any point.                                   *)
(***************************************************************************)
EXTENDS ProductStore
=============================================================================
