-------------------------- MODULE MCDepositBindings --------------------------
(***************************************************************************)
(* DepositBindings for TLC: three orders of two sellers, one viewing key   *)
(* they may both register, indexes of which only some have an address.     *)
(***************************************************************************)
EXTENDS DepositBindings, TLC

CONSTANTS o1, o2, o3, s1, s2

MCSellerOf == o1 :> s1 @@ o2 :> s1 @@ o3 :> s2
MCValidIndexes == {2, 3, 5, 8, 9, 10, 11, 12}
=============================================================================
