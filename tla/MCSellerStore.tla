---------------------------- MODULE MCSellerStore ----------------------------
(***************************************************************************)
(* SellerStore for TLC: two shops that may want the same handle and the    *)
(* same name, and two requests at a time.                                  *)
(***************************************************************************)
EXTENDS SellerStore, TLC

\* Sellers, handles and request slots are not told apart.
MCSymmetry == Permutations(Sellers) \cup Permutations(Requests) \cup Permutations(Handles)
=============================================================================
