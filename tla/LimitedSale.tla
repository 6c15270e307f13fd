---------------------------- MODULE LimitedSale ----------------------------
(***************************************************************************)
(* What the product store promises, without requests, locks or crashes: a  *)
(* product is offered once with a supply, each sale of a limited product   *)
(* takes the next unit, and a unit is handed to one order at most.         *)
(***************************************************************************)
EXTENDS Naturals

CONSTANTS
    Products,
    Orders,
    None,
    MaxSupply   \* bound: units of a limited product

VARIABLES
    supply,   \* [Products -> supply of an offered product (0: unlimited), or None]
    taken,    \* [Products -> number of units taken]
    handed    \* [Orders -> <<product, unit>>, or None]

vars == <<supply, taken, handed>>

Init ==
    /\ supply = [p \in Products |-> None]
    /\ taken = [p \in Products |-> 0]
    /\ handed = [o \in Orders |-> None]

Offer(p, n) ==
    /\ supply[p] = None
    /\ supply' = [supply EXCEPT ![p] = n]
    /\ UNCHANGED <<taken, handed>>

\* A limited product has units left.
Take(p) ==
    /\ supply[p] # None
    /\ taken[p] < supply[p]
    /\ taken' = [taken EXCEPT ![p] = @ + 1]
    /\ UNCHANGED <<supply, handed>>

\* A unit that was taken and that no order has; units of an unlimited product
\* are not counted.
Hand(o, p, unit) ==
    /\ handed[o] = None
    /\ supply[p] # None
    /\ IF supply[p] = 0
         THEN unit = 0
         ELSE unit \in 1 .. taken[p] /\ \A q \in Orders : handed[q] # <<p, unit>>
    /\ handed' = [handed EXCEPT ![o] = <<p, unit>>]
    /\ UNCHANGED <<supply, taken>>

Next ==
    \/ \E p \in Products : Take(p) \/ \E n \in 0 .. MaxSupply : Offer(p, n)
    \/ \E o \in Orders, p \in Products, unit \in 0 .. MaxSupply : Hand(o, p, unit)

Spec == Init /\ [][Next]_vars
=============================================================================
