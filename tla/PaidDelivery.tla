---------------------------- MODULE PaidDelivery ----------------------------
(***************************************************************************)
(* What the delivery of a paid file promises, with nothing said of pages,  *)
(* requests and streams.  The seller's release is recorded once; the key   *)
(* is outside the seller's hands only after it; the file is opened only    *)
(* while the key is outside; and the delivery is confirmed to the seller   *)
(* only after the file was opened.  The key may be lost and sent again,    *)
(* and a confirmation may be taken back; the rest never is.                *)
(*                                                                         *)
(* DeliveryHandshake implements this specification: see                    *)
(* DeliveryHandshake!Delivery.                                             *)
(***************************************************************************)
VARIABLES
    released,    \* the release of the key is recorded
    outside,     \* somebody but the seller's page may have the key
    opened,      \* the buyer has opened the file
    delivered,   \* the delivery is confirmed
    told         \* it has been confirmed before

vars == <<released, outside, opened, delivered, told>>

Init == /\ ~released /\ ~outside
        /\ ~opened
        /\ ~delivered /\ ~told

\* The key may go out with its release, or later.
Release == /\ ~released
           /\ released' = TRUE
           /\ outside' \in BOOLEAN
           /\ UNCHANGED <<opened, delivered, told>>

\* A released key is sent, received, lost and sent again.
MoveKey == /\ released
           /\ outside' \in BOOLEAN
           /\ UNCHANGED <<released, opened, delivered, told>>

Open == /\ outside
        /\ opened' = TRUE
        /\ UNCHANGED <<released, outside, delivered, told>>

Confirm == /\ opened
           /\ delivered' = TRUE
           /\ told' = TRUE
           /\ UNCHANGED <<released, outside, opened>>

TakeBack == /\ delivered' = FALSE
            /\ UNCHANGED <<released, outside, opened, told>>

Next == Release \/ MoveKey \/ Open \/ Confirm \/ TakeBack

Spec == Init /\ [][Next]_vars
=============================================================================
