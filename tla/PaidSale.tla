------------------------------ MODULE PaidSale ------------------------------
(***************************************************************************)
(* What a paid link promises, with nothing said of how it is kept.  The    *)
(* sale of one encrypted file is reserved for the first buyer who opens a  *)
(* payment session, settled once, released once (the file key is wrapped   *)
(* for the holder of the reservation and for nobody else) and collected    *)
(* by that holder.  No step goes back, and none skips settlement.          *)
(*                                                                         *)
(* TransferOrder implements this specification: see TransferOrder!Sale.    *)
(***************************************************************************)
CONSTANTS Buyers,   \* the buyers' public keys
          None      \* no value

VARIABLES
    stage,        \* how far the sale has come
    holder,       \* the buyer the sale is reserved for, or None
    envelopeFor   \* the buyer the released file key is wrapped for, or None

vars == <<stage, holder, envelopeFor>>

Stages == {"listed", "reserved", "settled", "released", "collected"}

TypeOK == /\ stage \in Stages
          /\ holder \in Buyers \cup {None}
          /\ envelopeFor \in Buyers \cup {None}

Init == /\ stage = "listed"
        /\ holder = None
        /\ envelopeFor = None

Reserve(b) == /\ stage = "listed"
              /\ stage' = "reserved"
              /\ holder' = b
              /\ UNCHANGED envelopeFor

Settle == /\ stage = "reserved"
          /\ stage' = "settled"
          /\ UNCHANGED <<holder, envelopeFor>>

\* The key is wrapped for the holder: there is no other choice to make.
Release == /\ stage = "settled"
           /\ stage' = "released"
           /\ envelopeFor' = holder
           /\ UNCHANGED holder

Collect == /\ stage = "released"
           /\ stage' = "collected"
           /\ UNCHANGED <<holder, envelopeFor>>

Next == \/ \E b \in Buyers : Reserve(b)
        \/ Settle
        \/ Release
        \/ Collect

Spec == Init /\ [][Next]_vars
=============================================================================
