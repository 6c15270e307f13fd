--------------------------- MODULE MCTransferOrder ---------------------------
(***************************************************************************)
(* TransferOrder for TLC: two buyers who open the same link, two deposit   *)
(* transactions, all three payment rails and both claim modes.             *)
(***************************************************************************)
EXTENDS TransferOrder

\* A mempool sighting, one confirmation too few, and enough.
MCConfirmations == {0, MinConfirmations - 1, MinConfirmations}

\* An underpayment and the exact price.
MCAmounts == {Price - 1, Price}
=============================================================================
