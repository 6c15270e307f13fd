---------------------------- MODULE MCSettlement ----------------------------
EXTENDS Settlement

\* A part of the price, and the price.
MCAmounts == {1, 2}
=============================================================================
