------------------------- MODULE TransferOrderProofs -------------------------
(***************************************************************************)
(* Proofs about TransferOrder, for every set of buyers, transactions,      *)
(* depths and every price and threshold.                                   *)
(*                                                                         *)
(* The invariants are not inductive by themselves: what a step that has    *)
(* left the lock, the route or the seller's browser still knows has to be  *)
(* true when it is used.  ReportsAccepted, ChallengeIsPayers and           *)
(* HandlerHolds say so; Inv adds them to the invariants TLC checks.        *)
(* Nothing is known of a paid event that waits: it need not be about a     *)
(* CipherPay order.                                                        *)
(***************************************************************************)
EXTENDS TransferOrder, TLAPS

\* A waiting deposit report is for an on-chain payment and pays the price.
ReportsAccepted ==
    \A r \in deposits : /\ payment # None
                        /\ payment.provider = "zcash-onchain"
                        /\ r.amountZats >= Price

\* A key the seller holds is the key of the buyer who paid.
ChallengeIsPayers ==
    \A b \in challenges : Paid /\ payment.buyer = b

\* What the handler that holds the lock checked still holds.
HandlerHolds ==
    /\ handler = "indexing" => payment # None
    /\ handler \in {"sending", "sent"} => payment # None /\ MayClaim(payment.buyer)
    /\ handler = "sent" => envelopeSent

Inv ==
    /\ TypeOK
    /\ StatusFollowsPayment
    /\ SessionFollowsPayment
    /\ EnvelopeIsForPayer
    /\ ClaimsAreEarned
    /\ SettlementHasCause
    /\ SentMeansSent
    /\ IndexNeverDangles
    /\ ReportsAccepted
    /\ ChallengeIsPayers
    /\ HandlerHolds

-----------------------------------------------------------------------------
(* What the shared operators do, stated field by field. *)

\* The part of Inv that speaks of the order record alone.
OrderInv ==
    /\ status \in {"created", "payment_pending", "paid", "claimed"}
    /\ payment \in PaymentState \cup {None}
    /\ nymSession \in SessionState \cup {None}
    /\ release \in ReleaseState
    /\ claims \in Seq(Buyers)
    /\ StatusFollowsPayment
    /\ SessionFollowsPayment
    /\ EnvelopeIsForPayer
    /\ ClaimsAreEarned
    /\ SettlementHasCause

\* The part that speaks of what is in flight around it.
PendingInv ==
    /\ invoiceIndexed \in BOOLEAN
    /\ envelopeSent \in BOOLEAN
    /\ handler \in {"idle", "indexing", "sending", "sent"}
    /\ deposits \subseteq Report
    /\ invoiceEvents \subseteq Invoice
    /\ challenges \subseteq Buyers
    /\ SentMeansSent
    /\ IndexNeverDangles
    /\ ReportsAccepted
    /\ ChallengeIsPayers
    /\ HandlerHolds

\* Inv is exactly these two parts, before a step and after it.
LEMMA InvParts == Inv <=> OrderInv /\ PendingInv
BY DEF Inv, TypeOK, OrderInv, PendingInv

LEMMA InvPartsNext == OrderInv' /\ PendingInv' => Inv'
BY DEF Inv, TypeOK, OrderInv, PendingInv

\* A step that leaves the order record alone keeps its part of the invariant.
LEMMA OrderUnchanged == OrderInv /\ UNCHANGED order => OrderInv'
BY DEF OrderInv, order, StatusFollowsPayment, SessionFollowsPayment,
       EnvelopeIsForPayer, ClaimsAreEarned, SettlementHasCause, Paid, Released,
       SessionOf

\* markOrderPaid settles the payment, keeps what identifies it, moves the status
\* to paid or claimed and makes a session ready.
LEMMA MarkOrderPaidEffect ==
    ASSUME OrderInv, payment # None, NEW onchain \in Report \cup {None},
           NEW raw \in {"invoice", "event"}, MarkOrderPaid(onchain, raw)
    PROVE  /\ payment' \in PaymentState /\ payment' # None
           /\ payment'.status = "paid" /\ payment'.onchain = onchain
           /\ payment'.raw = raw
           /\ payment'.buyer = payment.buyer
           /\ payment'.provider = payment.provider
           /\ payment'.detected = payment.detected
           /\ status' \in {"paid", "claimed"}
           /\ status' = "claimed" <=> status = "claimed"
           /\ nymSession' \in SessionState \cup {None}
           /\ nymSession' = None <=> nymSession = None
           /\ nymSession # None =>
                /\ nymSession'.buyer = nymSession.buyer
                /\ nymSession'.status = "ready_for_delivery"
                /\ nymSession'.lastDelivery = nymSession.lastDelivery
<1> USE NoneAssumption DEF OrderInv, MarkOrderPaid
<1>1. payment \in PaymentState
  OBVIOUS
<1>2. /\ payment' \in PaymentState
      /\ payment'.status = "paid" /\ payment'.onchain = onchain
      /\ payment'.raw = raw
      /\ payment'.buyer = payment.buyer
      /\ payment'.provider = payment.provider
      /\ payment'.detected = payment.detected
  BY <1>1 DEF PaymentState
<1>3. nymSession' \in SessionState \cup {None}
  BY DEF SessionState
<1>4. nymSession # None =>
        /\ nymSession' \in SessionState
        /\ nymSession'.buyer = nymSession.buyer
        /\ nymSession'.status = "ready_for_delivery"
        /\ nymSession'.lastDelivery = nymSession.lastDelivery
  BY DEF SessionState
<1>5. QED
  BY <1>2, <1>3, <1>4

\* What is put on record accounts for the payment: an event, or a deposit that is
\* deep and large enough, or a development payment.
Accounts(onchain, raw) ==
    /\ onchain # None => /\ payment.provider = "zcash-onchain"
                         /\ onchain.amountZats >= Price
    /\ payment.detected => onchain # None
    /\ raw = "invoice" =>
         /\ payment.provider # "cipherpay"
         /\ payment.provider = "zcash-onchain" =>
              onchain # None /\ onchain.confirmations >= MinConfirmations

\* Settling a payment keeps the order's part of the invariant, provided that the
\* record accounts for it.
LEMMA MarkOrderPaidInv ==
    ASSUME OrderInv, payment # None, NEW onchain \in Report \cup {None},
           NEW raw \in {"invoice", "event"}, MarkOrderPaid(onchain, raw),
           UNCHANGED <<release, claims>>, Accounts(onchain, raw)
    PROVE  OrderInv'
<1> USE NoneAssumption, MarkOrderPaidEffect DEF OrderInv
<1>1. StatusFollowsPayment'
  BY DEF StatusFollowsPayment
<1>2. SessionFollowsPayment' /\ EnvelopeIsForPayer'
  BY DEF SessionFollowsPayment, EnvelopeIsForPayer, Paid, Released
<1>3. ClaimsAreEarned'
  BY DEF ClaimsAreEarned, Paid, Released, SessionOf
<1>4. SettlementHasCause'
  BY DEF SettlementHasCause, Paid, Accounts
<1>5. QED
  BY <1>1, <1>2, <1>3, <1>4

\* Settling a payment keeps the rest of the invariant: whoever had checked
\* something about the order finds it still true.
LEMMA MarkOrderPaidPending ==
    ASSUME OrderInv, PendingInv, payment # None, LockFree,
           NEW onchain \in Report \cup {None}, NEW raw \in {"invoice", "event"},
           MarkOrderPaid(onchain, raw),
           UNCHANGED <<release, claims, invoiceIndexed, envelopeSent, handler,
                       challenges>>,
           deposits' \subseteq deposits, invoiceEvents' \subseteq invoiceEvents
    PROVE  PendingInv'
<1> USE NoneAssumption, MarkOrderPaidEffect DEF PendingInv
<1>1. SentMeansSent' /\ IndexNeverDangles'
  BY DEF SentMeansSent, IndexNeverDangles
<1>2. ReportsAccepted'
  BY DEF ReportsAccepted
<1>5. ChallengeIsPayers'
  BY DEF ChallengeIsPayers, Paid
<1>6. HandlerHolds'
  BY DEF HandlerHolds, LockFree
<1>7. /\ invoiceIndexed' \in BOOLEAN /\ envelopeSent' \in BOOLEAN
      /\ handler' \in {"idle", "indexing", "sending", "sent"}
      /\ deposits' \subseteq Report /\ challenges' \subseteq Buyers
  OBVIOUS
<1>8. invoiceEvents' \subseteq Invoice
  OBVIOUS
<1>9. QED
  BY <1>1, <1>2, <1>5, <1>6, <1>7, <1>8

\* A sighting either leaves the payment alone or records the report on a payment
\* that is pending and stays so.
LEMMA DetectedEffect ==
    ASSUME OrderInv, payment # None, NEW r \in Report,
           MarkTransferDetectedOnchain(r)
    PROVE  /\ UNCHANGED <<status, nymSession>>
           /\ \/ UNCHANGED payment
              \/ /\ payment.status = "pending" /\ SameDeposit(r)
                 /\ payment' \in PaymentState /\ payment' # None
                 /\ payment'.status = "pending" /\ payment'.onchain = r
                 /\ payment'.raw = payment.raw
                 /\ payment'.buyer = payment.buyer
                 /\ payment'.provider = payment.provider
<1> USE NoneAssumption DEF OrderInv, MarkTransferDetectedOnchain
<1>1. payment \in PaymentState
  OBVIOUS
<1>2. CASE status = "payment_pending" /\ payment.status # "paid" /\ SameDeposit(r)
  <2>1. payment' = [payment EXCEPT !.detected = TRUE, !.onchain = r]
    BY <1>2
  <2>2. /\ payment.status = "pending"
        /\ payment' \in PaymentState
        /\ payment'.status = "pending" /\ payment'.onchain = r
        /\ payment'.raw = payment.raw
        /\ payment'.buyer = payment.buyer
        /\ payment'.provider = payment.provider
    BY <1>1, <1>2, <2>1 DEF PaymentState
  <2>3. QED
    BY <1>2, <2>2
<1>3. CASE ~(status = "payment_pending" /\ payment.status # "paid" /\ SameDeposit(r))
  BY <1>3
<1>4. QED
  BY <1>2, <1>3

\* A recorded claim is queued for the buyer who made it, on top of the others.
LEMMA RecordClaimEffect ==
    ASSUME OrderInv, NEW b \in Buyers, MayClaim(b),
           NEW receipt \in {"queued_local_outbox", "sent_nym_client"},
           RecordClaim(b, receipt)
    PROVE  /\ nymSession' \in SessionState /\ nymSession' # None
           /\ nymSession'.buyer = b
           /\ nymSession'.status = "queued"
           /\ nymSession'.lastDelivery = receipt
           /\ claims' \in Seq(Buyers) /\ claims' # <<>>
           /\ \A i \in DOMAIN claims' : claims'[i] = b
<1> USE NoneAssumption DEF OrderInv, RecordClaim
<1>1. nymSession \in SessionState /\ nymSession.buyer = b /\ payment.buyer = b
  BY DEF MayClaim, SessionOf, BoundTo
<1>2. /\ nymSession' \in SessionState
      /\ nymSession'.buyer = b
      /\ nymSession'.status = "queued"
      /\ nymSession'.lastDelivery = receipt
  BY <1>1 DEF SessionState
<1>3. \A i \in DOMAIN claims : claims[i] = b
  BY <1>1 DEF ClaimsAreEarned
<1>4. claims' = Append(claims, b)
  OBVIOUS
<1>5. claims' \in Seq(Buyers) /\ claims' # <<>>
  BY <1>4
<1>6. \A i \in DOMAIN claims' : claims'[i] = b
  BY <1>3, <1>4
<1>7. QED
  BY <1>2, <1>5, <1>6

\* A recorded claim keeps the order's part of the invariant: only a paid and
\* released order can be claimed, and only by its payer.
LEMMA RecordClaimInv ==
    ASSUME OrderInv, NEW b \in Buyers, MayClaim(b),
           NEW receipt \in {"queued_local_outbox", "sent_nym_client"},
           RecordClaim(b, receipt)
    PROVE  OrderInv'
<1> USE RecordClaimEffect DEF OrderInv
<1>1. UNCHANGED <<payment, release>> /\ status' = "claimed"
  BY DEF RecordClaim
<1>2. payment # None /\ payment.buyer = b /\ Paid /\ Released
  BY NoneAssumption DEF MayClaim, BoundTo, StatusFollowsPayment, Paid, PaymentState
<1>3. StatusFollowsPayment' /\ EnvelopeIsForPayer' /\ SettlementHasCause'
  BY <1>1, <1>2 DEF StatusFollowsPayment, EnvelopeIsForPayer,
                    SettlementHasCause, Paid, Released
<1>4. SessionFollowsPayment' /\ ClaimsAreEarned'
  BY <1>1, <1>2 DEF SessionFollowsPayment, ClaimsAreEarned, Paid, Released, SessionOf
<1>5. QED
  BY <1>1, <1>3, <1>4

-----------------------------------------------------------------------------
(* The initial state and every action. *)

LEMMA InitInv == Init => Inv
<1> SUFFICES ASSUME Init PROVE Inv
  OBVIOUS
<1> USE DEF Init
<1>1. TypeOK
  <2>1. status \in {"created", "payment_pending", "paid", "claimed"}
    OBVIOUS
  <2>2. release \in ReleaseState
    BY DEF ReleaseState
  <2>3. claims \in Seq(Buyers)
    OBVIOUS
  <2>4. invoiceIndexed \in BOOLEAN /\ envelopeSent \in BOOLEAN
    OBVIOUS
  <2>5. handler \in {"idle", "indexing", "sending", "sent"} /\ invoiceEvents \subseteq Invoice
    OBVIOUS
  <2>6. /\ payment \in PaymentState \cup {None}
        /\ nymSession \in SessionState \cup {None}
        /\ deposits \subseteq Report /\ challenges \subseteq Buyers
    OBVIOUS
  <2>7. QED
    BY <2>1, <2>2, <2>3, <2>4, <2>5, <2>6 DEF TypeOK
<1>2. StatusFollowsPayment /\ SessionFollowsPayment /\ SettlementHasCause
  BY DEF StatusFollowsPayment, SessionFollowsPayment, SettlementHasCause
<1>3. EnvelopeIsForPayer /\ ClaimsAreEarned
  BY DEF EnvelopeIsForPayer, ClaimsAreEarned, Released
<1>4. SentMeansSent /\ IndexNeverDangles
  BY DEF SentMeansSent, IndexNeverDangles
<1>5. ReportsAccepted /\ ChallengeIsPayers /\ HandlerHolds
  BY DEF ReportsAccepted, ChallengeIsPayers, HandlerHolds
<1>6. QED
  BY <1>1, <1>2, <1>3, <1>4, <1>5 DEF Inv

\* A step that leaves the order record alone and weakens what is in flight.
LEMMA InFlightInv ==
    ASSUME Inv, UNCHANGED order,
           \/ WriteInvoiceIndex
           \/ \E hasReference \in BOOLEAN, invoice \in Invoice :
                AcceptInvoiceEvent(hasReference, invoice)
           \/ \E r \in Report : AcceptDepositReport(r)
           \/ GetReleaseChallenge
           \/ \E b \in Buyers : SendClaim(b)
           \/ EnvelopeTaken
           \/ \E wentOut \in BOOLEAN : FailSentClaim(wentOut)
           \/ Crash
           \/ UNCHANGED vars
    PROVE  Inv'
<1>1. OrderInv' /\ OrderInv /\ PendingInv
  BY InvParts, OrderUnchanged
<1>2. PendingInv'
  <2> USE <1>1, NoneAssumption
      DEF order, PendingInv, LockFree, WriteInvoiceIndex, AcceptInvoiceEvent,
          AcceptDepositReport, GetReleaseChallenge, SendClaim, EnvelopeTaken,
          FailSentClaim, Crash, vars
  <2>1. SentMeansSent' /\ IndexNeverDangles'
    BY DEF SentMeansSent, IndexNeverDangles, HandlerHolds
  <2>2. ReportsAccepted'
    BY DEF ReportsAccepted
  <2>3. invoiceEvents' \subseteq Invoice
    OBVIOUS
  <2>4. ChallengeIsPayers'
    BY DEF ChallengeIsPayers, Paid
  <2>5. HandlerHolds'
    BY DEF HandlerHolds, MayClaim, BoundTo, SessionOf, Released
  <2>6. invoiceIndexed' \in BOOLEAN /\ envelopeSent' \in BOOLEAN
    OBVIOUS
  <2>7. handler' \in {"idle", "indexing", "sending", "sent"}
    OBVIOUS
  <2>8. deposits' \subseteq Report
    OBVIOUS
  <2>9. challenges' \subseteq Buyers
    BY DEF OrderInv, Paid, PaymentState
  <2>10. QED
    BY <2>1, <2>2, <2>3, <2>4, <2>5, <2>6, <2>7, <2>8, <2>9
<1>3. QED
  BY <1>1, <1>2, InvPartsNext

\* The first intent reserves the order; nothing else was known about it yet.
LEMMA CreatePaymentIntentInv ==
    ASSUME Inv, NEW b \in Buyers, NEW p \in Providers, CreatePaymentIntent(b, p)
    PROVE  Inv'
<1>1. [provider |-> p, status |-> "pending", buyer |-> b, detected |-> FALSE,
       onchain |-> None, raw |-> "invoice"] \in PaymentState
  BY DEF PaymentState
<1> USE NoneAssumption DEF Inv, CreatePaymentIntent, LockFree
<1>2. /\ payment' \in PaymentState /\ payment' # None
      /\ payment'.status = "pending" /\ payment'.provider = p
      /\ ~payment'.detected /\ payment'.onchain = None /\ payment'.raw = "invoice"
  <2>1. payment' = [provider |-> p, status |-> "pending", buyer |-> b,
                    detected |-> FALSE, onchain |-> None, raw |-> "invoice"]
    OBVIOUS
  <2>2. payment' # None
    BY <2>1, <1>1
  <2>3. QED
    BY <2>1, <2>2, <1>1
<1>3. TypeOK'
  BY <1>2 DEF TypeOK
<1>4. StatusFollowsPayment' /\ SettlementHasCause'
  BY <1>2 DEF StatusFollowsPayment, SettlementHasCause, Paid
<1>5. SessionFollowsPayment' /\ EnvelopeIsForPayer' /\ ClaimsAreEarned'
  BY <1>2 DEF SessionFollowsPayment, EnvelopeIsForPayer, ClaimsAreEarned, Paid,
              Released
<1>6. SentMeansSent' /\ IndexNeverDangles'
  BY <1>2 DEF SentMeansSent, IndexNeverDangles
<1>7. ReportsAccepted'
  BY <1>2 DEF ReportsAccepted
<1>8. ChallengeIsPayers' /\ HandlerHolds'
  BY <1>2 DEF ChallengeIsPayers, HandlerHolds, Paid
<1>9. QED
  BY <1>3, <1>4, <1>5, <1>6, <1>7, <1>8

\* The development route settles only development payments.
LEMMA MarkTransferPaidForDevInv ==
    ASSUME Inv, MarkTransferPaidForDev
    PROVE  Inv'
<1>1. OrderInv /\ PendingInv
  BY InvParts
<1>2. payment.onchain \in Report \cup {None} /\ payment.raw \in {"invoice", "event"}
  BY <1>1, NoneAssumption DEF MarkTransferPaidForDev, OrderInv, PaymentState
<1>3. Accounts(payment.onchain, payment.raw)
  BY <1>1 DEF MarkTransferPaidForDev, OrderInv, SettlementHasCause, Accounts
<1>4. OrderInv'
  BY <1>1, <1>2, <1>3, MarkOrderPaidInv DEF MarkTransferPaidForDev
<1>5. PendingInv'
  BY <1>1, <1>2, MarkOrderPaidPending DEF MarkTransferPaidForDev
<1>6. QED
  BY <1>4, <1>5, InvPartsNext

\* A request that ends without changing the order, and the others wait on.
LEMMA RequestEnds ==
    ASSUME OrderInv, PendingInv, LockFree, UNCHANGED order,
           UNCHANGED <<invoiceIndexed, envelopeSent, handler, challenges>>,
           deposits' \subseteq deposits, invoiceEvents' \subseteq invoiceEvents
    PROVE  Inv'
<1>1. OrderInv'
  BY OrderUnchanged
<1>2. PendingInv'
  BY DEF PendingInv, order, SentMeansSent, IndexNeverDangles, ReportsAccepted,
         ChallengeIsPayers, HandlerHolds, LockFree, Paid
<1>3. QED
  BY <1>1, <1>2, InvPartsNext

\* A paid event settles any payment, and is put on its record; it settles nothing
\* when it is about another invoice or comes before the first intent.
LEMMA MarkTransferPaidFromInvoiceInv ==
    ASSUME Inv, NEW invoice \in Invoice, MarkTransferPaidFromInvoice(invoice)
    PROVE  Inv'
<1>1. OrderInv /\ PendingInv
  BY InvParts
<1>2. /\ LockFree /\ deposits' \subseteq deposits
      /\ invoiceEvents' \subseteq invoiceEvents
      /\ UNCHANGED <<release, claims, invoiceIndexed, envelopeSent, handler,
                     challenges>>
  BY DEF MarkTransferPaidFromInvoice
<1>3. CASE payment # None /\ MarkOrderPaid(payment.onchain, "event")
  <2>1. payment.onchain \in Report \cup {None}
    BY <1>1, <1>3, NoneAssumption DEF OrderInv, PaymentState
  <2>2. Accounts(payment.onchain, "event")
    BY <1>1, <1>3 DEF OrderInv, SettlementHasCause, Accounts
  <2>3. OrderInv'
    BY <1>1, <1>2, <1>3, <2>1, <2>2, MarkOrderPaidInv
  <2>4. PendingInv'
    BY <1>1, <1>2, <1>3, <2>1, MarkOrderPaidPending
  <2>5. QED
    BY <2>3, <2>4, InvPartsNext
<1>4. CASE UNCHANGED <<status, payment, nymSession>>
  BY <1>1, <1>2, <1>4, RequestEnds DEF order
<1>5. QED
  BY <1>3, <1>4 DEF MarkTransferPaidFromInvoice

\* A deposit report settles the payment, is recorded as a sighting, or changes
\* nothing; a report that waited was accepted for this payment's price.
LEMMA ApplyDepositReportInv ==
    ASSUME Inv, NEW r \in Report, ApplyDepositReport(r)
    PROVE  Inv'
<1>1. OrderInv /\ PendingInv
  BY InvParts
<1>2. /\ payment # None /\ payment \in PaymentState /\ LockFree
      /\ payment.provider = "zcash-onchain" /\ r.amountZats >= Price
      /\ r.confirmations \in Nat /\ MinConfirmations \in Nat
  BY <1>1, ConstantsAssumption, NoneAssumption
     DEF ApplyDepositReport, PendingInv, ReportsAccepted, Report, OrderInv
<1>3. CASE r.confirmations < MinConfirmations
  <2>1. MarkTransferDetectedOnchain(r)
    BY <1>3 DEF ApplyDepositReport
  <2>2. CASE UNCHANGED payment
    <3>1. UNCHANGED order
      BY <1>1, <2>1, <2>2, <1>2, DetectedEffect DEF ApplyDepositReport, order
    <3>2. QED
      BY <1>1, <3>1, RequestEnds DEF ApplyDepositReport
  <2>3. CASE /\ payment.status = "pending" /\ SameDeposit(r)
             /\ payment' \in PaymentState /\ payment' # None
             /\ payment'.status = "pending" /\ payment'.onchain = r
             /\ payment'.raw = payment.raw
             /\ payment'.buyer = payment.buyer
             /\ payment'.provider = payment.provider
    <3>1. UNCHANGED <<status, nymSession, release, claims, invoiceIndexed,
                      envelopeSent, handler, invoiceEvents, challenges>>
      BY <1>1, <1>2, <2>1, DetectedEffect DEF ApplyDepositReport
    <3>2. OrderInv'
      <4> USE <1>1, <2>3, <3>1 DEF OrderInv
      <4>1. StatusFollowsPayment' /\ SessionFollowsPayment'
        BY <1>2 DEF StatusFollowsPayment, SessionFollowsPayment, Paid
      <4>2. EnvelopeIsForPayer' /\ ClaimsAreEarned'
        BY DEF EnvelopeIsForPayer, ClaimsAreEarned, Paid, Released
      <4>3. SettlementHasCause'
        BY <1>2, <1>3, NoneAssumption DEF SettlementHasCause, Paid
      <4>4. QED
        BY <4>1, <4>2, <4>3
    <3>3. PendingInv'
      <4> USE <1>1, <1>2, <2>3, <3>1 DEF PendingInv
      <4>1. SentMeansSent' /\ IndexNeverDangles'
        BY DEF SentMeansSent, IndexNeverDangles
      <4>2. ReportsAccepted'
        BY DEF ReportsAccepted, ApplyDepositReport
      <4>3. ChallengeIsPayers' /\ HandlerHolds'
        BY DEF ChallengeIsPayers, HandlerHolds, LockFree, Paid
      <4>4. deposits' \subseteq Report
        BY DEF ApplyDepositReport
      <4>5. QED
        BY <4>1, <4>2, <4>3, <4>4
    <3>4. QED
      BY <3>2, <3>3, InvPartsNext
  <2>4. QED
    BY <1>1, <1>2, <2>1, <2>2, <2>3, DetectedEffect
<1>4. CASE ~(r.confirmations < MinConfirmations)
  <2>1. MarkTransferPaidOnchain(r) /\ r.confirmations >= MinConfirmations
    BY <1>2, <1>4 DEF ApplyDepositReport
  <2>2. /\ UNCHANGED <<release, claims, invoiceIndexed, envelopeSent, handler,
                       challenges>>
        /\ deposits' \subseteq deposits /\ invoiceEvents' \subseteq invoiceEvents
    BY DEF ApplyDepositReport
  <2>3. CASE MarkOrderPaid(r, payment.raw)
    <3>1. /\ r \in Report \cup {None} /\ r # None
          /\ payment.raw \in {"invoice", "event"} /\ Accounts(r, payment.raw)
      BY <1>2, <2>1, NoneAssumption DEF PaymentState, Accounts
    <3>2. OrderInv'
      BY <1>1, <1>2, <2>2, <2>3, <3>1, MarkOrderPaidInv
    <3>3. PendingInv'
      BY <1>1, <1>2, <2>2, <2>3, <3>1, MarkOrderPaidPending
    <3>4. QED
      BY <3>2, <3>3, InvPartsNext
  <2>4. CASE UNCHANGED <<status, payment, nymSession>>
    <3>1. UNCHANGED order
      BY <2>2, <2>4 DEF order
    <3>2. QED
      BY <1>1, <3>1, RequestEnds DEF ApplyDepositReport
  <2>5. QED
    BY <2>1, <2>3, <2>4 DEF MarkTransferPaidOnchain
<1>5. QED
  BY <1>3, <1>4

\* A fresh session waits or is ready according to the payment, and cannot be
\* another buyer's once a payment session binds the order.
LEMMA RegisterNymSessionInv ==
    ASSUME Inv, NEW b \in Buyers, RegisterNymSession(b)
    PROVE  Inv'
<1>1. OrderInv /\ PendingInv
  BY InvParts
<1>2. /\ nymSession' \in SessionState /\ nymSession' # None
      /\ nymSession'.buyer = b
      /\ nymSession'.status = IF Paid THEN "ready_for_delivery"
                                      ELSE "waiting_for_payment"
      /\ nymSession'.lastDelivery = IF nymSession = None THEN None
                                                         ELSE nymSession.lastDelivery
  BY <1>1, NoneAssumption DEF RegisterNymSession, OrderInv, SessionState
<1>3. OrderInv'
  <2> USE <1>1, <1>2 DEF OrderInv, RegisterNymSession
  <2>1. StatusFollowsPayment' /\ SettlementHasCause'
    BY DEF StatusFollowsPayment, SettlementHasCause, Paid
  <2>2. SessionFollowsPayment' /\ EnvelopeIsForPayer'
    BY DEF SessionFollowsPayment, EnvelopeIsForPayer, Paid, Released
  <2>3. ClaimsAreEarned'
    BY DEF ClaimsAreEarned, Paid, Released, SessionOf
  <2>4. QED
    BY <2>1, <2>2, <2>3
<1>4. PendingInv'
  <2> USE <1>1, <1>2 DEF PendingInv, RegisterNymSession
  <2>1. SentMeansSent' /\ IndexNeverDangles'
    BY NoneAssumption DEF SentMeansSent, IndexNeverDangles
  <2>2. ReportsAccepted' /\ ChallengeIsPayers'
    BY DEF ReportsAccepted, ChallengeIsPayers, Paid
  <2>3. HandlerHolds'
    BY DEF HandlerHolds, LockFree
  <2>4. QED
    BY <2>1, <2>2, <2>3
<1>5. QED
  BY <1>3, <1>4, InvPartsNext

\* The envelope is wrapped for a key the seller got from a challenge, which can
\* only be the payer's.
LEMMA ReleaseTransferKeyInv ==
    ASSUME Inv, NEW e \in KeyEnvelope, ReleaseTransferKey(e)
    PROVE  Inv'
<1>1. OrderInv /\ PendingInv
  BY InvParts
<1>2. /\ e.buyer = payment.buyer /\ payment.buyer \in Buyers /\ Paid
      /\ ~Released /\ status # "claimed"
  BY <1>1, NoneAssumption
     DEF ReleaseTransferKey, PendingInv, ChallengeIsPayers, OrderInv, Paid,
         PaymentState
<1>3. release' \in ReleaseState /\ Released'
  BY <1>2, NoneAssumption DEF ReleaseTransferKey, ReleaseState, Released
<1>4. /\ release'.keyEnvelope = e /\ release'.buyer = payment.buyer
  BY DEF ReleaseTransferKey
<1>5. OrderInv'
  <2> USE <1>1, <1>2, <1>3, <1>4 DEF OrderInv, ReleaseTransferKey
  <2>1. StatusFollowsPayment' /\ SettlementHasCause' /\ SessionFollowsPayment'
    BY DEF StatusFollowsPayment, SettlementHasCause, SessionFollowsPayment, Paid
  <2>2. EnvelopeIsForPayer'
    BY DEF EnvelopeIsForPayer, Paid
  <2>3. ClaimsAreEarned'
    BY DEF ClaimsAreEarned, Paid, SessionOf
  <2>4. QED
    BY <2>1, <2>2, <2>3
<1>6. PendingInv'
  <2> USE <1>1 DEF PendingInv, ReleaseTransferKey
  <2>1. SentMeansSent' /\ IndexNeverDangles'
    BY DEF SentMeansSent, IndexNeverDangles
  <2>2. ReportsAccepted' /\ ChallengeIsPayers'
    BY DEF ReportsAccepted, ChallengeIsPayers, Paid
  <2>3. HandlerHolds'
    BY DEF HandlerHolds, LockFree
  <2>4. QED
    BY <2>1, <2>2, <2>3
<1>7. QED
  BY <1>5, <1>6, InvPartsNext

\* A claim in browser mode is recorded at once.
LEMMA ClaimTransferInv ==
    ASSUME Inv, NEW b \in Buyers, ClaimTransfer(b)
    PROVE  Inv'
<1>1. OrderInv /\ PendingInv
  BY InvParts
<1>2. MayClaim(b) /\ RecordClaim(b, "queued_local_outbox")
  BY DEF ClaimTransfer
<1>3. OrderInv'
  BY <1>1, <1>2, RecordClaimInv
<1>4. /\ nymSession' # None /\ nymSession'.lastDelivery = "queued_local_outbox"
      /\ UNCHANGED <<payment, release>>
  BY <1>1, <1>2, RecordClaimEffect DEF RecordClaim
<1>5. PendingInv'
  <2> USE <1>1, <1>4 DEF PendingInv, ClaimTransfer
  <2>1. SentMeansSent' /\ IndexNeverDangles'
    BY DEF SentMeansSent, IndexNeverDangles
  <2>2. ReportsAccepted' /\ ChallengeIsPayers'
    BY DEF ReportsAccepted, ChallengeIsPayers, Paid
  <2>3. HandlerHolds'
    BY DEF HandlerHolds, LockFree
  <2>4. QED
    BY <2>1, <2>2, <2>3
<1>6. QED
  BY <1>3, <1>5, InvPartsNext

\* A claim in server mode is recorded after the envelope was sent; the lock was
\* held all along, so what was checked before the send is still true.
LEMMA WriteSentClaimInv ==
    ASSUME Inv, WriteSentClaim
    PROVE  Inv'
<1>1. OrderInv /\ PendingInv
  BY InvParts
<1>2. /\ payment # None /\ payment.buyer \in Buyers /\ MayClaim(payment.buyer)
      /\ envelopeSent
      /\ RecordClaim(payment.buyer, "sent_nym_client")
  BY <1>1 DEF WriteSentClaim, PendingInv, HandlerHolds, OrderInv, PaymentState
<1>3. OrderInv'
  BY <1>1, <1>2, RecordClaimInv
<1>4. UNCHANGED <<payment, release>>
  BY <1>2 DEF RecordClaim
<1>5. PendingInv'
  <2> USE <1>1, <1>2, <1>4 DEF PendingInv, WriteSentClaim
  <2>1. SentMeansSent' /\ IndexNeverDangles'
    BY DEF SentMeansSent, IndexNeverDangles
  <2>2. ReportsAccepted' /\ ChallengeIsPayers'
    BY DEF ReportsAccepted, ChallengeIsPayers, Paid
  <2>3. HandlerHolds'
    BY DEF HandlerHolds
  <2>4. QED
    BY <2>1, <2>2, <2>3
<1>6. QED
  BY <1>3, <1>5, InvPartsNext

\* An acknowledgement touches only what the session says of its delivery.
LEMMA MarkTransferDeliveredInv ==
    ASSUME Inv, NEW b \in Buyers, NEW via \in {"nym", "https", None},
           MarkTransferDelivered(b, via)
    PROVE  Inv'
<1>1. OrderInv /\ PendingInv
  BY InvParts
<1>2. nymSession \in SessionState /\ nymSession # None /\ nymSession.buyer = b
  BY <1>1 DEF MarkTransferDelivered, OrderInv, SessionOf
<1>3. /\ nymSession' \in SessionState /\ nymSession'.buyer = b
      /\ nymSession'.status = "delivered" /\ nymSession'.lastDelivery = "delivered"
  BY <1>2 DEF MarkTransferDelivered, SessionState
<1>4. nymSession' # None
  BY <1>3, NoneAssumption
<1>5. OrderInv'
  <2> USE <1>1, <1>2, <1>3, <1>4 DEF OrderInv, MarkTransferDelivered
  <2>1. StatusFollowsPayment' /\ SettlementHasCause' /\ EnvelopeIsForPayer'
    BY DEF StatusFollowsPayment, SettlementHasCause, EnvelopeIsForPayer, Paid,
           Released
  <2>2. SessionFollowsPayment' /\ ClaimsAreEarned'
    BY DEF SessionFollowsPayment, ClaimsAreEarned, Paid, Released, SessionOf
  <2>3. QED
    BY <2>1, <2>2
<1>6. PendingInv'
  <2> USE <1>1, <1>3 DEF PendingInv, MarkTransferDelivered
  <2>1. SentMeansSent' /\ IndexNeverDangles'
    BY DEF SentMeansSent, IndexNeverDangles
  <2>2. ReportsAccepted' /\ ChallengeIsPayers'
    BY DEF ReportsAccepted, ChallengeIsPayers, Paid
  <2>3. HandlerHolds'
    BY DEF HandlerHolds, LockFree
  <2>4. QED
    BY <2>1, <2>2, <2>3
<1>7. QED
  BY <1>5, <1>6, InvPartsNext

\* Inv is inductive.
LEMMA NextInv == Inv /\ [Next]_vars => Inv'
<1> SUFFICES ASSUME Inv, [Next]_vars PROVE Inv'
  OBVIOUS
<1>1. ASSUME NEW b \in Buyers, NEW p \in Providers, CreatePaymentIntent(b, p)
      PROVE  Inv'
  BY <1>1, CreatePaymentIntentInv
<1>2. CASE WriteInvoiceIndex
  BY <1>2, InFlightInv DEF WriteInvoiceIndex
<1>3. CASE MarkTransferPaidForDev
  BY <1>3, MarkTransferPaidForDevInv
<1>4. ASSUME NEW hasReference \in BOOLEAN, NEW invoice \in Invoice,
             AcceptInvoiceEvent(hasReference, invoice)
      PROVE  Inv'
  BY <1>4, InFlightInv DEF AcceptInvoiceEvent
<1>5. ASSUME NEW invoice \in Invoice, MarkTransferPaidFromInvoice(invoice)
      PROVE  Inv'
  BY <1>5, MarkTransferPaidFromInvoiceInv
<1>6. ASSUME NEW r \in Report, AcceptDepositReport(r)
      PROVE  Inv'
  BY <1>6, InFlightInv DEF AcceptDepositReport
<1>7. ASSUME NEW r \in Report, ApplyDepositReport(r)
      PROVE  Inv'
  BY <1>7, ApplyDepositReportInv
<1>8. ASSUME NEW b \in Buyers, RegisterNymSession(b)
      PROVE  Inv'
  BY <1>8, RegisterNymSessionInv
<1>9. CASE GetReleaseChallenge
  BY <1>9, InFlightInv DEF GetReleaseChallenge
<1>10. ASSUME NEW e \in KeyEnvelope, ReleaseTransferKey(e)
       PROVE  Inv'
  BY <1>10, ReleaseTransferKeyInv
<1>11. ASSUME NEW b \in Buyers, ClaimTransfer(b)
       PROVE  Inv'
  BY <1>11, ClaimTransferInv
<1>12. ASSUME NEW b \in Buyers, SendClaim(b)
       PROVE  Inv'
  BY <1>12, InFlightInv DEF SendClaim
<1>13. CASE WriteSentClaim
  BY <1>13, WriteSentClaimInv
<1>14. ASSUME NEW wentOut \in BOOLEAN, FailSentClaim(wentOut)
       PROVE  Inv'
  BY <1>14, InFlightInv DEF FailSentClaim
<1>15. ASSUME NEW b \in Buyers, NEW via \in {"nym", "https", None},
              MarkTransferDelivered(b, via)
       PROVE  Inv'
  BY <1>15, MarkTransferDeliveredInv
<1>16. CASE Crash
  BY <1>16, InFlightInv DEF Crash
<1>17. CASE UNCHANGED vars
  BY <1>17, InFlightInv DEF vars
<1>18. CASE EnvelopeTaken
  BY <1>18, InFlightInv DEF EnvelopeTaken
<1>19. QED
  BY <1>1, <1>2, <1>3, <1>4, <1>5, <1>6, <1>7, <1>8, <1>9, <1>10, <1>11, <1>12,
     <1>13, <1>14, <1>15, <1>16, <1>17, <1>18
     DEF Next, PaymentStep, DeliveryStep

\* Whatever the interleaving, the reports, the replays and the crashes.
THEOREM InvAlways == Spec => []Inv
BY InitInv, NextInv, PTL DEF Spec

\* The order record and the requests in flight keep their types.
THEOREM TypeCorrect == Spec => []TypeOK
<1>1. Inv => TypeOK
  BY DEF Inv
<1>2. QED
  BY <1>1, InvAlways, PTL

\* The order status always tells the same story as the payment record.
THEOREM StatusFollowsPaymentAlways == Spec => []StatusFollowsPayment
<1>1. Inv => StatusFollowsPayment
  BY DEF Inv
<1>2. QED
  BY <1>1, InvAlways, PTL

\* A session never waits for a payment that has come, nor is ready without one.
THEOREM SessionFollowsPaymentAlways == Spec => []SessionFollowsPayment
<1>1. Inv => SessionFollowsPayment
  BY DEF Inv
<1>2. QED
  BY <1>1, InvAlways, PTL

\* The released key is wrapped for the buyer who paid and nobody else.
THEOREM EnvelopeIsForPayerAlways == Spec => []EnvelopeIsForPayer
<1>1. Inv => EnvelopeIsForPayer
  BY DEF Inv
<1>2. QED
  BY <1>1, InvAlways, PTL

\* Only the payer of a paid and released order ever has a recorded claim.
THEOREM ClaimsAreEarnedAlways == Spec => []ClaimsAreEarned
<1>1. Inv => ClaimsAreEarned
  BY DEF Inv
<1>2. QED
  BY <1>1, InvAlways, PTL

\* Every paid order has on record what paid it: an event, or on chain a deposit deep
\* and large enough, unless it is a development order.
THEOREM SettlementHasCauseAlways == Spec => []SettlementHasCause
<1>1. Inv => SettlementHasCause
  BY DEF Inv
<1>2. QED
  BY <1>1, InvAlways, PTL

\* The order never records a send of the server that did not happen.
THEOREM SentMeansSentAlways == Spec => []SentMeansSent
<1>1. Inv => SentMeansSent
  BY DEF Inv
<1>2. QED
  BY <1>1, InvAlways, PTL

\* The invoice index never names an order without a payment session.
THEOREM IndexNeverDanglesAlways == Spec => []IndexNeverDangles
<1>1. Inv => IndexNeverDangles
  BY DEF Inv
<1>2. QED
  BY <1>1, InvAlways, PTL

-----------------------------------------------------------------------------
(* What a step may never do. *)

\* The status of a paid or claimed order never regresses (StatusNeverRegresses).
THEOREM StatusMonotonic == Spec => StatusNeverRegresses
<1>1. Inv /\ [Next]_vars => [StatusRank[status'] >= StatusRank[status]]_vars
  <2> SUFFICES ASSUME Inv, Next PROVE StatusRank[status'] >= StatusRank[status]
    OBVIOUS
  <2>1. /\ StatusRank["created"] = 0 /\ StatusRank["payment_pending"] = 1
        /\ StatusRank["paid"] = 2 /\ StatusRank["claimed"] = 3
    BY DEF StatusRank
  <2>2. status \in {"created", "payment_pending", "paid", "claimed"}
    BY DEF Inv, TypeOK
  <2>3. \/ status' = status
        \/ status = "created" /\ status' = "payment_pending"
        \/ status' = IF status = "claimed" THEN "claimed" ELSE "paid"
        \/ status' = "claimed"
    <3>1. CASE PaymentStep
      BY <3>1
         DEF PaymentStep, CreatePaymentIntent, WriteInvoiceIndex,
             MarkTransferPaidForDev, AcceptInvoiceEvent,
             MarkTransferPaidFromInvoice, AcceptDepositReport, ApplyDepositReport,
             MarkTransferDetectedOnchain, MarkTransferPaidOnchain, MarkOrderPaid,
             order, Inv, StatusFollowsPayment
    <3>2. CASE DeliveryStep
      BY <3>2
         DEF DeliveryStep, RegisterNymSession, GetReleaseChallenge,
             ReleaseTransferKey, ClaimTransfer, SendClaim, EnvelopeTaken, WriteSentClaim,
             FailSentClaim, MarkTransferDelivered, RecordClaim, order
    <3>3. CASE Crash
      BY <3>3 DEF Crash, order
    <3>4. QED
      BY <3>1, <3>2, <3>3 DEF Next
  <2>4. QED
    BY <2>1, <2>2, <2>3
<1>2. QED
  BY <1>1, InvAlways, PTL DEF Spec, StatusNeverRegresses

\* The first envelope stays (ReleaseIsFinal).
THEOREM ReleaseMonotonic == Spec => ReleaseIsFinal
<1>1. [Next]_vars => [Released => release' = release]_vars
  <2> SUFFICES ASSUME Next, Released PROVE release' = release
    OBVIOUS
  <2>1. CASE PaymentStep
    BY <2>1
       DEF PaymentStep, CreatePaymentIntent, WriteInvoiceIndex,
           MarkTransferPaidForDev, AcceptInvoiceEvent, MarkTransferPaidFromInvoice,
           AcceptDepositReport, ApplyDepositReport, order
  <2>2. CASE DeliveryStep
    BY <2>2
       DEF DeliveryStep, RegisterNymSession, GetReleaseChallenge,
           ReleaseTransferKey, ClaimTransfer, SendClaim, EnvelopeTaken, WriteSentClaim,
           FailSentClaim, MarkTransferDelivered, RecordClaim, order
  <2>3. CASE Crash
    BY <2>3 DEF Crash, order
  <2>4. QED
    BY <2>1, <2>2, <2>3 DEF Next
<1>2. QED
  BY <1>1, PTL DEF Spec, ReleaseIsFinal

\* What a step may change of a payment: nothing that identifies it, and the recorded
\* deposit only while there is none or it is the same transaction on a pending order.
Kept ==
    /\ payment' # None
    /\ payment'.buyer = payment.buyer
    /\ payment'.provider = payment.provider
    /\ payment.onchain # None =>
         payment'.onchain # None /\ payment'.onchain.txid = payment.onchain.txid
    /\ payment.status = "paid" =>
         /\ payment'.status = "paid"
         /\ payment'.onchain # payment.onchain =>
              /\ payment.onchain = None /\ payment.raw = "event"
              /\ payment'.onchain.confirmations >= MinConfirmations

\* A deep deposit is put on record of a pending payment, or of one that an event
\* has paid without a deposit.
LEMMA DeepDepositKept ==
    ASSUME Inv, payment # None, NEW r \in Report, r \in deposits,
           r.confirmations >= MinConfirmations, SameDeposit(r),
           ~(payment.status = "paid" /\ payment.onchain # None),
           MarkOrderPaid(r, payment.raw)
    PROVE  Kept
<1>1. OrderInv /\ PendingInv /\ r \in Report \cup {None} /\ r # None
  BY InvParts, NoneAssumption
<1>2. payment \in PaymentState /\ payment.raw \in {"invoice", "event"}
  BY <1>1 DEF OrderInv, PaymentState
<1>3. /\ payment' # None /\ payment'.status = "paid" /\ payment'.onchain = r
      /\ payment'.buyer = payment.buyer /\ payment'.provider = payment.provider
  BY <1>1, <1>2, MarkOrderPaidEffect
<1>4. payment.provider = "zcash-onchain"
  BY <1>1 DEF PendingInv, ReportsAccepted
<1>5. payment.status = "paid" => payment.onchain = None /\ payment.raw = "event"
  BY <1>1, <1>2, <1>4 DEF OrderInv, SettlementHasCause, Paid
<1>6. QED
  BY <1>1, <1>3, <1>5 DEF Kept, SameDeposit

LEMMA PaymentKept ==
    ASSUME Inv, Next, payment # None
    PROVE  Kept
<1>1. OrderInv /\ PendingInv
  BY InvParts
<1>2. /\ payment \in PaymentState /\ payment.onchain \in Report \cup {None}
      /\ payment.raw \in {"invoice", "event"}
  BY <1>1, NoneAssumption DEF OrderInv, PaymentState
<1>3. CASE UNCHANGED payment
  BY <1>3 DEF Kept
<1>4. ASSUME NEW raw \in {"invoice", "event"}, MarkOrderPaid(payment.onchain, raw)
      PROVE  Kept
  BY <1>1, <1>2, <1>4, MarkOrderPaidEffect DEF Kept
<1>5. ASSUME NEW r \in Report, ApplyDepositReport(r), ~UNCHANGED payment
      PROVE  Kept
  <2>1. CASE MarkTransferDetectedOnchain(r)
    <3>1. /\ payment.status = "pending" /\ SameDeposit(r)
          /\ payment' # None /\ payment'.onchain = r
          /\ payment'.buyer = payment.buyer
          /\ payment'.provider = payment.provider
      BY <1>1, <1>5, <2>1, DetectedEffect
    <3>2. QED
      BY <3>1, NoneAssumption DEF Kept, SameDeposit
  <2>2. CASE ~MarkTransferDetectedOnchain(r)
    <3>1. /\ ~(r.confirmations < MinConfirmations)
          /\ MarkTransferPaidOnchain(r) /\ r \in deposits
      BY <1>5, <2>2 DEF ApplyDepositReport
    <3>2. r.confirmations >= MinConfirmations
      <4>1. r.confirmations \in Nat /\ MinConfirmations \in Nat
        BY ConstantsAssumption DEF Report
      <4>2. QED
        BY <3>1, <4>1
    <3>3. /\ SameDeposit(r) /\ MarkOrderPaid(r, payment.raw)
          /\ ~(payment.status = "paid" /\ payment.onchain # None)
      BY <1>5, <3>1 DEF MarkTransferPaidOnchain
    <3>4. QED
      BY <3>1, <3>2, <3>3, DeepDepositKept
  <2>3. QED
    BY <2>1, <2>2
<1>6. \/ UNCHANGED payment
      \/ \E raw \in {"invoice", "event"} : MarkOrderPaid(payment.onchain, raw)
      \/ \E r \in Report : ApplyDepositReport(r)
  BY <1>2
     DEF Next, PaymentStep, DeliveryStep, CreatePaymentIntent, WriteInvoiceIndex,
         MarkTransferPaidForDev, AcceptInvoiceEvent, MarkTransferPaidFromInvoice,
         AcceptDepositReport, RegisterNymSession, GetReleaseChallenge,
         ReleaseTransferKey, ClaimTransfer, SendClaim, EnvelopeTaken, WriteSentClaim,
         FailSentClaim, MarkTransferDelivered, RecordClaim, Crash, order
<1>7. QED
  BY <1>3, <1>4, <1>5, <1>6

\* The order is bound to the first buyer and transaction, and a paid order to the
\* deposit on its record (PaymentIsBinding).
THEOREM PaymentBinds == Spec => PaymentIsBinding
<1>1. Inv /\ [Next]_vars =>
        [payment # None =>
           /\ payment' # None
           /\ payment'.buyer = payment.buyer
           /\ payment'.provider = payment.provider
           /\ payment.onchain # None =>
                payment'.onchain # None /\ payment'.onchain.txid = payment.onchain.txid
           /\ payment.status = "paid" =>
                /\ payment'.status = "paid"
                /\ payment'.onchain # payment.onchain =>
                     /\ payment.onchain = None /\ payment.raw = "event"
                     /\ payment'.onchain.confirmations >= MinConfirmations]_vars
  BY PaymentKept DEF Kept
<1>2. QED
  BY <1>1, InvAlways, PTL DEF Spec, PaymentIsBinding

-----------------------------------------------------------------------------
(* The order implements the abstract sale. *)

\* How far the sale has come, read off the order.
LEMMA StageOfOrder ==
    ASSUME Inv
    PROVE  /\ status = "created" => Stage = "listed" /\ payment = None /\ ~Released
           /\ status = "payment_pending" =>
                Stage = "reserved" /\ payment # None /\ ~Released
           /\ status = "paid" /\ ~Released => Stage = "settled"
           /\ status = "paid" /\ Released => Stage = "released"
           /\ status = "claimed" => Stage = "collected" /\ Released
<1>1. /\ status = "created" => payment = None /\ ~Released
      /\ status = "payment_pending" => payment # None /\ ~Paid /\ ~Released
      /\ status = "claimed" => Released
  BY DEF Inv, StatusFollowsPayment, EnvelopeIsForPayer, ClaimsAreEarned, Paid
<1>2. QED
  BY <1>1 DEF Stage

\* A step that leaves the release alone and moves the status forward by at most
\* one stage is a settlement, a collection or a stutter.
LEMMA SettleOrCollect ==
    ASSUME Inv, Inv', release' = release,
           payment # None => payment' # None /\ payment'.buyer = payment.buyer,
           \/ status' = status
           \/ status = "payment_pending" /\ status' = "paid"
           \/ status \in {"paid", "claimed"} /\ Released /\ status' = "claimed"
    PROVE  [Sale!Next]_(Sale!vars)
<1> DEFINE holder == IF payment = None THEN None ELSE payment.buyer
           envelopeFor == IF Released THEN release.keyEnvelope.buyer ELSE None
<1>1. Released' = Released
  BY DEF Released
<1>2. envelopeFor' = envelopeFor
  BY <1>1
<1>3. payment = None <=> status = "created"
  BY DEF Inv, StatusFollowsPayment
<1>4. payment' = None <=> status' = "created"
  BY DEF Inv, StatusFollowsPayment
<1>5. holder' = holder
  BY <1>3, <1>4
<1>6. CASE status' = status
  <2>1. Stage' = Stage
    BY <1>1, <1>6 DEF Stage
  <2>2. QED
    BY <1>2, <1>5, <2>1 DEF Sale!vars
<1>7. CASE status = "payment_pending" /\ status' = "paid"
  <2>1. Stage = "reserved" /\ ~Released
    BY <1>7, StageOfOrder
  <2>2. Stage' = "settled"
    BY <1>1, <1>7, <2>1 DEF Stage
  <2>3. Sale!Settle
    BY <1>2, <1>5, <2>1, <2>2 DEF Sale!Settle
  <2>4. QED
    BY <2>3 DEF Sale!Next
<1>8. CASE status = "paid" /\ Released /\ status' = "claimed"
  <2>1. Stage = "released" /\ Stage' = "collected"
    BY <1>8, StageOfOrder DEF Stage
  <2>2. Sale!Collect
    BY <1>2, <1>5, <2>1 DEF Sale!Collect
  <2>3. QED
    BY <2>2 DEF Sale!Next
<1>9. QED
  BY <1>6, <1>7, <1>8

\* Every step of the order is a step of the sale or changes nothing of it.
LEMMA SaleStep ==
    ASSUME Inv, Inv', [Next]_vars
    PROVE  [Sale!Next]_(Sale!vars)
<1>1. ASSUME NEW b \in Buyers, NEW p \in Providers, CreatePaymentIntent(b, p)
      PROVE  [Sale!Next]_(Sale!vars)
  <2>1. /\ payment = None /\ status' = "payment_pending" /\ release' = release
        /\ payment' = [provider |-> p, status |-> "pending", buyer |-> b,
                       detected |-> FALSE, onchain |-> None, raw |-> "invoice"]
    BY <1>1 DEF CreatePaymentIntent
  <2>2. payment' # None /\ payment'.buyer = b
    BY <2>1 DEF Inv, StatusFollowsPayment
  <2>3. status = "created"
    BY <2>1 DEF Inv, StatusFollowsPayment
  <2>4. Stage = "listed" /\ ~Released
    BY <2>3, StageOfOrder
  <2>5. ~Released' /\ Stage' = "reserved"
    BY <2>1, <2>4 DEF Released, Stage
  <2>6. Sale!Reserve(b)
    BY <2>1, <2>2, <2>4, <2>5 DEF Sale!Reserve
  <2>7. QED
    BY <2>6 DEF Sale!Next
<1>2. ASSUME NEW e \in KeyEnvelope, ReleaseTransferKey(e)
      PROVE  [Sale!Next]_(Sale!vars)
  <2>1. /\ Paid /\ ~Released /\ status # "claimed" /\ status' = status
        /\ payment' = payment
    BY <1>2 DEF ReleaseTransferKey
  <2>2. release'.keyEnvelope = e /\ e # None
    BY <1>2, NoneAssumption DEF ReleaseTransferKey
  <2>3. Released'
    BY <2>2 DEF Released
  <2>4. release'.keyEnvelope.buyer = payment.buyer /\ payment # None
    BY <2>1, <2>3 DEF Inv, EnvelopeIsForPayer, Paid
  <2>5. status = "paid"
    BY <2>1 DEF Inv, TypeOK, StatusFollowsPayment, Paid
  <2>6. Stage = "settled" /\ Stage' = "released"
    BY <2>1, <2>3, <2>5 DEF Stage
  <2>7. Sale!Release
    BY <2>1, <2>3, <2>4, <2>6 DEF Sale!Release
  <2>8. QED
    BY <2>7 DEF Sale!Next
<1>3. ASSUME Next, ~(\E b \in Buyers, p \in Providers : CreatePaymentIntent(b, p)),
             ~(\E e \in KeyEnvelope : ReleaseTransferKey(e))
      PROVE  [Sale!Next]_(Sale!vars)
  <2>1. payment # None => payment' # None /\ payment'.buyer = payment.buyer
    BY <1>3, PaymentKept DEF Kept
  <2>2. CASE PaymentStep
    <3>1. release' = release
      BY <1>3, <2>2
         DEF PaymentStep, WriteInvoiceIndex, MarkTransferPaidForDev,
             AcceptInvoiceEvent, MarkTransferPaidFromInvoice, AcceptDepositReport,
             ApplyDepositReport, order
    <3>2. \/ status' = status
          \/ payment # None /\ status' = IF status = "claimed" THEN "claimed"
                                                               ELSE "paid"
      BY <1>3, <2>2
         DEF PaymentStep, WriteInvoiceIndex, MarkTransferPaidForDev,
             AcceptInvoiceEvent, MarkTransferPaidFromInvoice, AcceptDepositReport,
             ApplyDepositReport, MarkTransferDetectedOnchain,
             MarkTransferPaidOnchain, MarkOrderPaid, order
    <3>3. \/ status' = status
          \/ status = "payment_pending" /\ status' = "paid"
      BY <3>2 DEF Inv, TypeOK, StatusFollowsPayment
    <3>4. QED
      BY <2>1, <3>1, <3>3, SettleOrCollect
  <2>3. CASE DeliveryStep
    <3>1. release' = release
      BY <1>3, <2>3
         DEF DeliveryStep, RegisterNymSession, GetReleaseChallenge, ClaimTransfer,
             SendClaim, EnvelopeTaken, WriteSentClaim, FailSentClaim, MarkTransferDelivered,
             RecordClaim, order
    <3>2. \/ status' = status
          \/ /\ status' = "claimed"
             /\ \E b \in Buyers \cup {payment.buyer} : MayClaim(b)
      BY <1>3, <2>3
         DEF DeliveryStep, RegisterNymSession, GetReleaseChallenge, ClaimTransfer,
             SendClaim, EnvelopeTaken, WriteSentClaim, FailSentClaim, MarkTransferDelivered,
             RecordClaim, order, Inv, HandlerHolds
    <3>3. \/ status' = status
          \/ status \in {"paid", "claimed"} /\ Released /\ status' = "claimed"
      BY <3>2 DEF MayClaim
    <3>4. QED
      BY <2>1, <3>1, <3>3, SettleOrCollect
  <2>4. CASE Crash
    <3>1. status' = status /\ release' = release
      BY <2>4 DEF Crash, order
    <3>2. QED
      BY <2>1, <3>1, SettleOrCollect
  <2>5. QED
    BY <1>3, <2>2, <2>3, <2>4 DEF Next
<1>4. CASE UNCHANGED vars
  <2>1. status' = status /\ release' = release /\ payment' = payment
    BY <1>4 DEF vars, order
  <2>2. QED
    BY <2>1, SettleOrCollect
<1>5. QED
  BY <1>1, <1>2, <1>3, <1>4

\* TransferOrder implements PaidSale (ImplementsSale).
THEOREM OrderImplementsSale == Spec => ImplementsSale
<1>1. Init => Sale!Init
  BY DEF Init, Sale!Init, Stage, Released
<1>2. Inv /\ Inv' /\ [Next]_vars => [Sale!Next]_(Sale!vars)
  BY SaleStep
<1>3. QED
  BY <1>1, <1>2, InvAlways, PTL DEF Spec, ImplementsSale, Sale!Spec
=============================================================================
