---------------------------- MODULE TransferOrder ----------------------------
(***************************************************************************)
(* One paid link: the order record kept by lib/server/transfer-store.ts    *)
(* and the webhook routes that drive it.                                   *)
(*                                                                         *)
(* Every handler that writes the order runs under the per-order lock       *)
(* (withOrderLock, verified in AsyncLock), reads the whole record, decides *)
(* and replaces the file by an atomic rename, so a handler that writes     *)
(* once is one atomic action.  Two handlers do a second thing that lasts:  *)
(* createPaymentIntentForOrder writes the invoice index after the order,   *)
(* and claimTransfer with a Nym client sends the key before it writes the  *)
(* order.  Those two take several steps, with "handler" standing for the   *)
(* lock they hold in between, and a crash may separate the steps.          *)
(* The webhook routes read the order before they take the lock; the        *)
(* reports they accepted wait in "deposits" and "invoiceEvents".           *)
(*                                                                         *)
(* Left out: file contents, digests, prices' wording, timestamps, Nym      *)
(* addresses, and handlers that fail without writing (they stutter).       *)
(***************************************************************************)
EXTENDS Naturals, Sequences, FiniteSets

CONSTANTS
    Buyers,            \* buyers' public key hashes
    Providers,         \* payment rails the deployments of one order may offer
    Txids,             \* deposit transactions
    Amounts,           \* deposit amounts in zats
    Confirmations,     \* confirmation depths a report may carry
    Price,             \* order.price.amountZats
    MinConfirmations,  \* minConfirmations() of the zcash webhook
    Wraps,             \* runs of the seller's key wrapping
    DeliveryModes,     \* how claims deliver, over the order's life: "browser" (the
                       \* seller's page sends), "outbox" or "client" (the server does)
    None,              \* null
    MaxClaims,         \* bound: claims recorded on the order
    MaxInFlight        \* bound: deposit reports and paid events waiting for the lock

AllProviders == {"dev", "cipherpay", "zcash-onchain"}

\* What a deposit report carries, and what the order keeps of one.
Report == [txid : Txids, amountZats : Amounts, confirmations : Confirmations]

\* The invoice a paid event is about: the one of the order's payment, which it also
\* counts as when it carries no invoice id, or another one.
Invoice == {"own", "other"}

\* raw: what the rail answered when it made the invoice, or the last paid event.
PaymentState ==
    [provider : Providers, status : {"pending", "paid"}, buyer : Buyers,
     detected : BOOLEAN, onchain : Report \cup {None}, raw : {"invoice", "event"}]

SessionState ==
    [buyer : Buyers,
     status : {"waiting_for_payment", "ready_for_delivery", "queued", "delivered"},
     lastDelivery : {"queued_local_outbox", "sent_nym_client", "delivered", None},
     deliveredVia : {"nym", "https", None}]

\* A file key wrapped for a buyer's public key.  Wrapping is randomised (a fresh
\* ephemeral key): each element of Wraps is one run of it.
KeyEnvelope == [buyer : Buyers, wrap : Wraps]

ReleaseState == [keyEnvelope : KeyEnvelope \cup {None}, buyer : Buyers \cup {None}]

ASSUME ConstantsAssumption ==
    /\ Providers \subseteq AllProviders
    /\ Amounts \subseteq Nat /\ Price \in Nat
    /\ Confirmations \subseteq Nat /\ MinConfirmations \in Nat
    /\ DeliveryModes \subseteq {"browser", "outbox", "client"}
    /\ MaxClaims \in Nat /\ MaxInFlight \in Nat

ASSUME NoneAssumption ==
    /\ None \notin Buyers
    /\ None \notin {"nym", "https", "sent_nym_client"}
    /\ None \notin Report
    /\ None \notin KeyEnvelope
    /\ None \notin PaymentState
    /\ None \notin SessionState

VARIABLES
    status,          \* order.status
    payment,         \* order.payment, None before the first intent
    nymSession,      \* order.delivery.nymSession
    release,         \* order.release
    claims,          \* order.claims: the buyer of each recorded claim
    invoiceIndexed,  \* the invoice index names this order
    envelopeSent,    \* the server itself has sent the key envelope over Nym
    handler,         \* what the holder of the order lock has left to do
    deposits,        \* deposit reports the zcash route accepted, not yet applied
    invoiceEvents,   \* paid events the cipherpay route mapped, not yet applied
    challenges       \* buyer keys the seller's browser got from a challenge

order == <<status, payment, nymSession, release, claims>>
vars == <<order, invoiceIndexed, envelopeSent, handler, deposits, invoiceEvents,
          challenges>>

TypeOK ==
    /\ status \in {"created", "payment_pending", "paid", "claimed"}
    /\ payment \in PaymentState \cup {None}
    /\ nymSession \in SessionState \cup {None}
    /\ release \in ReleaseState
    /\ claims \in Seq(Buyers)
    /\ invoiceIndexed \in BOOLEAN
    /\ envelopeSent \in BOOLEAN
    /\ handler \in {"idle", "indexing", "sending", "sent"}
    /\ deposits \subseteq Report
    /\ invoiceEvents \subseteq Invoice
    /\ challenges \subseteq Buyers

\* createTransferOrder: the encrypted file is on disk before the order is.
Init ==
    /\ status = "created"
    /\ payment = None
    /\ nymSession = None
    /\ release = [keyEnvelope |-> None, buyer |-> None]
    /\ claims = <<>>
    /\ invoiceIndexed = FALSE
    /\ envelopeSent = FALSE
    /\ handler = "idle"
    /\ deposits = {}
    /\ invoiceEvents = {}
    /\ challenges = {}

-----------------------------------------------------------------------------
(* Conditions the handlers share. *)

LockFree == handler = "idle"
Paid == payment # None /\ payment.status = "paid"
\* Mutant of BoundTo: the buyer key is not compared.
MutBoundTo(b) == payment # None
BoundTo(b) == payment # None /\ payment.buyer = b
SessionOf(b) == nymSession # None /\ nymSession.buyer = b
Released == release.keyEnvelope # None

\* Mutant of SameDeposit: the txid is not compared.
MutSameDeposit(r) == TRUE

\* No transaction is recorded on the payment, or r is about the recorded one.
SameDeposit(r) == payment.onchain = None \/ payment.onchain.txid = r.txid

\* markOrderPaid: a claimed order stays claimed; a session is made ready again.
MarkOrderPaid(onchain, raw) ==
    /\ status' = IF status = "claimed" THEN "claimed" ELSE "paid"
    /\ payment' = [payment EXCEPT !.status = "paid", !.onchain = onchain,
                                  !.raw = raw]
    /\ nymSession' = IF nymSession = None THEN None
                     ELSE [nymSession EXCEPT !.status = "ready_for_delivery"]

-----------------------------------------------------------------------------
(* Payment. *)

\* Mutant of CreatePaymentIntent: the index is written before the order.
MutCreatePaymentIntent(b, p) ==
    /\ LockFree
    /\ payment = None
    /\ handler' = "indexing"
    /\ UNCHANGED <<order, invoiceIndexed, envelopeSent, deposits, invoiceEvents,
                   challenges>>

\* createPaymentIntentForOrder, up to writeOrder.  A second intent of the same
\* buyer returns the first one and another buyer's is refused: neither writes.
CreatePaymentIntent(b, p) ==
    /\ LockFree
    /\ payment = None
    /\ status' = "payment_pending"
    /\ payment' = [provider |-> p, status |-> "pending", buyer |-> b,
                   detected |-> FALSE, onchain |-> None, raw |-> "invoice"]
    /\ handler' = "indexing"
    /\ UNCHANGED <<nymSession, release, claims, invoiceIndexed, envelopeSent,
                   deposits, invoiceEvents, challenges>>

\* ... and its last write, writeInvoiceIndex.
WriteInvoiceIndex ==
    /\ handler = "indexing"
    /\ invoiceIndexed' = TRUE
    /\ handler' = "idle"
    /\ UNCHANGED <<order, envelopeSent, deposits, invoiceEvents, challenges>>

\* markTransferPaidForDev
MarkTransferPaidForDev ==
    /\ LockFree
    /\ payment # None /\ payment.provider = "dev"
    /\ MarkOrderPaid(payment.onchain, payment.raw)
    /\ UNCHANGED <<release, claims, invoiceIndexed, envelopeSent, handler,
                   deposits, invoiceEvents, challenges>>

\* The requests of both webhooks that wait for the lock are bounded.
MayWait == Cardinality(deposits) + Cardinality(invoiceEvents) < MaxInFlight

\* The cipherpay webhook maps a paid event to the order by its reference, or by
\* the invoice index when the event has none.  This happens before the lock, and
\* neither here nor under it does the code ask for the order's rail: an event that
\* names an order pays it, be it a development or an on-chain one.
AcceptInvoiceEvent(hasReference, invoice) ==
    /\ ~hasReference => invoice = "own" /\ invoiceIndexed
    /\ MayWait
    /\ invoiceEvents' = invoiceEvents \cup {invoice}
    /\ UNCHANGED <<order, invoiceIndexed, envelopeSent, handler, deposits,
                   challenges>>

\* markTransferPaidFromInvoice, under the lock: an event about another invoice, or
\* before the first payment intent, is refused.
MarkTransferPaidFromInvoice(invoice) ==
    /\ LockFree
    /\ invoice \in invoiceEvents
    /\ IF payment # None /\ invoice # "other"
       THEN MarkOrderPaid(payment.onchain, "event")
       ELSE UNCHANGED <<status, payment, nymSession>>
    /\ invoiceEvents' = invoiceEvents \ {invoice}
    /\ UNCHANGED <<release, claims, invoiceIndexed, envelopeSent, handler,
                   deposits, challenges>>

\* The zcash webhook route, before the lock: the reported address is the one of
\* the payment session (only zcash-onchain payments have one) and the amount is
\* not an underpayment.  Other reports are ignored.
AcceptDepositReport(r) ==
    /\ payment # None /\ payment.provider = "zcash-onchain"
    /\ r.amountZats >= Price
    /\ MayWait
    /\ deposits' = deposits \cup {r}
    /\ UNCHANGED <<order, invoiceIndexed, envelopeSent, handler, invoiceEvents,
                   challenges>>

\* Mutant of MarkTransferDetectedOnchain: a settled order takes sightings too.
MutMarkTransferDetectedOnchain(r) ==
    /\ payment' = IF SameDeposit(r)
                  THEN [payment EXCEPT !.detected = TRUE, !.onchain = r]
                  ELSE payment
    /\ UNCHANGED <<status, nymSession>>

\* markTransferDetectedOnchain: only an open order takes a sighting, and only of
\* the transaction it already knows, if any.
MarkTransferDetectedOnchain(r) ==
    /\ payment' = IF /\ status = "payment_pending"
                     /\ payment.status # "paid"
                     /\ SameDeposit(r)
                  THEN [payment EXCEPT !.detected = TRUE, !.onchain = r]
                  ELSE payment
    /\ UNCHANGED <<status, nymSession>>

\* markTransferPaidOnchain: a replay of the settled transaction changes nothing,
\* another transaction is a flow_conflict.  An order that an event has paid before
\* any sighting still takes the deposit.
MarkTransferPaidOnchain(r) ==
    IF SameDeposit(r) /\ ~(payment.status = "paid" /\ payment.onchain # None)
    THEN MarkOrderPaid(r, payment.raw)
    ELSE UNCHANGED <<status, payment, nymSession>>

\* The rest of the zcash webhook: the depth decides which handler applies.
ApplyDepositReport(r) ==
    /\ LockFree
    /\ r \in deposits
    /\ payment # None
    /\ IF r.confirmations < MinConfirmations
       THEN MarkTransferDetectedOnchain(r)
       ELSE MarkTransferPaidOnchain(r)
    /\ deposits' = deposits \ {r}
    /\ UNCHANGED <<release, claims, invoiceIndexed, envelopeSent, handler,
                   invoiceEvents, challenges>>

-----------------------------------------------------------------------------
(* Delivery. *)

\* Mutant of RegisterNymSession: a session that exists is not replaced.
MutRegisterNymSession(b) ==
    /\ LockFree
    /\ payment # None => payment.buyer = b
    /\ nymSession = None
    /\ nymSession' =
         [buyer |-> b,
          status |-> IF Paid THEN "ready_for_delivery" ELSE "waiting_for_payment",
          lastDelivery |-> None, deliveredVia |-> None]
    /\ UNCHANGED <<status, payment, release, claims, invoiceIndexed,
                   envelopeSent, handler, deposits, invoiceEvents, challenges>>

\* registerNymSessionForOrder: the session is built afresh, keeping only the
\* last delivery of the one before it.
RegisterNymSession(b) ==
    /\ LockFree
    /\ payment # None => payment.buyer = b
    /\ nymSession' =
         [buyer |-> b,
          status |-> IF Paid THEN "ready_for_delivery" ELSE "waiting_for_payment",
          lastDelivery |-> IF nymSession = None THEN None
                           ELSE nymSession.lastDelivery,
          deliveredVia |-> None]
    /\ UNCHANGED <<status, payment, release, claims, invoiceIndexed,
                   envelopeSent, handler, deposits, invoiceEvents, challenges>>

\* Mutant of GetReleaseChallenge: the key of the Nym session is shown.
MutGetReleaseChallenge ==
    /\ LockFree
    /\ Paid /\ nymSession # None
    /\ challenges' = challenges \cup {nymSession.buyer}
    /\ UNCHANGED <<order, invoiceIndexed, envelopeSent, handler, deposits,
                   invoiceEvents>>

\* getTransferReleaseChallenge: the buyer's key is shown once paid.
GetReleaseChallenge ==
    /\ LockFree
    /\ Paid
    /\ challenges' = challenges \cup {payment.buyer}
    /\ UNCHANGED <<order, invoiceIndexed, envelopeSent, handler, deposits,
                   invoiceEvents>>

\* releaseTransferKey: the seller's browser wraps the file key with a buyer key
\* it got from a challenge (onReleaseSellerKey) and posts the envelope.  Two of
\* its loops may do so for the same order; the first envelope stays.
ReleaseTransferKey(e) ==
    /\ LockFree
    /\ e.buyer \in challenges
    /\ Paid
    /\ ~Released /\ status # "claimed"
    /\ release' = [keyEnvelope |-> e, buyer |-> payment.buyer]
    /\ UNCHANGED <<status, payment, nymSession, claims, invoiceIndexed,
                   envelopeSent, handler, deposits, invoiceEvents, challenges>>

\* Mutant of MayClaim: the seller's release is not awaited.
MutMayClaim(b) ==
    /\ status \in {"paid", "claimed"}
    /\ BoundTo(b)
    /\ SessionOf(b)

\* The checks of claimTransfer before anything is sent or written.
MayClaim(b) ==
    /\ status \in {"paid", "claimed"}
    /\ BoundTo(b)
    /\ SessionOf(b)
    /\ Released

\* Mutant of RecordClaim: the order takes the session's word for its status.
MutRecordClaim(b, receipt) ==
    /\ status' = "queued"
    /\ nymSession' = [nymSession EXCEPT !.status = "queued",
                                        !.lastDelivery = receipt]
    /\ claims' = Append(claims, b)
    /\ UNCHANGED <<payment, release>>

\* What claimTransfer writes.
RecordClaim(b, receipt) ==
    /\ status' = "claimed"
    /\ nymSession' = [nymSession EXCEPT !.status = "queued",
                                        !.lastDelivery = receipt]
    /\ claims' = Append(claims, b)
    /\ UNCHANGED <<payment, release>>

\* claimTransfer when the seller's browser sends the key, or when the server has
\* no Nym client and leaves the envelope in its outbox.
ClaimTransfer(b) ==
    /\ DeliveryModes \cap {"browser", "outbox"} # {}
    /\ LockFree
    /\ Len(claims) < MaxClaims
    /\ MayClaim(b)
    /\ RecordClaim(b, "queued_local_outbox")
    /\ UNCHANGED <<invoiceIndexed, envelopeSent, handler, deposits,
                   invoiceEvents, challenges>>

\* Mutant of SendClaim: the order is written before the envelope is sent.
MutSendClaim(b) ==
    /\ "client" \in DeliveryModes
    /\ LockFree
    /\ Len(claims) < MaxClaims
    /\ MayClaim(b)
    /\ RecordClaim(b, "sent_nym_client")
    /\ UNCHANGED <<invoiceIndexed, envelopeSent, handler, deposits, invoiceEvents,
                   challenges>>

\* claimTransfer through the Nym client: the lock is held while
\* sendWithStandaloneNymClient connects and sends.
SendClaim(b) ==
    /\ "client" \in DeliveryModes
    /\ LockFree
    /\ Len(claims) < MaxClaims
    /\ MayClaim(b)
    /\ handler' = "sending"
    /\ UNCHANGED <<order, invoiceIndexed, envelopeSent, deposits, invoiceEvents,
                   challenges>>

\* The client takes the envelope and says so in time ...
EnvelopeTaken ==
    /\ handler = "sending"
    /\ envelopeSent' = TRUE
    /\ handler' = "sent"
    /\ UNCHANGED <<order, invoiceIndexed, deposits, invoiceEvents, challenges>>

\* ... and the order is written.
WriteSentClaim ==
    /\ handler = "sent"
    /\ RecordClaim(payment.buyer, "sent_nym_client")
    /\ handler' = "idle"
    /\ UNCHANGED <<invoiceIndexed, envelopeSent, deposits, invoiceEvents,
                   challenges>>

\* An error or the timer comes first: the claim fails and nothing is written,
\* whether or not the envelope went out.
FailSentClaim(wentOut) ==
    /\ handler = "sending"
    /\ envelopeSent' = (envelopeSent \/ wentOut)
    /\ handler' = "idle"
    /\ UNCHANGED <<order, invoiceIndexed, deposits, invoiceEvents, challenges>>

\* markTransferDelivered: the buyer's acknowledgement.
MarkTransferDelivered(b, via) ==
    /\ LockFree
    /\ BoundTo(b)
    /\ SessionOf(b)
    /\ nymSession' = [nymSession EXCEPT
                        !.status = "delivered",
                        !.lastDelivery = "delivered",
                        !.deliveredVia = IF via # None THEN via ELSE @]
    /\ UNCHANGED <<status, payment, release, claims, invoiceIndexed,
                   envelopeSent, handler, deposits, invoiceEvents, challenges>>

\* The server process dies and restarts: the files stay, what a handler had left
\* to do and the requests it was serving are lost.
Crash ==
    /\ handler' = "idle"
    /\ deposits' = {}
    /\ invoiceEvents' = {}
    /\ UNCHANGED <<order, invoiceIndexed, envelopeSent, challenges>>

-----------------------------------------------------------------------------
PaymentStep ==
    \/ \E b \in Buyers, p \in Providers : CreatePaymentIntent(b, p)
    \/ WriteInvoiceIndex
    \/ MarkTransferPaidForDev
    \/ \E hasReference \in BOOLEAN, invoice \in Invoice :
         AcceptInvoiceEvent(hasReference, invoice)
    \/ \E invoice \in Invoice : MarkTransferPaidFromInvoice(invoice)
    \/ \E r \in Report : AcceptDepositReport(r)
    \/ \E r \in Report : ApplyDepositReport(r)

DeliveryStep ==
    \/ \E b \in Buyers : RegisterNymSession(b)
    \/ GetReleaseChallenge
    \/ \E e \in KeyEnvelope : ReleaseTransferKey(e)
    \/ \E b \in Buyers : ClaimTransfer(b)
    \/ \E b \in Buyers : SendClaim(b)
    \/ EnvelopeTaken
    \/ WriteSentClaim
    \/ \E wentOut \in BOOLEAN : FailSentClaim(wentOut)
    \/ \E b \in Buyers, via \in {"nym", "https", None} :
         MarkTransferDelivered(b, via)

Next == PaymentStep \/ DeliveryStep \/ Crash

Spec == Init /\ [][Next]_vars

\* What the pages repeat until it is done: the buyer's heartbeat registers the
\* session every few seconds, until it reads that the file was delivered, and the
\* seller's queue of purchases asks for the challenge and releases at every tick,
\* until the order is released.  Each such request waits in a lock that serves its
\* waiters in turn, and the process does not die at every attempt: strong fairness.
\* A handler that holds the lock ends (the send has a timer).
\* Nothing is assumed about what is not repeated: nobody has to open a payment
\* session or to pay, the page's automatic claim runs once and may be refused or
\* lost, and the Nym client may fail every time.
Heartbeat ==
    /\ Paid
    /\ ~(SessionOf(payment.buyer) /\ nymSession.status = "delivered")
    /\ RegisterNymSession(payment.buyer)

Fairness ==
    /\ WF_vars(WriteInvoiceIndex)
    /\ WF_vars(EnvelopeTaken \/ \E wentOut \in BOOLEAN : FailSentClaim(wentOut))
    /\ WF_vars(WriteSentClaim)
    /\ SF_vars(GetReleaseChallenge)
    /\ SF_vars(\E e \in KeyEnvelope : ReleaseTransferKey(e))
    /\ SF_vars(Heartbeat)

FairSpec == Spec /\ Fairness

-----------------------------------------------------------------------------
(* Safety. *)

\* The order status and the payment record, written by seven handlers, always
\* tell the same story: a status past "created" needs a payment session, and the
\* order waits for payment exactly as long as the payment is pending.
StatusFollowsPayment ==
    /\ status = "created" <=> payment = None
    /\ status = "payment_pending" <=> payment # None /\ payment.status = "pending"

\* A payment confirmed while the buyer's session waits for it makes the session
\* ready, whichever of the two came first; a session is ready or queued only for
\* a paid order.
SessionFollowsPayment ==
    nymSession # None =>
        /\ nymSession.status = "waiting_for_payment" => ~Paid
        /\ nymSession.status \in {"ready_for_delivery", "queued"} => Paid

\* The released envelope was wrapped for the buyer who paid, and no envelope is
\* stored for an unpaid order, though the challenge the seller wrapped from was
\* read in an earlier request than the release.
EnvelopeIsForPayer ==
    Released => /\ Paid
                /\ release.keyEnvelope.buyer = payment.buyer
                /\ release.buyer = payment.buyer

\* Every recorded claim is the payer's, comes after payment and release, and the
\* session stays the payer's from then on; no order is claimed without a claim.
ClaimsAreEarned ==
    /\ status = "claimed" <=> claims # <<>>
    /\ claims # <<>> => Paid /\ Released /\ SessionOf(payment.buyer)
    /\ \A i \in DOMAIN claims : claims[i] = payment.buyer

\* Every payment has its cause on record, in spite of reports and events that wait
\* for the lock, arrive out of order or repeat.  A CipherPay order is paid by an
\* event.  An on-chain order is paid by a deposit of at least the price that is at
\* least minConfirmations deep, unless it keeps the event of the other webhook that
\* paid it; a deposit seen on a pending order was never deep enough.
SettlementHasCause ==
    payment # None =>
        /\ payment.onchain # None => /\ payment.provider = "zcash-onchain"
                                     /\ payment.onchain.amountZats >= Price
        /\ payment.detected => payment.onchain # None
        /\ Paid /\ payment.raw = "invoice" =>
             /\ payment.provider # "cipherpay"
             /\ payment.provider = "zcash-onchain" =>
                  /\ payment.onchain # None
                  /\ payment.onchain.confirmations >= MinConfirmations
        /\ ~Paid =>
             /\ payment.raw = "invoice"
             /\ payment.onchain # None =>
                  payment.onchain.confirmations < MinConfirmations

\* The order never says the server sent the key when it did not: the send comes
\* before the write, whatever fails in between.
SentMeansSent ==
    nymSession # None /\ nymSession.lastDelivery = "sent_nym_client" => envelopeSent

\* A crash leaves no invoice index entry for an order without that invoice.
IndexNeverDangles == invoiceIndexed => payment # None

StatusRank == [s \in {"created", "payment_pending", "paid", "claimed"} |->
                 CASE s = "created" -> 0
                   [] s = "payment_pending" -> 1
                   [] s = "paid" -> 2
                   [] s = "claimed" -> 3]

\* ARCHITECTURE.md: "a paid/claimed order never regresses", through replayed
\* webhooks, repeated intents, claims and acknowledgements.
StatusNeverRegresses == [][StatusRank[status'] >= StatusRank[status]]_vars

\* The first payment session binds the order to its buyer and rail for good; the
\* first deposit seen binds it to a transaction.  A paid order stays paid, and the
\* deposit on its record is never rewritten by a late or repeated report: only an
\* order that an event has paid without one takes a deposit later, a deep one.
PaymentIsBinding ==
    [][payment # None =>
         /\ payment' # None
         /\ payment'.buyer = payment.buyer
         /\ payment'.provider = payment.provider
         /\ payment.onchain # None =>
              payment'.onchain # None /\ payment'.onchain.txid = payment.onchain.txid
         /\ payment.status = "paid" =>
              /\ payment'.status = "paid"
              /\ payment'.onchain # payment.onchain =>
                   /\ payment.onchain = None /\ payment.raw = "event"
                   /\ payment'.onchain.confirmations >= MinConfirmations]_vars

\* ARCHITECTURE.md: "Release is monotonic": the first envelope stays, even when
\* two of the seller's loops wrapped one each.
ReleaseIsFinal == [][Released => release' = release]_vars

-----------------------------------------------------------------------------
(* What it all amounts to. *)

Stage == CASE status = "claimed" -> "collected"
           [] status # "claimed" /\ Released -> "released"
           [] status = "paid" /\ ~Released -> "settled"
           [] status = "payment_pending" /\ ~Released -> "reserved"
           [] OTHER -> "listed"

Sale == INSTANCE PaidSale WITH
          stage <- Stage,
          holder <- IF payment = None THEN None ELSE payment.buyer,
          envelopeFor <- IF Released THEN release.keyEnvelope.buyer ELSE None

\* The order implements the abstract sale.
ImplementsSale == Sale!Spec

\* What claimTransfer asks for is there.
Claimable == payment # None /\ MayClaim(payment.buyer)

\* While the payer's page and the seller's queue run, a paid order gets its release
\* and its payer's session, whoever registered one before, and from then on the
\* payer's claim is not refused any more.
PaidIsClaimable == Paid ~> []Claimable
=============================================================================
