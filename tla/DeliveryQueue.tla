--------------------------- MODULE DeliveryQueue ---------------------------
(***************************************************************************)
(* How the seller's page delivers the purchases of its products, one after *)
(* the other: lib/product-delivery-queue.ts, the deliverNext effect and the*)
(* polls of the panel, and the list of orders they work on                 *)
(* (listOrdersForSeller of transfer-store.ts, app/api/sellers/me/files).   *)
(*                                                                         *)
(* The page polls the list and picks from what it was last shown: the first*)
(* paid and undelivered purchase, by order id, whose buyer is present, and *)
(* one that was not yet found stuck before one that was.  It fetches the   *)
(* order, releases or re-sends the key and starts the file's stream; the   *)
(* slot is free again while the stream goes on.  Here a stream ends with   *)
(* the delivery or without it: what happens inside is DeliveryHandshake and*)
(* NymFileTransfer.                                                        *)
(*                                                                         *)
(* An order is an id: their order is the order of the queue.  The reported *)
(* byte counts do not reach the page (normalizeDeliveryState drops them on *)
(* every read), so any purchase that is watched for                        *)
(* DELIVERY_STUCK_DEMOTE_MS counts as stuck.                               *)
(***************************************************************************)
EXTENDS Naturals

CONSTANTS
    Orders,          \* order ids: positive numbers
    Drafts,          \* orders of products whose release draft this browser holds
    MaxDisruptions   \* bound: failures, crashes, reloads, buyers that leave, deliveries
                     \* taken back, files screens opened

ASSUME QueueAssumption ==
    /\ Orders \subseteq Nat \ {0} /\ Drafts \subseteq Orders
    /\ MaxDisruptions \in Nat

VARIABLES
    status,      \* [Orders -> status of the order's record]
    delivered,   \* orders whose session is "delivered"
    released,    \* orders whose key was released
    present,     \* orders whose buyer has a page open that heartbeats
    stuckBuyers, \* orders whose buyer never completes a stream
    answer,      \* the answer of a poll on its way: <<>>, "failed" or <<list>>
    loading,     \* the same of a loadSellerFiles
    sellerFiles, \* what the page was last shown
    watched,     \* headDeliveryProgressRef: is the order watched, and stuck
    inFlight,    \* productDeliveryInFlightRef: an order, or 0
    fetching,    \* [Orders -> how many deliverNext fetch this order]
    sending,     \* [Orders -> how many deliverNext send to this order's buyer]
    streams,     \* sellerFileSendInFlightRef: orders whose file is streaming
    passed,      \* history: orders that a list showed as not pending while a deliverNext
                 \* worked on them
    disturbed,   \* history: orders whose buyer left, whose send or stream failed or whose
                 \* delivery was taken back
    disruptions

world == <<status, delivered, released, present>>
lists == <<answer, loading, sellerFiles>>
queue == <<watched, inFlight, fetching, sending, passed>>
history == <<disturbed, disruptions>>
vars == <<world, stuckBuyers, lists, queue, streams, history>>

\* A record is a directory first ("half"); a failed creation leaves it ("orphan").
Status == {"none", "half", "orphan", "created", "paid"}

\* What the page sees of an order: its state as a purchase to deliver.
Summary == {"absent", "unpaid", "away", "present", "delivered"}

Answer == {<<>>, <<"failed">>} \cup {<<"list", s>> : s \in [Orders -> Summary]}

TypeOK ==
    /\ status \in [Orders -> Status]
    /\ released \subseteq {o \in Orders : status[o] = "paid"}
    /\ delivered \subseteq released /\ present \subseteq Orders
    /\ stuckBuyers \subseteq Orders
    /\ answer \in Answer /\ loading \in Answer
    /\ sellerFiles \in [Orders -> Summary]
    /\ watched \in [Orders -> {"no", "watched", "stuck"}]
    /\ inFlight \in Orders \cup {0}
    /\ fetching \in [Orders -> Nat] /\ sending \in [Orders -> Nat]
    /\ passed \subseteq Orders
    /\ streams \subseteq released
    /\ disturbed \subseteq Orders
    /\ disruptions \in 0 .. MaxDisruptions

Unseen == [o \in Orders |-> "absent"]
NoRun == [o \in Orders |-> 0]

Init ==
    /\ status = [o \in Orders |-> "none"]
    /\ delivered = {} /\ released = {} /\ present = {}
    /\ stuckBuyers \in SUBSET Orders
    /\ answer = <<>> /\ loading = <<>>
    /\ sellerFiles = Unseen
    /\ watched = [o \in Orders |-> "no"]
    /\ inFlight = 0
    /\ fetching = NoRun /\ sending = NoRun /\ passed = {}
    /\ streams = {}
    /\ disturbed = {}
    /\ disruptions = 0

Disrupt == disruptions < MaxDisruptions /\ disruptions' = disruptions + 1

-----------------------------------------------------------------------------
(* Purchases on the server, and their buyers. *)

\* createTransferOrder: the directory, then the record.
MakeOrderDir(o) ==
    /\ status[o] = "none"
    /\ status' = [status EXCEPT ![o] = "half"]
    /\ UNCHANGED <<delivered, released, present, stuckBuyers, lists, queue, streams,
                   history>>

WriteOrder(o) ==
    /\ status[o] = "half"
    /\ status' = [status EXCEPT ![o] = "created"]
    /\ UNCHANGED <<delivered, released, present, stuckBuyers, lists, queue, streams,
                   history>>

\* The server dies, or cannot write the record.
WriteOrderFails(o) ==
    /\ status[o] = "half"
    /\ Disrupt
    /\ status' = [status EXCEPT ![o] = "orphan"]
    /\ UNCHANGED <<delivered, released, present, stuckBuyers, lists, queue, streams,
                   disturbed>>

MarkOrderPaid(o) ==
    /\ status[o] = "created"
    /\ status' = [status EXCEPT ![o] = "paid"]
    /\ UNCHANGED <<delivered, released, present, stuckBuyers, lists, queue, streams,
                   history>>

\* The buyer's page is open: registerNymSessionForOrder, repeated by the heartbeat.
BuyerComes(o) ==
    /\ status[o] \in {"created", "paid"} /\ o \notin present
    /\ present' = present \cup {o}
    /\ UNCHANGED <<status, delivered, released, stuckBuyers, lists, queue, streams,
                   history>>

\* No heartbeat for BUYER_PRESENCE_STALE_MS.
BuyerLeaves(o) ==
    /\ o \in present
    /\ Disrupt
    /\ present' = present \ {o}
    /\ disturbed' = disturbed \cup {o}
    /\ UNCHANGED <<status, delivered, released, stuckBuyers, lists, queue, streams>>

-----------------------------------------------------------------------------
(* The list of files. *)

\* The row of GET /api/sellers/me/files; the age of a session tells whether the buyer
\* is present (isBuyerPresent).
SummaryOf(o) ==
    CASE status[o] = "none"                                 -> "absent"
      [] status[o] = "created"                              -> "unpaid"
      [] status[o] = "paid" /\ o \in delivered              -> "delivered"
      [] status[o] = "paid" /\ o \in present \ delivered    -> "present"
      [] OTHER                                              -> "away"

\* readOrder throws a ServerError for a directory without a record, which
\* listOrdersForSeller does not take for a missing file: the request fails.
ListOrdersForSeller ==
    IF \E o \in Orders : status[o] \in {"half", "orphan"}
      THEN <<"failed">>
      ELSE <<"list", [o \in Orders |-> SummaryOf(o)]>>

\* A deliverNext works on the order.
Working(o) == fetching[o] > 0 \/ sending[o] > 0

IsPending(summary) == summary \in {"away", "present"}

\* A failure leaves the last list.
SetSellerFiles(got) ==
    IF got[1] = "list"
      THEN /\ sellerFiles' = got[2]
           /\ passed' = passed \cup {o \in Orders : Working(o) /\ ~IsPending(got[2][o])}
      ELSE UNCHANGED <<sellerFiles, passed>>

\* The poll of the files screen, one request at a time.
PollSellerFiles ==
    /\ answer = <<>>
    /\ answer' = ListOrdersForSeller
    /\ UNCHANGED <<world, stuckBuyers, loading, sellerFiles, queue, streams, history>>

ShowPolledFiles ==
    /\ answer # <<>>
    /\ SetSellerFiles(answer)
    /\ answer' = <<>>
    /\ UNCHANGED <<world, stuckBuyers, loading, watched, inFlight, fetching, sending, streams,
                   history>>

\* loadSellerFiles, when the seller comes to the files screen or has created a link: it
\* does not look at the poll, and the later answer is shown, be it the older one.
LoadSellerFiles ==
    /\ loading = <<>>
    /\ Disrupt
    /\ loading' = ListOrdersForSeller
    /\ UNCHANGED <<world, stuckBuyers, answer, sellerFiles, queue, streams, disturbed>>

ShowLoadedFiles ==
    /\ loading # <<>>
    /\ SetSellerFiles(loading)
    /\ loading' = <<>>
    /\ UNCHANGED <<world, stuckBuyers, answer, watched, inFlight, fetching, sending, streams,
                   history>>

-----------------------------------------------------------------------------
(* The queue. *)

IsPurchasePendingDelivery(o) == IsPending(sellerFiles[o])

\* The tracking of deliverNext: an order that was delivered is no longer watched.
RefreshProgress ==
    [o \in Orders |-> IF sellerFiles[o] \in {"absent", "delivered"} THEN "no"
                      ELSE watched[o]]

\* The smallest id, as a set of at most one.
First(ids) == {o \in ids : \A q \in ids : o <= q}

\* Mutant of SelectNextPurchaseToDeliver: stuck buyers are not passed over.
MutSelectNextPurchaseToDeliver ==
    IF inFlight # 0 /\ IsPurchasePendingDelivery(inFlight) THEN {}
    ELSE First({o \in Drafts : sellerFiles[o] = "present"})

\* The next purchase, as a set of at most one.
SelectNextPurchaseToDeliver ==
    LET deliverable == {o \in Drafts : sellerFiles[o] = "present"}
        fresh       == {o \in deliverable : RefreshProgress[o] # "stuck"}
    IN  IF inFlight # 0 /\ IsPurchasePendingDelivery(inFlight) THEN {}
        ELSE First(IF fresh # {} THEN fresh ELSE deliverable)

\* deliverNext up to its request for the order.
DeliverNext ==
    \E o \in SelectNextPurchaseToDeliver :
        /\ watched' = [RefreshProgress EXCEPT ![o] = IF @ = "no" THEN "watched" ELSE @]
        /\ inFlight' = o
        /\ fetching' = [fetching EXCEPT ![o] = @ + 1]
        /\ UNCHANGED <<world, stuckBuyers, lists, sending, passed, streams, history>>

\* A step of a deliverNext ends.
EndFetch(o) == fetching[o] > 0 /\ fetching' = [fetching EXCEPT ![o] = @ - 1]
EndSend(o) == sending[o] > 0 /\ sending' = [sending EXCEPT ![o] = @ - 1]

\* Its `finally` frees the slot, if it is still this order's, be it that of a later
\* deliverNext on it.
FreeSlot(o) ==
    /\ inFlight' = IF inFlight = o THEN 0 ELSE inFlight
    /\ passed' = passed \ (IF fetching'[o] + sending'[o] = 0 THEN {o} ELSE {})

\* The order was fetched: a delivered one is left alone.
FetchOrder(o) ==
    /\ EndFetch(o)
    /\ IF o \in delivered
         THEN UNCHANGED sending /\ FreeSlot(o)
         ELSE /\ sending' = [sending EXCEPT ![o] = @ + 1]
              /\ UNCHANGED <<inFlight, passed>>
    /\ UNCHANGED <<world, stuckBuyers, lists, watched, streams, history>>

\* maybeSendFileOverNym: one stream at a time for an order.
MaybeSendFileOverNym(o) == streams' = streams \cup {o}

\* Mutant of OnReleaseSellerKey: the stream starts although the release was refused.
MutOnReleaseSellerKey(o) ==
    /\ status[o] = "paid" /\ o \notin released
    /\ MaybeSendFileOverNym(o)
    /\ UNCHANGED released

\* onReleaseSellerKey for an order that is not released: the key is released and sent,
\* and the stream started.
OnReleaseSellerKey(o) ==
    /\ status[o] = "paid" /\ o \notin released
    /\ released' = released \cup {o}
    /\ MaybeSendFileOverNym(o)

\* onResendKeyOverNym for one that is.
OnResendKeyOverNym(o) ==
    /\ o \in released
    /\ MaybeSendFileOverNym(o)
    /\ UNCHANGED released

SendToBuyer(o) ==
    /\ EndSend(o) /\ UNCHANGED fetching
    /\ OnReleaseSellerKey(o) \/ OnResendKeyOverNym(o)
    /\ FreeSlot(o)
    /\ UNCHANGED <<status, delivered, present, stuckBuyers, lists, watched, history>>

\* Mutant of DeliverNextFails: no `finally`.
MutDeliverNextFails(o) ==
    /\ \/ EndFetch(o) /\ UNCHANGED sending
       \/ EndSend(o) /\ UNCHANGED fetching
    /\ Disrupt
    /\ disturbed' = disturbed \cup {o}
    /\ UNCHANGED <<world, stuckBuyers, lists, watched, inFlight, passed, streams>>

\* A request or a send fails: the next tick tries again.  The key may be released.
DeliverNextFails(o) ==
    /\ \/ EndFetch(o) /\ UNCHANGED <<sending, released>>
       \/ EndSend(o) /\ UNCHANGED fetching /\ released' \in {released, released \cup {o}}
    /\ Disrupt
    /\ disturbed' = disturbed \cup {o}
    /\ FreeSlot(o)
    /\ UNCHANGED <<status, delivered, present, stuckBuyers, lists, watched, streams>>

\* DELIVERY_STUCK_DEMOTE_MS have passed since the order was first picked.
Demote(o) ==
    /\ watched[o] = "watched"
    /\ watched' = [watched EXCEPT ![o] = "stuck"]
    /\ UNCHANGED <<world, stuckBuyers, lists, inFlight, fetching, sending, passed, streams,
                   history>>

\* The file has arrived, and the buyer's page acknowledges it.
MarkTransferDelivered(o) ==
    /\ o \in streams
    /\ o \in present \ stuckBuyers
    /\ streams' = streams \ {o}
    /\ delivered' = delivered \cup {o}
    /\ UNCHANGED <<status, released, present, stuckBuyers, lists, queue, history>>

\* A heartbeat or a claim that was on its way builds the session afresh.  The buyer's page
\* has the file and takes no other, unless it is loaded again.
TakeBack(o) ==
    /\ o \in delivered
    /\ Disrupt
    /\ disturbed' = disturbed \cup {o}
    /\ delivered' = delivered \ {o}
    /\ stuckBuyers' \in {stuckBuyers, stuckBuyers \cup {o}}
    /\ UNCHANGED <<status, released, present, lists, queue, streams>>

\* No acknowledgement in time: always so if the buyer is stuck or away.
SendFileFails(o) ==
    /\ o \in streams
    /\ IF o \in present \ stuckBuyers
         THEN Disrupt /\ disturbed' = disturbed \cup {o}
         ELSE UNCHANGED history
    /\ streams' = streams \ {o}
    /\ UNCHANGED <<world, stuckBuyers, lists, queue>>

\* The seller reloads the page: only the drafts and the ciphertexts survive.
Reload ==
    /\ Disrupt
    /\ answer' = <<>> /\ loading' = <<>>
    /\ sellerFiles' = Unseen
    /\ watched' = [o \in Orders |-> "no"]
    /\ inFlight' = 0
    /\ fetching' = NoRun /\ sending' = NoRun /\ passed' = {}
    /\ streams' = {}
    /\ UNCHANGED <<world, stuckBuyers, disturbed>>

Next ==
    \/ \E o \in Orders :
         \/ MakeOrderDir(o) \/ WriteOrder(o) \/ WriteOrderFails(o) \/ MarkOrderPaid(o)
         \/ BuyerComes(o) \/ BuyerLeaves(o)
         \/ FetchOrder(o) \/ SendToBuyer(o) \/ DeliverNextFails(o) \/ Demote(o)
         \/ MarkTransferDelivered(o) \/ TakeBack(o) \/ SendFileFails(o)
    \/ PollSellerFiles \/ ShowPolledFiles \/ LoadSellerFiles \/ ShowLoadedFiles
    \/ DeliverNext
    \/ Reload

\* Polls and timers repeat, requests are served and streams end.
Fairness ==
    /\ WF_vars(PollSellerFiles) /\ WF_vars(ShowPolledFiles) /\ WF_vars(DeliverNext)
    /\ \A o \in Orders :
         /\ WF_vars(WriteOrder(o))
         /\ WF_vars(FetchOrder(o)) /\ WF_vars(SendToBuyer(o)) /\ WF_vars(Demote(o))
         /\ WF_vars(MarkTransferDelivered(o)) /\ WF_vars(SendFileFails(o))

Spec == Init /\ [][Next]_vars

FairSpec == Spec /\ Fairness

-----------------------------------------------------------------------------
(* Properties. *)

\* "at most one in flight across every product" (product-delivery-queue.ts:8), as far as
\* deliverNext goes: two of them, on one order or on two, overlap only if a list that came
\* meanwhile no longer showed such an order as pending (it was delivered, or the list was
\* older than the one before), and the slot is never held by an order that none of them
\* works on.
OneSendAtATime ==
    /\ \A o, q \in Orders :
         o # q /\ Working(o) /\ Working(q) => o \in passed \/ q \in passed
    /\ \A o \in Orders : fetching[o] + sending[o] > 1 => o \in passed
    /\ inFlight # 0 => Working(inFlight)

\* Directories without a record, which no code removes.
Blocked == \E o \in Orders : status[o] = "orphan"

\* A paid buyer who stays and whose stream would get through is served, however many
\* buyers before it are stuck, and in spite of reloads of the seller's page.  A stream or
\* a send that fails may end this: a buyer who was found stuck once can be passed over for
\* ever by a stuck one with a smaller order id.
EveryBuyerIsServed ==
    \A o \in Orders :
        o \in (Drafts \cap present) \ stuckBuyers /\ status[o] = "paid"
        ~> o \in delivered \cup disturbed \/ Blocked

\* A paid order comes to be listed on the seller's page.
PaidIsListed ==
    \A o \in Orders :
        status[o] = "paid" ~> sellerFiles[o] \in {"away", "present", "delivered"}
=============================================================================
