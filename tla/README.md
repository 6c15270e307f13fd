# Paid Private File: a verification project

TLA+ models of the paid-private-file service, the TLC runs that check them and
the theorems TLAPS proves about them.  Every definition is translated from the
code under `src/` (`PROJECT.json`, "map", says from which lines); documents and
comments are quoted only as what the code is expected to do.

Contents: [the system](#the-system) · [the modules](#the-modules) ·
[the runs](#the-runs) · [fairness](#fairness) · [the proofs](#the-proofs) ·
[findings](#findings) · [not modelled](#not-modelled) · [plan](#plan)

## The system

A seller encrypts a file in the browser and creates a *paid link*.  A buyer opens
the link, pays in Zcash (or CipherPay, or a development button), and gets the
file key, wrapped for the buyer's public key, and the encrypted file.  The
Next.js server keeps one JSON file per order, behind one promise-chain lock per
order.  In the default deployment the seller's page sends key and file straight to the
buyer's page over the Nym mixnet, and the server learns of the delivery from the
buyer's acknowledgement only.

| part | state it keeps | operations | interacts with |
|---|---|---|---|
| order store (`lib/server/transfer-store.ts`) | order record: status, payment, Nym session, release, claims; invoice index | create, payment intent, mark paid (three rails), sighting, register session, challenge, release, claim, delivered | webhooks, both pages, deposit bindings, Nym client |
| webhooks (`app/api/webhooks/{zcash,cipherpay}`) | none | accept or ignore a report, then call the store | watcher, scanner, CipherPay |
| deposit bindings and pool (`deposit-bindings.ts`, `deposit-pool.ts`) | bindings, diversifier marks, pool | next index, reconcile mark, bind, assign, register addresses, look up a deposit | order store, scanner |
| locks (`withOrderLock` and its copies) | a promise per lock, in a map or a variable | call, start, finish, settle | every store |
| key and file delivery (panel) | buyer's page, seller's page, session on the server | heartbeat, poll, claim, receive key, open, acknowledge; re-send loop | order store, mixnet |
| file transfer (`lib/nym-file-transfer.ts`) | sender and receiver of one order | offer, chunks, done, retransmit, acknowledge, timeouts, abort | panel, mixnet |
| product store (`product-store.ts`) | product: supply, sold units, status; the buyer's product page | create, list, record a sale, spawn an order; poll and show a listing, buy | order store, both pages |
| seller store (`seller-store.ts`) | profiles, handle index, access keys, sessions; no lock | create, update, log in, rotate key, register viewing key | scanner, seller's page |
| delivery queue (`product-delivery-queue.ts`, `deliverNext` of the panel) | the list last shown, the slot, who is stuck | poll, select the next purchase, release or re-send, free the slot | seller's page, order store |
| watcher and pool filler (`scripts/*.mjs`) | sightings reported so far, the pass it is in | fill the pool; fetch the watchlist, ask the wallet, report | pool, zcash webhook, wallet |
| rate limit (`rate-limit.ts`) | counters of a fixed window | check, prune | webhooks and other routes |
| sessions, request bodies, errors, client IP | none | sign, parse, format | API routes |
| browser cryptography, pages, copy | none beyond the above | encrypt, wrap, render | panel |
| scanner, CipherPay, Nym mixnet | outside `src/` | derive and scan; invoice; carry messages | modelled from the use the code makes of them |

What is hard about it, and hard to test:

* **Interleavings.** The webhook routes decide on an order they read before they
  take its lock; a payment intent awaits the scanner and four file writes while
  other intents run; profiles are read and written back with no lock at all; three detectors of the
  seller's page may release the same order; a heartbeat may overtake the acknowledgement.
* **Crashes.** Files are replaced atomically one by one, but an intent writes up to
  five of them, a claim sends a message before its write, a purchase reserves a unit before its
  order exists, and a record is a directory before it is a file.
* **The network.** Webhooks are repeated and late, mixnet packets are lost,
  repeated and reordered, either page may be reloaded or change its address.
* **Timeouts.** A stream is abandoned 120 seconds after it started, whatever the
  size of the file; acknowledgements are tried eight times.
* **Liveness.** Delivery is made of loops on two pages that never talk except
  through lossy channels; one queue serves all buyers of a seller; the watcher's
  reports meet a rate limit.

What makes each part correct: the order is a sale to one buyer, paid for a cause on its
record, and never goes back (`TransferOrder`); every address leads back to its
order (`DepositBindings`); a lock excludes and starves nobody (`AsyncLock`); the key is with nobody
before its release, "delivered" is true, and the file arrives (`DeliveryHandshake`); an acknowledged
transfer is a whole file (`NymFileTransfer`); no unit is sold twice and sold out is shown when, and
only when, it is true (`ProductStore`); requests that do not overlap lose nothing, although no lock
orders them (`SellerStore`); a buyer who can be served is (`DeliveryQueue`); an order is
paid with enough deep money, and a deposit of the price settles it (`Settlement`).
`PROJECT.json` lists the hazards one by one, at their lines, with the
properties that watch them.

## The modules

### TransferOrder, implementing PaidSale

One order, as seven server handlers and two webhook routes write it.  The
variables `status`, `payment`, `nymSession`, `release` and `claims` are fields of the order's JSON
file; `invoiceIndexed` is the invoice index; `deposits` and `invoiceEvents` are requests that
passed a webhook's checks and wait for the lock; `challenges` are the
buyer keys the seller's page has read; `handler` is what the holder of the lock still has to do.

A handler that writes once is one action: it holds the lock, and the file is
replaced by a rename.  Two handlers are split, because something else that
lasts happens between their steps: `CreatePaymentIntent` / `WriteInvoiceIndex` and
`SendClaim` / `EnvelopeTaken` / `WriteSentClaim` (or `FailSentClaim`).  `Crash` may come in
between.  `AcceptDepositReport` and `ApplyDepositReport` are the two halves of the
zcash webhook, before and under the lock.

The CipherPay webhook maps a paid event to an order by its reference, or by the invoice index when it has none, and
compares its invoice only when it carries one.  It does not ask for the order's rail, so an event that names an order pays it, whatever
the rail, and a deposit may be recorded later on an order that was paid so.  `payment.raw` tells which of the two paid (the code replaces what the rail
answered at the start by the event), and `SettlementHasCause` is stated with it: not "an on-chain order is paid by a deposit", which
the code does not give, but "by a deep deposit of the price, unless the record keeps an event that paid it".

`PaidSale` says what all of this promises: a sale is reserved for one
buyer, settled, released to that buyer, and collected, in this order and once.  `Stage` in `TransferOrder`
is the refinement mapping.

### DepositBindings

`createPaymentIntentForOrder` from its first await to its write, for several orders at once: take an index, let the
scanner derive an address, reconcile the mark, bind, write.  `intent[o]` is the local state of the request
on order `o`; each action is the code between two awaits, or one
read-modify-write under the lock of its file (see `AsyncLock`).  The pool is the other
source of addresses, for sellers without a viewing key.  The scanner is external: it answers with the next valid
index at or above the one it is asked for, which is what `deriveAddress` relies on.
`Interrupt` ends one request, or all of them (a crash), at any await.

### AsyncLock, implementing FifoLock

`withOrderLock` and `withProductLock` (a map of tails) and `withBindingsLock`,
`withDiversifierLock` and `withPoolLock` (a variable each).  A call chains its queue promise to the
tail, waits for the previous one, runs, and in `finally` resolves its promise and
removes its map entry if it is still there.  Settling of `previous.then(() => current)` is an action of its own, because
anything may run between a promise's resolution and its waiters.  Under the lock a callback reads the record it guards
(`ReadRecord`) and writes its changed copy later (`WriteRecord`); a record stands for the set of calls whose changes it has.
`FifoLock` is the promise: one holder, first come first served, and every change is made to the record as it
is at that moment (`Update`).  The other modules use that promise when they make a locked
read-modify-write one action; `SellerStore` has no lock and cannot.

### DeliveryHandshake, implementing PaidDelivery

The two pages and the session on the server, from the moment the order is
paid.  `buyer` and `seller` are the refs of the two pages, `requests` and
`replies` what is between page and server, `mixnet` the messages between the pages.

*Release.*  `onReleaseSellerKey` has three callers, the `Detectors`: the files screen (its
scan of single-use orders, or the queue of purchases), the effect on `createdOrder` of the page that made the
link, and the button of the manage screen.  Each reads the challenge (`GetReleaseChallenge`), and
later posts the release and sends the key (`PostRelease`) or fails in between (`ReleaseFails`); the
server takes the first.  `created`, `scanned`, `auto`, `busy` and `code` are the refs and states
that keep the callers apart.  "manage" stands for every screen but the files: there the loops
of the files screen are stopped.

*Delivery.*  After the release the loops re-send the key and stream the file until they read
that the session is delivered.  A transfer of the file is one stream that completes or not; its
packets are `NymFileTransfer`.  `product` is true for a purchase of a product, whose
ciphertext the seller keeps, and false for a single-use order, whose ciphertext is deleted when the
transfer is acknowledged; `ciphertext` says where the seller's copy is, as IndexedDB is best effort.
Once a page has the file it keeps having it (`received`, the ref that is never reset while the page lives).  A file that cannot be decrypted
(`OpenReassembledCiphertext`, one of the disruptions) was acknowledged to the transfer layer, so the page takes no other stream
until it is loaded again: `Stranded` names it.

`PaidDelivery` is the promise, without pages, requests and streams: the key is outside the seller's hands only after the
release was recorded, the file is opened only while the key is outside, and "delivered" is recorded only after the file was opened.
The key may be lost and sent again, and "delivered" may be taken back (see [findings](#findings)); the rest never is.  `KeyIsOut` is
the refinement mapping: the key is outside while it is in the mixnet or at the buyer's page, or the seller's page works as if it was.

### NymFileTransfer

The sender and the receiver of `lib/nym-file-transfer.ts`, and the functions of the panel that start and end them.
The receiver keeps chunks in any order and across streams; the sender answers a request with a window of
chunks and a done packet.  Things the code does that are easy to lose in a model, and are here: the
timeout does not stop the sender at once (the aborted stream still sends a done packet, and the
retransmit loop ends its window); the receiver needs the sender's address, from an offer or
a done packet, before it can ask or acknowledge; completeness is checked before the hash is awaited
and nothing is checked after it; a settled receiver answers nothing.
Its specification is `TransferSpec`: the names every module has carry a prefix here, so that `DeliveryProofs` can extend it together
with `DeliveryHandshake`.

### ProductStore, implementing LimitedSale

Products with a supply, the purchases of several buyers, and the product page of each.  A
purchase is six steps (`SpawnOrderFromProduct`, `ReadProductForSale`, `RecordProductSale`, `MakeOrderDir`,
`CreateTransferOrder`, `PostPurchase`): the unit is reserved under the product's lock, the order is made without it, and the answer comes
after the order is written.  `PurchaseFails` and `Crash` come between any two, so an order may be written whose buyer never hears of it.  A page asks for the listing when it opens, on
a poll and after a 409, one request at a time (`fetch`), and shows an answer that may be older than
what it learnt since.  `lost` is a history of units that a failure left without an order.

`LimitedSale` is the promise: a product is offered once, units are taken one by one up to the supply, and each is
handed to one order at most.

### SellerStore

Profiles and the handle index, with several requests at once and no lock.  `request[r]` is a
request's copy of the profile and its next step; each action is the code between two
awaits, so `isDisplayNameAvailable` lists the profiles and then reads one at a time, and
`registerSellerUfvk` waits for the scanner with its copy in hand.  `told` is what the seller's page was last
answered.  `overlaps` and `disturbed` are histories: whose requests were served at
the same time, and whose answer was lost.  Names stand for their normalised form, keys are numbered.

### DeliveryQueue

The files screen of one seller.  Two fetches set the list it shows, and nothing orders them: the poll (`PollSellerFiles`, `ShowPolledFiles`),
one request at a time, and `loadSellerFiles` when the seller comes to the screen (`LoadSellerFiles`, `ShowLoadedFiles`), so an older
list may replace a newer one.  `ListOrdersForSeller` is the server's answer to both,
and `deliverNext` is `DeliverNext`, `FetchOrder`, `SendToBuyer` (or `DeliverNextFails`) on the list last shown, with
the slot (`inFlight`) freed at its end while the stream goes on.  `fetching` and `sending` count the runs of `deliverNext` on an
order, as an old list may start a second one.  `TakeBack` is the heartbeat or claim that undoes a delivery; `passed` and `disturbed` are histories.  Orders appear as the server makes them,
first a directory and then a record.  The page cannot tell a slow buyer from a stuck one
(`normalizeDeliveryState` drops the received bytes), so `Demote` may take any purchase that is watched.

### Settlement

The pool path of a deposit, composed of the filler, the intent that assigns an address, the wallet's view of the
chain, the watcher and the webhook behind its rate limit.  `seen` is the watcher's memory: a report that
was answered, with any status, stays in it, and only one whose fetch throws is forgotten.
Assumptions, all in the module: the webhook is one step (its interleavings are
`TransferOrder`'s); blocks come more slowly than windows pass (75 s and 60 s: `Block` waits for an empty
bucket, which favours the webhook); deposits are neither spent nor reorganised away.

### Comments, names and mutants

Actions and fields keep the names of the source.  Definitions called `Mut...` stand before the definition they
change: each is a plausible bug, and none is used by a specification.  `PROJECT.json` lists, for
every property, the mutant that breaks it, so every property is known to be able to fail.

## The runs

| run | what it checks | bounds | states |
|---|---|---|---|
| `order` | the order's safety, that it implements `PaidSale`, and `PaidIsClaimable` | 2 buyers, 3 rails, 2 deposits × 2 amounts × 3 depths, 1 key wrap, 2 claim modes, 2 claims, 2 reports or events in flight | 305 810 |
| `deposits` | addresses and bindings, and `KeyedIntentSucceeds` | 3 orders of 2 sellers, 1 viewing key, 1 pool address, 2 attempts, 1 interruption | 228 842 |
| `async_lock` | exclusion, the map entry, first come first served, no lost update, no starvation | 2 order locks, 1 file lock, 4 calls | 328 185 |
| `handshake` | that it implements `PaidDelivery` (the key follows its release, "delivered" is true); the seller is told | 2 addresses, 2 attempts, 1 disruption, 1 reload | 470 262 |
| `file_transfer` | acknowledgements stand for whole files; the file arrives | 2 chunks, windows of 1, 2 disruptions | 301 685 |
| `product_store` | units, sold out, and that it implements `LimitedSale` | 1 product of up to 2 units, 2 orders, 2 buyers, 1 failure | 198 955 |
| `seller_store` | names, handles, and that answers hold | 2 sellers, 2 handles, 1 name, 1 viewing key, 2 requests at once, 4 in all, 1 crash, with symmetry | 265 582 |
| `delivery_queue` | one send at a time, but for what a list explains; buyers are served | 2 purchases, 1 disruption | 438 085 |
| `settlement` | paid is covered; nothing is undone; a deposit settles | 2 orders, 2 transactions × 2 amounts, 2 addresses in batches of 1, depth 1, limit 2, 1 disruption | 142 925 |
| `deposit_crash`, `listing`, `settlement_limit` | one expectation each that the code does not meet, see [findings](#findings) | as `deposits`; as `delivery_queue`; batch of 2, depth 2, limit 1, no disruption | until violated |

Why the bounds are enough for what they are about:

* `order`: a conflict needs two of something (buyers on one link, deposits on one
  order), and the records do not tell a third from a second.  `MCAmounts` and
  `MCConfirmations` are the values around the thresholds.
* `deposits`: two orders of one seller and one of another on the same
  key make collisions within a seller and between sellers; `MCValidIndexes` has gaps, so an answer skips indexes that another request has taken; two
  attempts, so one collision is survived and two exhaust the request.
* `async_lock`: four calls are two waiters behind an order whose holder waits for
  a file, or two orders whose holders want the file at once.  The theorems have no bound.
* `handshake`: one disruption anywhere (a loss, a failed release, a broken stream, a file that cannot be decrypted, a reload of either
  page, a new address, a closed screen).  `MaxAckAttempts` is one more than the disruptions, as eight
  attempts exceed the losses the code is prepared for.
* `file_transfer`: with windows of one chunk a request repairs less than the file, and two chunks put the gap
  before or behind what came.  Copies of one packet are one element of `net`: a receiver that keeps sets of chunks cannot tell two copies at once from
  one that arrives twice, which `Exchange` allows.  `MaxHashes` bounds computations that a receiver starts for repeated packets; more than two do nothing new.
* `product_store`: two buyers race for the only unit, or take two in turn; one failure makes a unit vanish or repeats a request.
* `seller_store`: four requests are two creations and one more of each shop, or a creation and three of
  one shop; any two of them overlap.  One name and the handles, to which blank names fall back, can collide.
* `delivery_queue`: a stuck buyer before a good one, and the other way round.  One disruption is one second fetch, which is
  enough for one old list, or a delivery taken back, a failure, a reload or a buyer who leaves.
* `settlement`: two orders whose deposits compete for the webhook, a top-up or a replacement, one lost report.
  Here `Limit` is the number of addresses that are watched, so a pass may fill the bucket, and reports are refused only when a lost report or a restart repeats some; `settlement_limit` has one less.

Deadlock is checked in `order`, `deposits`, `file_transfer`, `delivery_queue` and `settlement`.  The others may really stop: `async_lock`
when all calls are made and done, `handshake` when the file is open, the
seller told and nobody sends any more, `product_store` when everything is sold, `seller_store` when no
shop exists and the bound on requests is reached.

## Fairness

* `TransferOrder`: only what the pages repeat until it is done.  The payer's heartbeat registers the session every few seconds until it
  reads that the file was delivered (panel `:3504-3610`), and the seller's queue of purchases asks for the challenge and releases at every tick until the
  order is released (`:3396-3426`).  A request waits in a first-come first-served lock (`AsyncLock`), so one that is possible again and again is
  served: strong fairness.  A handler that holds the lock ends, as the Nym client's send has a timer.
  Nothing is assumed about what is not repeated: nobody is obliged to open a payment session or to pay; the automatic claim runs once
  (`:3617-3641`) and may be refused, fail at the send or be lost in a crash; the Nym client may fail every time.  Hence `PaidIsClaimable` and not "a paid
  order is claimed": the release and the payer's session come to be there, whoever registered one before, and from then on no claim of the payer is refused.
* `DepositBindings`: an awaited step is answered, or counted as a failure; the buyer asks again until the link
  shows an address.
* `AsyncLock`: callbacks end, and the event loop runs what is ready.
* `DeliveryHandshake`: both pages stay open, what is not lost arrives, and disruptions are
  bounded; nothing else is assumed about them.  Nothing is assumed about the manage screen either: its
  button may never be pressed, and its loop gives up.
* `ProductStore`: polls repeat, and requests end, with an answer or without.
* `DeliveryQueue`: polls and timers repeat, requests are served, streams end.  Nobody has to buy, to pay or to stay.
* `Settlement`: the watcher runs, the chain grows and time passes.  Nobody has to pay, and the pool need not be filled.
* `NymFileTransfer`: the re-send loop starts streams until one is acknowledged, timers fire, packets that are not lost arrive.
  A stream may time out after any number of chunks, every time.  Requests for chunks get strong fairness: one that
  waits in the mixnet reaches some stream, though it may miss many.  A request that arrives between two streams is
  dropped, and counted as a disruption; without that bound every request could arrive at the wrong moment for ever.
  The gap timer is fair only in a silence, because every packet winds it up again.

## The proofs

Each theorem holds for all values of the constants that satisfy the named
assumptions of the module (`ConstantsAssumption` and `NoneAssumption`, `LockAssumption`,
`DepositAssumption`, `HandshakeAssumption`, `TransferAssumption`, `ProductAssumption`, `SellerAssumption`, `NothingAssumption`,
`QueueAssumption`, `SettlementAssumption`): naturals are naturals, null is none of the other values, and names of different kinds differ.

* `TransferOrderProofs`: type correctness; all invariants of the `order` run; its action property; and that `TransferOrder` implements
  `PaidSale` (`OrderImplementsSale`).  The invariants are not inductive as they stand: an action applies knowledge gained
  earlier, before the lock or in an earlier step.  `Inv` adds what was learnt and is still true: a waiting report
  is for an on-chain payment and pays the price, a key the
  seller read is the payer's, and a handler in progress still has what it checked (`ReportsAccepted`,
  `ChallengeIsPayers`, `HandlerHolds`).  A waiting event has nothing of the kind, because the route checks nothing that lasts.  Proved and not run: `StatusFollowsPayment`, `SessionFollowsPayment`,
  `StatusNeverRegresses` and `ReleaseIsFinal`.
* `DepositBindingsProofs`: type correctness and all safety properties of the `deposits` run, with any number of
  orders, keys and failures.  A request works for several steps on what it has read, so `Inv` says what of that still
  holds (`RequestOK`: the mark of a request about to bind has passed its index), and follows the address of an order from the
  step that binds it to the order's record, naming the requests that an interruption leaves bound and not written (`OrderOK`).
  Proved and not run: `MarksNeverLowered` and `BindingsAreFinal`.
* `AsyncLockProofs`: mutual exclusion, the life of a map entry, and that the chain
  implements `FifoLock`, lost updates included, for any number of locks and calls and with nesting (`MutualExclusion` is proved and not run: the refinement has it).  `Inv` describes the chain: a call awaits the latest earlier call of its
  lock, or all earlier ones have finished; a settled promise means that every call up to its own has finished; the tail is the latest call.  With exclusion, the copy
  of a running call differs from the file in that call's own change at most (`CopyInv`), so its write is an `Update`.
* `DeliveryProofs`: the delivery on both levels.  Of `DeliveryHandshake`: type correctness; `DeliveredMeansOpened`, where `AckInv` says that an
  acknowledgement, wherever it is, means an opened file, and `KeyFollowsRelease`, over all three ways of releasing (both proved and not run:
  the refinement has them); and that `DeliveryHandshake` implements `PaidDelivery` (`HandshakeImplementsDelivery`), step by step: a recorded release is
  `Release`, an answer of the server `Confirm` or `TakeBack`, and what the pages do is `Open`, `MoveKey` or a stutter.  Of
  `NymFileTransfer`: type correctness and `AckMeansAssembled`, for files and windows of any size.  That
  invariant follows an acknowledgement back to the chunks: complete set, hash in progress (of a current or an aborted receiver), packet, acknowledged
  sender.
* `ProductStoreProofs`: all safety properties of the `product_store` run and that `ProductStore` implements `LimitedSale`.  Reservation and order
  are apart, so `Inv` says what a request has in between: under the lock, the next number of the product; after it, a unit that
  no order and no other request has (`RequestOK`, `Apart`); and a page has nothing to show as sold out that is not (`PageOK`), which
  stays true because no step gives a unit back.
* `SellerStoreProofs`: all properties of the `seller_store` run.  `Inv` compares a request's copy of the profile with the stored one: they differ in what the request
  changes and nowhere else, unless two requests of the seller overlapped (`CopyOK`); a shop that has
  the name a request will write overlapped it or is still to be read by it (`NameOK`).
* `DeliveryQueueProofs`: type correctness and `OneSendAtATime`.  A list is old when it is used, and an older one may come after a newer one, so all that `Inv`
  says of lists is that what they show as paid is paid (`ListsOK`).  Of the calls it says that an order that is worked on holds the slot and is shown as pending, and
  by one call only, unless a list that came meanwhile showed it otherwise (`SlotOK`, with the history `passed`).
* `SettlementProofs`: type correctness; `PaidIsCovered`; that no step undoes an assignment, a payment or the recorded transaction
  (`NothingIsUndone`); and, proved and not run, that a paid order was sent its price in transactions to its own
  address, whatever became of them since (`PaidWasSent`).
  A sighting is old when the webhook believes it, so `Inv` says what of it is still true: the deposits that are at least as deep as it
  says sum up to at least its amount (`WatcherInv`).  That lasts because every step maps the deposits that count one-to-one to deposits of the same amount
  that are no shallower (`DepositsGrow`, `CountedGrows`), and it becomes the same fact about the paid order (`PaidInv`).
  The amounts are summed by a fold.  The lemmas about it (`TotalDef` to `TotalInjection`) need induction over finite sets, and the library's induction
  theorem takes an operator; they use instead that inclusion is well-founded on the subsets of a finite set, so that a counterexample would have a
  smallest one (`MinimalSet`).
  `PaidIsCovered` is proved for `MinConfirmations # 0`.  The webhook admits a configuration of 0 (`webhooks/zcash/route.ts:186-194`); with it a
  transaction that has not been mined pays, and may expire afterwards.  `PaidWasSent` holds for 0 as well.

Only model-checked: the liveness properties (`PaidIsClaimable`, `KeyedIntentSucceeds`, `NoCallStarves`, `SellerIsTold`, `FileArrives`, `SoldOutIsShown`,
`EveryBuyerIsServed`, `DepositSettles`), since liveness under fairness is out of the prover's reach.  Every invariant and every other action property of
the passing runs is proved.

## Findings

Each is a run that TLC ends with a counterexample; `PROJECT.json` quotes the lines.

1. `deposit_crash`: after an interruption between the binding and the order's write, the repeated
   intent shows the buyer an address that is bound to nothing, and a deposit to it is never credited.
2. `listing`: a directory without a record, which a failed creation leaves for good, makes every poll of
   the seller's files fail: `listOrdersForSeller` looks for an error that `readOrder` has turned into another one.  Paid purchases are then
   not listed and not delivered.
3. `settlement_limit`: deposits to addresses of paid orders are reported again at every block, and before later
   addresses; when they use up the webhook's limit, the refused reports stay in `seen`, and a deep deposit of the price is never settled.

Seen while modelling, with no run of their own; the models behave this way, and no property says otherwise:

* A deep deposit is refused when another transaction was sighted first (`transfer-store.ts:878`); `DepositSettles` is about a single deposit.
* After a seller registers another viewing key, the watchlist pairs old addresses with the new key (`transfer-store.ts:517`).
* A paid event of the CipherPay webhook pays the order it names, whatever its rail; on an on-chain order that has no deposit yet, a later deep deposit is
  then recorded as well (`transfer-store.ts:815-846`, `:869-893`).
* An order whose invoice index entry was lost in a crash never gets one, because the repeated intent returns early (`transfer-store.ts:599`), and
  `findOrderIdByInvoice` (`:1542-1559`) reads only the index: an event that names no order is then ignored.
* The buyer's automatic claim runs once (panel `:3617-3641`); one that is refused or fails waits for a reload or a click.
* A file that cannot be decrypted leaves the page waiting until it is reloaded (panel `:2402-2406`; the fallback it calls is switched off).
* A heartbeat or claim applied after the acknowledgement takes "delivered" back (`transfer-store.ts:772`, `:1077`).
* A single-use ciphertext is deleted when the transfer is acknowledged, before the buyer has the key (panel `:2212`); a reload then loses the file.
* A receiver aborted while it hashes still acknowledges, and the file is handed to nobody (`nym-file-transfer.ts:817`).
* The files screen marks a single-use order as handled before its silent release has run and does not try again (panel `:3181`), though the comment there
  says that the next tick retries.
* A viewing-key registration writes back the profile it read before the scanner answered: a key rotation in between is undone (`seller-store.ts:365`).
* An older list of files may replace a newer one (panel `:877` beside `:941`), and the queue may then start a second send while one is going on.
* The slot of the queue is free as soon as the key is sent, so streams of two purchases overlap, which `product-delivery-queue.ts:8-10` means to avoid; and
  once all purchases are demoted, the smallest order id is tried again and again.
* A unit whose buyer never pays stays taken.  A product whose creation was not answered has no release draft, and can be sold all the same.

## Not modelled

* The HTTPS fallback for the file: the source has it switched off by a constant.
* The signature of CipherPay's events, which is checked only if a secret is configured, and events of other kinds than "paid", which change nothing.
* Bytes, packet encoding, pacing, progress, metrics, hashes as values, names, prices' wording, dates, and the download
  token of a claim with its expiry.
* The frames of the server-side Nym client: `TransferOrder` takes its three outcomes (sent, failed, failed after sending).
* Stateless parts: request parsing, signing, errors, client IP, copy and pages.
* The pruning of the rate limiter at 10 000 keys, and the limits of routes other than the zcash webhook, which only refuse a request.
* Cryptography: calls to WebCrypto and field arithmetic of 255 bits, with no state of their own.
* The routes that parse, check the rate limit and call one store operation.
* The scanner, the wallet and CipherPay are other programs; their answers are inputs.
* The chain beyond what a wallet shows of it: spent deposits, reorganisations.

## Plan

Done, in this order: `PaidSale`, `TransferOrder`; `DepositBindings`; `FifoLock`, `AsyncLock`; `PaidDelivery`, `DeliveryHandshake`;
`NymFileTransfer`; `LimitedSale`, `ProductStore`; `SellerStore`; `DeliveryQueue`; `Settlement`; each with its proofs.

Next:

1. Larger instances of `settlement`: a second disruption with a replaced transaction, and the scanner path beside the pool path.
2. `DeliveryQueue` over `ProductStore`'s purchases in one module, with the release draft that a lost answer does not leave.
3. A transfer of one file as a single step that succeeds or not, which `NymFileTransfer` implements and `DeliveryHandshake` uses: today
   the two agree by their comments.
4. An abstract payment (a deposit is sent, buried, credited once) that `Settlement` implements; its safety half is `NothingIsUndone` and `PaidIsCovered`.
