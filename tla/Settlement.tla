----------------------------- MODULE Settlement -----------------------------
(***************************************************************************)
(* From a deposit on the chain to a paid order, on the pool path: the      *)
(* filler that registers addresses, the payment intent that assigns one,   *)
(* the watcher (scripts/zallet-payment-watcher.mjs) that reports what its  *)
(* wallet sees, and the zcash webhook behind its rate limit.               *)
(*                                                                         *)
(* The watcher runs passes: it fetches the watchlist, asks the wallet      *)
(* about one address after the other, and reports each sighting it has not *)
(* reported yet.  `seen' is its memory, by address, transaction and        *)
(* confirmations.  A report that is answered, with whatever status, stays  *)
(* remembered; only one whose fetch throws is forgotten.                   *)
(*                                                                         *)
(* The wallet and the chain are external.  The webhook is one step here:   *)
(* TransferOrder has its interleavings, DepositBindings those of intents.  *)
(***************************************************************************)
EXTENDS Integers, FiniteSetsExt

CONSTANTS
    Orders, Txids, None,
    MaxAddresses,       \* addresses the wallet makes, in order (bound)
    Batch,              \* addresses of one run of the filler, POOL_BATCH
    Amounts, Price,     \* in zats; every order has one price
    MinConfirmations,
    MaxDepth,           \* stands for this depth and every larger one (bound)
    Limit,              \* reports the webhook takes in one window
    MaxDisruptions      \* failures of calls, programs and deposits (bound)

ASSUME SettlementAssumption ==
    /\ {MaxAddresses, Batch, Price, MinConfirmations, MaxDepth, Limit, MaxDisruptions} \subseteq Nat
    /\ Amounts \subseteq Nat
    /\ MinConfirmations <= MaxDepth
    /\ None \notin Txids \cup Nat
    /\ Orders \cap {"unmade", "lost", "available"} = {}

Addresses == 1..MaxAddresses

VARIABLES
    pool,         \* an address is unmade, lost, available or an order's
    order,        \* the orders: what they cost, show, and were paid with
    deposits,     \* the transactions to pool addresses, with their depth
    count,        \* the webhook's bucket: reports in the current window
    seen,         \* the watcher's memory of reported sightings
    todo,         \* the addresses its pass has not come to yet
    sighting,     \* the sighting it is reporting, or None
    disruptions

vars == <<pool, order, deposits, count, seen, todo, sighting, disruptions>>

Gone == -1        \* the depth of a transaction that expired in the mempool
Deposits == [txid : Txids, to : Addresses, amount : Amounts, depth : {Gone} \cup 0..MaxDepth]
\* What parseDepositReport lets through.
Sightings == [address : Addresses, txid : Txids, amount : Nat, confirmations : 0..MaxDepth]

Init ==
    /\ pool = [a \in Addresses |-> "unmade"]
    /\ order = [o \in Orders |-> [status |-> "listed", address |-> None, onchain |-> None]]
    /\ deposits = {}
    /\ count = 0
    /\ seen = {} /\ todo = {} /\ sighting = None
    /\ disruptions = 0

Disrupt == disruptions < MaxDisruptions /\ disruptions' = disruptions + 1

-----------------------------------------------------------------------------
(* The pool and the orders *)

\* registerDepositAddresses: addresses the pool knows already are skipped.
RegisterDepositAddresses(batch) ==
    pool' = [a \in Addresses |-> IF a \in batch /\ pool[a] = "unmade"
                                   THEN "available" ELSE pool[a]]

\* POST /api/transfers/payments/zcash/addresses, or a request that fails.
PostAddresses(batch) ==
    \/ RegisterDepositAddresses(batch) /\ UNCHANGED disruptions
    \/ /\ pool' = [a \in Addresses |-> IF a \in batch THEN "lost" ELSE pool[a]]
       /\ Disrupt

\* A run of the filler: the wallet makes a batch of addresses, one request
\* registers them all.  The wallet never makes them again when that fails.
FillPool ==
    LET unmade == {a \in Addresses : pool[a] = "unmade"}
    IN /\ unmade # {}
       /\ PostAddresses({a \in unmade : a < Min(unmade) + Batch})
       /\ UNCHANGED <<order, deposits, count, seen, todo, sighting>>

\* assignDepositAddress: the first free address of the pool.
AssignDepositAddress(o, a) ==
    /\ pool[a] = "available"
    /\ \A b \in Addresses : b < a => pool[b] # "available"
    /\ pool' = [pool EXCEPT ![a] = o]

\* The first intent of an order.
CreatePaymentIntent(o) ==
    /\ order[o].status = "listed"
    /\ \E a \in Addresses :
         /\ AssignDepositAddress(o, a)
         /\ order' = [order EXCEPT ![o].status = "pending", ![o].address = a]
    /\ UNCHANGED <<deposits, count, seen, todo, sighting, disruptions>>

\* listAssignedDepositAddresses: an address stays assigned once its order is paid.
ListAssignedDepositAddresses == {a \in Addresses : pool[a] \in Orders}

\* findOrderIdByDepositAddress: addresses are not reused, whatever became of the order.
FindOrderIdByDepositAddress(a) == pool[a]

-----------------------------------------------------------------------------
(* The chain, as the wallet sees it *)

\* A buyer pays any amount to the address the order shows, perhaps again.
Pay(o, t, amount) ==
    /\ order[o].address # None
    /\ \A d \in deposits : d.txid # t
    /\ deposits' = deposits \cup {[txid |-> t, to |-> order[o].address,
                                   amount |-> amount, depth |-> 0]}
    /\ UNCHANGED <<pool, order, count, seen, todo, sighting, disruptions>>

\* A block takes up what waits and buries the rest one deeper.  Blocks (75 s)
\* come more slowly than windows pass (60 s): this favours the webhook.  The
\* deepest confirmations stand for a new number after every block.
Block ==
    /\ count = 0
    /\ deposits' = {[d EXCEPT !.depth = IF @ = Gone THEN Gone ELSE Min({@ + 1, MaxDepth})]
                        : d \in deposits}
    /\ seen' = {key \in seen : key.confirmations < MaxDepth}
    /\ UNCHANGED <<pool, order, count, todo, sighting, disruptions>>

\* A transaction expires, or another one spends its inputs first.
Expire(d) ==
    /\ d.depth = 0
    /\ Disrupt
    /\ deposits' = (deposits \ {d}) \cup {[d EXCEPT !.depth = Gone]}
    /\ UNCHANGED <<pool, order, count, seen, todo, sighting>>

-----------------------------------------------------------------------------
(* The watcher *)

\* Without the confirmations a sighting is reported once, however deep it gets.
MutKey(s) == [address |-> s.address, txid |-> s.txid, confirmations |-> 0]

Key(s) == [address |-> s.address, txid |-> s.txid, confirmations |-> s.confirmations]

\* POST /api/transfers/payments/zcash/watchlist
PostWatchlist == ListAssignedDepositAddresses

\* fetchWatchlist: without an answer there is no pass.
StartPass ==
    /\ todo = {} /\ sighting = None
    /\ todo' = PostWatchlist
    /\ UNCHANGED <<pool, order, deposits, count, seen, sighting, disruptions>>

Unspent(a) == {d \in deposits : d.to = a /\ d.depth # Gone}
Total(notes) == MapThenSumSet(LAMBDA d : d.amount, notes)

MutSightingsOf(a) ==
    LET notes == Unspent(a)
    IN {[address |-> a, txid |-> d.txid, amount |-> Total(notes),
         confirmations |-> Max({n.depth : n \in notes})] : d \in notes}

\* The notes of an address, as one sighting: their sum, the smallest of their
\* confirmations, and the transaction the wallet happens to list first.
SightingsOf(a) ==
    LET notes == Unspent(a)
    IN {[address |-> a, txid |-> d.txid, amount |-> Total(notes),
         confirmations |-> Min({n.depth : n \in notes})] : d \in notes}

\* The next address of the pass: without notes, or with a sighting that was
\* reported before, the watcher goes on.  A failing wallet is skipped, too.
Scan(a) ==
    /\ sighting = None
    /\ todo # {} /\ a = Min(todo)
    /\ todo' = todo \ {a}
    /\ \/ /\ \/ Unspent(a) = {}
             \/ \E s \in SightingsOf(a) : Key(s) \in seen
          /\ UNCHANGED <<seen, sighting, disruptions>>
       \/ /\ \E s \in SightingsOf(a) : /\ Key(s) \notin seen
                                       /\ seen' = seen \cup {Key(s)}
                                       /\ sighting' = s
          /\ UNCHANGED disruptions
       \/ Disrupt /\ UNCHANGED <<seen, sighting>>
    /\ UNCHANGED <<pool, order, deposits, count>>

-----------------------------------------------------------------------------
(* The webhook *)

Ignore == UNCHANGED order

\* Mutant of Accepts: the latest transaction replaces the recorded one.
MutAccepts(o, s) == s.amount >= Price

\* The order of the address, with enough money.  A sighting of another
\* transaction than the recorded one is refused.
Accepts(o, s) == /\ s.amount >= Price
                 /\ order[o].onchain \in {None, s.txid}

MarkDetected(o, s) == order' = [order EXCEPT ![o].onchain = s.txid]
MarkPaid(o, s) == order' = [order EXCEPT ![o].onchain = s.txid, ![o].status = "paid"]

HandleReport(s) ==
    LET o == FindOrderIdByDepositAddress(s.address)
    IN IF ~Accepts(o, s) \/ order[o].status = "paid" THEN Ignore
       ELSE IF s.confirmations < MinConfirmations THEN MarkDetected(o, s)
       ELSE MarkPaid(o, s)

\* Every request counts, until the bucket is full; the rest get status 429.
MutThrottle(s) == count' = count + 1 /\ HandleReport(s)

CheckRateLimit == count < Limit

Throttle(s) == IF CheckRateLimit THEN count' = count + 1 /\ HandleReport(s)
               ELSE UNCHANGED count /\ Ignore

\* A status is an answer, whichever it is: the key stays in `seen'.
ReportAnswered ==
    /\ sighting # None
    /\ \/ Throttle(sighting) /\ UNCHANGED disruptions
       \/ UNCHANGED <<count, order>> /\ Disrupt    \* an error of the server or its proxy
    /\ sighting' = None
    /\ UNCHANGED <<pool, deposits, seen, todo>>

\* The fetch throws, before or after the webhook has handled the request.
ReportThrows ==
    /\ sighting # None
    /\ Disrupt
    /\ Throttle(sighting) \/ UNCHANGED <<count, order>>
    /\ seen' = seen \ {Key(sighting)}
    /\ sighting' = None
    /\ UNCHANGED <<pool, deposits, todo>>

\* The bucket's time is over: the next request starts a new one.
WindowPasses == /\ count > 0
                /\ count' = 0
                /\ UNCHANGED <<pool, order, deposits, seen, todo, sighting, disruptions>>

RestartWatcher == /\ Disrupt
                  /\ seen' = {} /\ todo' = {} /\ sighting' = None
                  /\ UNCHANGED <<pool, order, deposits, count>>

-----------------------------------------------------------------------------
Watcher == \/ StartPass \/ \E a \in Addresses : Scan(a)
           \/ ReportAnswered \/ ReportThrows \/ RestartWatcher

Next == \/ FillPool
        \/ \E o \in Orders : CreatePaymentIntent(o)
        \/ \E o \in Orders, t \in Txids, amount \in Amounts : Pay(o, t, amount)
        \/ Block
        \/ \E d \in deposits : Expire(d)
        \/ WindowPasses
        \/ Watcher

Spec == Init /\ [][Next]_vars

\* The watcher runs, the chain grows and time passes; nobody has to pay.
FairSpec == Spec /\ WF_vars(Block) /\ WF_vars(WindowPasses) /\ WF_vars(Watcher)

-----------------------------------------------------------------------------
(* Properties *)

\* Every value has its type, an order's address is the pool's, and the bucket
\* never passes the limit.
TypeOK ==
    /\ pool \in [Addresses -> {"unmade", "lost", "available"} \cup Orders]
    /\ order \in [Orders -> [status : {"listed", "pending", "paid"},
                             address : Addresses \cup {None}, onchain : Txids \cup {None}]]
    /\ deposits \subseteq Deposits
    /\ \A o \in Orders : order[o].status # "listed" => pool[order[o].address] = o
    /\ count \in 0..Limit
    /\ todo \subseteq Addresses
    /\ sighting \in Sightings \cup {None}
    /\ disruptions \in 0..MaxDisruptions

\* A paid order is paid in full by transactions that are all deep enough,
\* whatever arrived, expired or was added between the wallet's answer and the
\* report, and however several transactions were put together in one sighting
\* (the watcher's sightingForAddress, markTransferPaidOnchain).
PaidIsCovered ==
    \A o \in Orders : order[o].status = "paid" =>
        Total({d \in Unspent(order[o].address) : d.depth >= MinConfirmations}) >= Price

\* What a step may not undo.
NothingUndone ==
    /\ \A a \in Addresses : pool[a] \in Orders => pool'[a] = pool[a]
    /\ \A o \in Orders :
         /\ order[o].address # None => order'[o].address = order[o].address
         /\ order[o].onchain # None => order'[o].onchain = order[o].onchain
         /\ order[o].status = "paid" => order'[o] = order[o]

\* However late, repeated or out of order the reports are, and whatever else is
\* paid to the address: an assigned address stays with its order
\* (findOrderIdByDepositAddress), the transaction once recorded stays the order's
\* (markTransferDetectedOnchain), and a paid order does not change.
NothingIsUndone == [][NothingUndone]_vars

\* The order's one deposit, not expired, pays its price.
PaidAtOnce(o) ==
    \E d \in deposits : /\ d.to = order[o].address
                        /\ d.amount >= Price /\ d.depth # Gone
                        /\ \A e \in deposits : e.to = d.to => e = d

\* A buyer who pays the price in one transaction that is not replaced is
\* credited, in spite of failing reports and restarts, as the watcher reports
\* again at every depth (zallet-payment-watcher.mjs, pass).
DepositSettles == \A o \in Orders : PaidAtOnce(o) ~> (order[o].status = "paid" \/ ~PaidAtOnce(o))
=============================================================================
