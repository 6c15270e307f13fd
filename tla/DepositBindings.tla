--------------------------- MODULE DepositBindings ---------------------------
(***************************************************************************)
(* How an order gets the address its buyer pays to, and how a deposit      *)
(* finds its way back: deriveSellerDepositAddress of                       *)
(* lib/server/transfer-store.ts, lib/server/deposit-bindings.ts and        *)
(* lib/server/deposit-pool.ts.                                             *)
(*                                                                         *)
(* A seller with a registered viewing key gets a diversified address per   *)
(* order: take an index above the seller's mark, let the scanner derive    *)
(* the address of the next valid index, raise the mark past it, bind the   *)
(* order to the address, and write the order.  Each of these steps awaits  *)
(* something, so the intents of different orders interleave between them.  *)
(* The order lock keeps the intents of one order apart; the bindings, the  *)
(* marks and the pool each have a lock of their own, held for one          *)
(* read-modify-write, which makes each of those one action.  The files are *)
(* replaced by an atomic rename and survive a crash.                       *)
(*                                                                         *)
(* The scanner is outside src/: it holds the viewing keys and derives from *)
(* one of them the address of the least valid index not below the request. *)
(***************************************************************************)
EXTENDS Naturals, FiniteSets

CONSTANTS
    Orders,             \* paid links
    Sellers,
    SellerOf,           \* the seller of each order
    ScanRefs,           \* the scanner's handles of viewing keys
    ValidIndexes,       \* the diversifier indexes that have an address
    PoolAddresses,      \* addresses the pool filler may register
    MaxDeriveAttempts,  \* MAX_DERIVE_ATTEMPTS
    MaxFailures,        \* bound: interrupted requests and crashes
    None                \* null

\* An address derived from a viewing key is that key's at one index.
Derived == ScanRefs \X Nat
Addresses == Derived \cup PoolAddresses

Binding == [orderId : Orders, address : Derived, sellerId : Sellers,
            diversifierIndex : Nat]

\* What a request in createPaymentIntentForOrder keeps between its awaits.
Intent == [step : {"idle", "next", "derive", "reconcile", "bind", "assign", "write"},
           attempt : Nat, scanRef : ScanRefs \cup {None}, index : Nat,
           address : Addresses \cup {None}]

Idle == [step |-> "idle", attempt |-> 0, scanRef |-> None, index |-> 0,
         address |-> None]

ASSUME DepositAssumption ==
    /\ SellerOf \in [Orders -> Sellers]
    /\ ValidIndexes \subseteq Nat
    /\ MaxDeriveAttempts \in Nat /\ MaxFailures \in Nat
    /\ None \notin Orders /\ None \notin ScanRefs /\ None \notin PoolAddresses
    /\ \A k \in ScanRefs, i \in ValidIndexes : <<k, i>> # None
    /\ \A k \in ScanRefs, i \in ValidIndexes : <<k, i>> \notin PoolAddresses

VARIABLES
    scanRefOf,  \* seller.sellerScanRef, None before a viewing key is registered
    marks,      \* the diversifier marks file
    bindings,   \* the deposit bindings file
    pool,       \* the deposit pool file: the order of each address, or None
    receiving,  \* order.payment.receivingAddress, None before the order is written
    intent,     \* the request in progress on each order
    orphaned,   \* history: orders whose request ended after bindOrderDeposit and
                \* before writeOrder
    failures    \* requests that were interrupted so far

vars == <<scanRefOf, marks, bindings, pool, receiving, intent, orphaned, failures>>

TypeOK ==
    /\ scanRefOf \in [Sellers -> ScanRefs \cup {None}]
    /\ marks \in [Sellers -> Nat]
    /\ bindings \subseteq Binding
    /\ DOMAIN pool \subseteq PoolAddresses
    /\ pool \in [DOMAIN pool -> Orders \cup {None}]
    /\ receiving \in [Orders -> Addresses \cup {None}]
    /\ intent \in [Orders -> Intent]
    /\ orphaned \subseteq Orders
    /\ failures \in Nat

Init ==
    /\ scanRefOf = [s \in Sellers |-> None]
    /\ marks = [s \in Sellers |-> 0]
    /\ bindings = {}
    /\ pool = [a \in {} |-> None]
    /\ receiving = [o \in Orders |-> None]
    /\ intent = [o \in Orders |-> Idle]
    /\ orphaned = {}
    /\ failures = 0

-----------------------------------------------------------------------------
BindingsOf(o) == {b \in bindings : b.orderId = o}
BindingsAt(a) == {b \in bindings : b.address = a}
IsBound(o) == BindingsOf(o) # {}

\* findOrderIdForDeposit: the bindings come before the pool.
OrdersForDeposit(a) ==
    IF BindingsAt(a) # {} THEN {b.orderId : b \in BindingsAt(a)}
    ELSE IF a \in DOMAIN pool THEN {pool[a]} \ {None}
    ELSE {}

\* The scanner derives from the next valid index at or above i.
IsNextValid(i, j) ==
    /\ j \in ValidIndexes /\ j >= i
    /\ \A k \in ValidIndexes : k >= i => j <= k

-----------------------------------------------------------------------------
\* registerSellerUfvk: a seller may register another key at any time, and two
\* sellers may register the same one.
RegisterSellerUfvk(s, k) ==
    /\ scanRefOf' = [scanRefOf EXCEPT ![s] = k]
    /\ UNCHANGED <<marks, bindings, pool, receiving, intent, orphaned, failures>>

\* registerDepositAddresses: addresses the pool knows are skipped.
RegisterDepositAddresses(A) ==
    /\ pool' = [a \in DOMAIN pool \cup A |->
                  IF a \in DOMAIN pool THEN pool[a] ELSE None]
    /\ UNCHANGED <<scanRefOf, marks, bindings, receiving, intent, orphaned, failures>>

\* createOrderInvoice reads the seller's handle once, for all its attempts.
CreateOrderInvoice(o) ==
    /\ intent[o].step = "idle"
    /\ receiving[o] = None
    /\ LET ref == scanRefOf[SellerOf[o]] IN
       intent' = [intent EXCEPT ![o] =
                    [Idle EXCEPT !.step = IF ref = None THEN "assign" ELSE "next",
                                 !.scanRef = ref]]
    /\ UNCHANGED <<scanRefOf, marks, bindings, pool, receiving, orphaned, failures>>

\* nextDiversifierIndex
NextDiversifierIndex(o) ==
    /\ intent[o].step = "next"
    /\ intent[o].attempt < MaxDeriveAttempts
    /\ marks' = [marks EXCEPT ![SellerOf[o]] = @ + 1]
    /\ intent' = [intent EXCEPT ![o].step = "derive",
                                ![o].index = marks[SellerOf[o]] + 1]
    /\ UNCHANGED <<scanRefOf, bindings, pool, receiving, orphaned, failures>>

\* scannerClient.deriveAddress
DeriveAddress(o) ==
    /\ intent[o].step = "derive"
    /\ \E j \in ValidIndexes :
         /\ IsNextValid(intent[o].index, j)
         /\ intent' = [intent EXCEPT ![o].step = "reconcile",
                                     ![o].index = j,
                                     ![o].address = <<intent[o].scanRef, j>>]
    /\ UNCHANGED <<scanRefOf, marks, bindings, pool, receiving, orphaned, failures>>

\* Mutant of ReconcileDiversifierMark: it is left out.
MutNoReconcile(o) ==
    /\ intent[o].step = "reconcile"
    /\ intent' = [intent EXCEPT ![o].step = "bind"]
    /\ UNCHANGED <<scanRefOf, marks, bindings, pool, receiving, orphaned, failures>>

\* reconcileDiversifierMark: the mark is raised to actualIndex + 1, never lowered.
ReconcileDiversifierMark(o) ==
    /\ intent[o].step = "reconcile"
    /\ marks' = [marks EXCEPT ![SellerOf[o]] =
                   IF @ >= intent[o].index + 1 THEN @ ELSE intent[o].index + 1]
    /\ intent' = [intent EXCEPT ![o].step = "bind"]
    /\ UNCHANGED <<scanRefOf, bindings, pool, receiving, orphaned, failures>>

NewBinding(o) == [orderId |-> o, address |-> intent[o].address,
                  sellerId |-> SellerOf[o], diversifierIndex |-> intent[o].index]

\* Mutant of BindOrderDeposit: no uniqueness guard.
MutBindOrderDeposit(o) ==
    /\ intent[o].step = "bind"
    /\ bindings' = IF IsBound(o) THEN bindings ELSE bindings \cup {NewBinding(o)}
    /\ intent' = [intent EXCEPT ![o].step = "write"]
    /\ UNCHANGED <<scanRefOf, marks, pool, receiving, orphaned, failures>>

\* Mutant of BindOrderDeposit: a collision starts again with the same attempt
\* count and the collided index, without asking for another one.
MutBindRetriesSameIndex(o) ==
    /\ intent[o].step = "bind"
    /\ IF ~IsBound(o) /\ BindingsAt(intent[o].address) # {}
       THEN /\ intent' = [intent EXCEPT ![o].step = "derive"]
            /\ UNCHANGED bindings
       ELSE /\ bindings' = IF IsBound(o) THEN bindings
                           ELSE bindings \cup {NewBinding(o)}
            /\ intent' = [intent EXCEPT ![o].step = "write"]
    /\ UNCHANGED <<scanRefOf, marks, pool, receiving, orphaned, failures>>

\* bindOrderDeposit and the answer to it: an order that is bound keeps its binding,
\* and the caller goes on with the address it derived; an address that is bound to
\* another order is a collision, and the caller tries again.
BindOrderDeposit(o) ==
    /\ intent[o].step = "bind"
    /\ IF IsBound(o) \/ BindingsAt(intent[o].address) = {}
       THEN /\ bindings' = IF IsBound(o) THEN bindings
                           ELSE bindings \cup {NewBinding(o)}
            /\ intent' = [intent EXCEPT ![o].step = "write"]
       ELSE /\ intent' = [intent EXCEPT ![o].step = "next",
                                        ![o].attempt = @ + 1]
            /\ UNCHANGED bindings
    /\ UNCHANGED <<scanRefOf, marks, pool, receiving, orphaned, failures>>

\* "Could not derive a unique deposit address after multiple attempts"
GiveUp(o) ==
    /\ intent[o].step = "next"
    /\ intent[o].attempt >= MaxDeriveAttempts
    /\ intent' = [intent EXCEPT ![o] = Idle]
    /\ UNCHANGED <<scanRefOf, marks, bindings, pool, receiving, orphaned, failures>>

\* Mutant of AssignDepositAddress: an address that is taken is handed out again.
MutAssignDepositAddress(o) ==
    /\ intent[o].step = "assign"
    /\ \E a \in DOMAIN pool :
         /\ pool' = [pool EXCEPT ![a] = o]
         /\ intent' = [intent EXCEPT ![o].step = "write", ![o].address = a]
    /\ UNCHANGED <<scanRefOf, marks, bindings, receiving, orphaned, failures>>

\* assignDepositAddress: the address the order already has, or a free one.
AssignDepositAddress(o) ==
    /\ intent[o].step = "assign"
    /\ \E a \in DOMAIN pool :
         /\ \/ pool[a] = o
            \/ pool[a] = None /\ \A c \in DOMAIN pool : pool[c] # o
         /\ pool' = [pool EXCEPT ![a] = o]
         /\ intent' = [intent EXCEPT ![o].step = "write", ![o].address = a]
    /\ UNCHANGED <<scanRefOf, marks, bindings, receiving, orphaned, failures>>

\* "No deposit address available; try again shortly"
NoDepositAddress(o) ==
    /\ intent[o].step = "assign"
    /\ \A a \in DOMAIN pool : pool[a] \notin {o, None}
    /\ intent' = [intent EXCEPT ![o] = Idle]
    /\ UNCHANGED <<scanRefOf, marks, bindings, pool, receiving, orphaned, failures>>

\* Mutant of WriteOrder: the request is kept as if it had more to do.
MutWriteOrder(o) ==
    /\ intent[o].step = "write"
    /\ receiving' = [receiving EXCEPT ![o] = intent[o].address]
    /\ intent' = [intent EXCEPT ![o].step = "written"]
    /\ UNCHANGED <<scanRefOf, marks, bindings, pool, orphaned, failures>>

\* The end of createPaymentIntentForOrder: the order is written.
WriteOrder(o) ==
    /\ intent[o].step = "write"
    /\ receiving' = [receiving EXCEPT ![o] = intent[o].address]
    /\ intent' = [intent EXCEPT ![o] = Idle]
    /\ UNCHANGED <<scanRefOf, marks, bindings, pool, orphaned, failures>>

\* A request ends where it is: the scanner does not answer, a write fails, or, for
\* all of them at once, the process dies.
Interrupt(S) ==
    /\ failures < MaxFailures
    /\ \E o \in S : intent[o].step # "idle"
    /\ intent' = [o \in Orders |-> IF o \in S THEN Idle ELSE intent[o]]
    /\ orphaned' = orphaned \cup {o \in S : intent[o].step = "write" /\ IsBound(o)}
    /\ failures' = failures + 1
    /\ UNCHANGED <<scanRefOf, marks, bindings, pool, receiving>>

RequestFails(o) == Interrupt({o})
Crash == Interrupt(Orders)

IntentStep(o) ==
    \/ NextDiversifierIndex(o)
    \/ DeriveAddress(o)
    \/ ReconcileDiversifierMark(o)
    \/ BindOrderDeposit(o)
    \/ GiveUp(o)
    \/ AssignDepositAddress(o)
    \/ NoDepositAddress(o)
    \/ WriteOrder(o)

Next ==
    \/ \E s \in Sellers, k \in ScanRefs : RegisterSellerUfvk(s, k)
    \/ \E A \in SUBSET PoolAddresses : A # {} /\ RegisterDepositAddresses(A)
    \/ \E o \in Orders : CreateOrderInvoice(o)
    \/ \E o \in Orders : IntentStep(o)
    \/ \E o \in Orders : RequestFails(o)
    \/ Crash

Spec == Init /\ [][Next]_vars

\* Every awaited step is answered (a failure is counted), and a buyer who wants to
\* pay asks again until the link shows an address.
FairSpec ==
    /\ Spec
    /\ \A o \in Orders : WF_vars(IntentStep(o)) /\ WF_vars(CreateOrderInvoice(o))

-----------------------------------------------------------------------------
(* Properties. *)

\* "never bind one address to two orders" and "the same order keeps its first
\* binding": whatever indexes collide, between orders of one seller or sellers of one
\* key, and however often an order asks again, no two bindings share an address or an
\* order.
UniqueAddresses ==
    \A b, c \in bindings :
      b.address = c.address \/ b.orderId = c.orderId => b = c

\* A deposit to the address an order shows is credited to that order and no other,
\* through the bindings or the pool, for every order whose request was not
\* interrupted between binding and writing.
DepositFindsItsOrder ==
    \A o \in Orders \ orphaned :
      receiving[o] # None => OrdersForDeposit(receiving[o]) = {o}

\* The seller's mark is above every index the seller's orders are bound to, so no
\* later request of the seller re-derives an address in use.
MarkCoversBindings ==
    \A b \in bindings : marks[b.sellerId] > b.diversifierIndex

\* "Monotonic": concurrent reconciliations never lower a mark.
MarksNeverLowered == [][\A s \in Sellers : marks'[s] >= marks[s]]_vars

\* "the same order keeps its first binding", and nobody else's is lost.
BindingsAreFinal == [][bindings \subseteq bindings']_vars

\* A buyer who keeps asking gets an address once the seller has a viewing key, in
\* spite of collisions and of the limited attempts per request.
KeyedIntentSucceeds ==
    \A o \in Orders : scanRefOf[SellerOf[o]] # None ~> receiving[o] # None

\* What the comments expect of a bound order: the address it shows the buyer is the
\* one the binding has, so that the watchlist and the webhook find the order.
ReceivingIsBound ==
    \A o \in Orders : IsBound(o) /\ receiving[o] # None =>
      \E b \in BindingsOf(o) : b.address = receiving[o]
=============================================================================
