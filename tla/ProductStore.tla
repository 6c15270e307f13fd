---------------------------- MODULE ProductStore ----------------------------
(***************************************************************************)
(* Catalog products: one link, many buyers.  Source:                       *)
(* lib/server/product-store.ts, the routes under app/api/products and      *)
(* app/api/sellers/me/products, and the functions of the panel that create,*)
(* list, show and buy a product.                                           *)
(*                                                                         *)
(* A purchase of a limited product reserves a unit first (recordProductSale*)
(* under the product's lock) and then writes the buyer's order, so several *)
(* purchases, a crash and failing writes meet between the two.  A record is*)
(* a directory that gets its .json file last: until then it is HalfMade.   *)
(* The lock is AsyncLock's, here its holder.  No code closes a product.    *)
(* `unit`, the number of a sale, is the salesCount that the sale wrote; the*)
(* source does not keep it in the order.  File, price and names are left   *)
(* out.                                                                    *)
(***************************************************************************)
EXTENDS Naturals

CONSTANTS
    Products,     \* product ids, random in the source
    Orders,       \* order ids, random in the source
    Buyers,       \* browsers of buyers; each has one purchase on its way
    None,         \* no record, nothing
    HalfMade,     \* a directory whose .json file is not written yet
    MaxSupply,    \* bound: units of a limited product
    MaxFailures   \* bound: crashes, failing requests, lost answers and reloads

ASSUME ProductAssumption ==
    /\ MaxSupply \in Nat /\ MaxFailures \in Nat
    /\ None # HalfMade
    /\ {None, HalfMade} \cap (Products \cup Orders \cup Nat) = {}

VARIABLES
    products,   \* [Products -> None, HalfMade or the record]
    orders,     \* [Orders -> None, HalfMade or the record of a purchase]
    holder,     \* [Products -> the buyer whose request holds the lock, or None]
    purchase,   \* [Buyers -> the purchase request that is being served]
    creating,   \* the seller's request to create a product
    drafts,     \* products whose release draft the seller's browser holds
    catalog,    \* products that the seller's list shows as sold out: their link
                \* cannot be copied
    page,       \* [Buyers -> the product page]
    lost,       \* history: <<product, unit>> reserved by a request that failed
    failures

vars == <<products, orders, holder, purchase, creating, drafts, catalog, page,
          lost, failures>>

\* A supply of 0 is open; readSupply wants at least 1 of a limited one.
Product == [supply : 0 .. MaxSupply, salesCount : 0 .. MaxSupply,
            status : {"open", "sold_out"}]

Purchase == [product : Products, unit : 0 .. MaxSupply]

\* A purchase request by its next step; `order` is the order it is making.
Request ==
    [step : {"spawn", "reserve", "write", "dir", "record", "answer"},
     product : Products, unit : 0 .. MaxSupply, order : Orders \cup {None}]

Creation == [step : {"record", "answer"}, product : Products, supply : 0 .. MaxSupply]

Answers == {"ready", "soldout", "error"}

Page == [product : Products \cup {None}, status : {"loading"} \cup Answers,
         fetch : {"none", "asked"} \cup Answers, silent : BOOLEAN,
         buying : BOOLEAN, order : Orders \cup {None}]

NoPage == [product |-> None, status |-> "loading", fetch |-> "none",
           silent |-> FALSE, buying |-> FALSE, order |-> None]

ASSUME NothingAssumption ==
    {None, HalfMade} \cap
        (Buyers \cup Product \cup Purchase \cup Request \cup Creation \cup (Products \X Nat)) = {}

TypeOK ==
    /\ products \in [Products -> Product \cup {None, HalfMade}]
    /\ orders \in [Orders -> Purchase \cup {None, HalfMade}]
    /\ holder \in [Products -> Buyers \cup {None}]
    /\ purchase \in [Buyers -> Request \cup {None}]
    /\ creating \in Creation \cup {None}
    /\ drafts \subseteq Products
    /\ catalog \subseteq Products
    /\ page \in [Buyers -> Page]
    /\ lost \subseteq Products \X (1 .. MaxSupply)
    /\ failures \in 0 .. MaxFailures

Init ==
    /\ products = [p \in Products |-> None]
    /\ orders = [o \in Orders |-> None]
    /\ holder = [p \in Products |-> None]
    /\ purchase = [b \in Buyers |-> None]
    /\ creating = None
    /\ drafts = {}
    /\ catalog = {}
    /\ page = [b \in Buyers |-> NoPage]
    /\ lost = {}
    /\ failures = 0

Fail == failures < MaxFailures /\ failures' = failures + 1

Made(p) == products[p] \notin {None, HalfMade}

\* Mutant of IsSoldOut: off by one.
MutIsSoldOut(product) == product.supply # 0 /\ product.salesCount > product.supply

IsSoldOut(product) == product.supply # 0 /\ product.salesCount >= product.supply

\* What pages get to see of a product.
PublicProduct(p) == [limited |-> products[p].supply # 0, soldOut |-> IsSoldOut(products[p])]

\* normalizeSupply: 0 stands for open supply, a limit is at least 1.
Supplies == 0 .. MaxSupply

\* withProductLock
LockFree(p) == holder[p] = None

-----------------------------------------------------------------------------
(* The seller's page creates products and lists them. *)

\* onCreateProduct, up to the directory and the ciphertext that createProduct writes.
OnCreateProduct(p, supply) ==
    /\ creating = None
    /\ products[p] = None
    /\ products' = [products EXCEPT ![p] = HalfMade]
    /\ creating' = [step |-> "record", product |-> p, supply |-> supply]
    /\ UNCHANGED <<orders, holder, purchase, drafts, catalog, page, lost, failures>>

\* The record, the last write of createProduct.
CreateProduct ==
    /\ creating # None /\ creating.step = "record"
    /\ products' = [products EXCEPT ![creating.product] =
                      [supply |-> creating.supply, salesCount |-> 0, status |-> "open"]]
    /\ creating' = [creating EXCEPT !.step = "answer"]
    /\ UNCHANGED <<orders, holder, purchase, drafts, catalog, page, lost, failures>>

\* The answer: the page keeps the release draft before it shows the link.
SaveProductReleaseDraft ==
    /\ creating # None /\ creating.step = "answer"
    /\ drafts' = drafts \cup {creating.product}
    /\ creating' = None
    /\ UNCHANGED <<products, orders, holder, purchase, catalog, page, lost, failures>>

\* A write fails, or the answer is lost: the page has no draft.
CreateProductFails ==
    /\ creating # None
    /\ Fail
    /\ creating' = None
    /\ UNCHANGED <<products, orders, holder, purchase, drafts, catalog, page, lost>>

\* readProduct throws a ServerError for a product that is HalfMade, which the list does
\* not take for a missing file.
ReadFails == \E p \in Products : products[p] = HalfMade

ListProductsForSeller == {p \in Products : Made(p)}

\* GET /api/sellers/me/products
GetMyProducts == {p \in ListProductsForSeller : PublicProduct(p).soldOut}

\* Without an answer the page keeps what it shows.
LoadSellerProducts ==
    /\ ~ReadFails
    /\ catalog' = GetMyProducts
    /\ UNCHANGED <<products, orders, holder, purchase, creating, drafts, page, lost,
                   failures>>

-----------------------------------------------------------------------------
(* A buyer's page shows a product. *)

\* loadProductListing asks, unless a request of the page is on its way.
LoadProductListing(b, silent) ==
    IF page[b].fetch # "none"
      THEN page[b]
      ELSE [page[b] EXCEPT !.fetch = "asked", !.silent = silent,
                           !.status = IF silent THEN @ ELSE "loading"]

\* The link is opened, or the page is reloaded: what was asked before goes unanswered.
OpenProductPage(b, p) ==
    /\ Made(p)
    /\ IF page[b].product = None THEN UNCHANGED failures ELSE Fail
    /\ page' = [page EXCEPT ![b] = [NoPage EXCEPT !.product = p, !.fetch = "asked"]]
    /\ UNCHANGED <<products, orders, holder, purchase, creating, drafts, catalog, lost>>

\* The poll of a limited listing, which stops at an error, a sold-out or an order.  While
\* the page is loading, the request that it waits for keeps the poll out.
PollProductListing(b) ==
    /\ page[b].status = "ready" /\ page[b].order = None
    /\ PublicProduct(page[b].product).limited
    /\ page[b].fetch = "none"
    /\ page' = [page EXCEPT ![b] = LoadProductListing(b, TRUE)]
    /\ UNCHANGED <<products, orders, holder, purchase, creating, drafts, catalog, lost,
                   failures>>

\* GET /api/products/[productId]
GetPublicProduct(b) ==
    /\ page[b].fetch = "asked"
    /\ page' = [page EXCEPT ![b].fetch =
                  IF PublicProduct(page[b].product).soldOut THEN "soldout" ELSE "ready"]
    /\ UNCHANGED <<products, orders, holder, purchase, creating, drafts, catalog, lost,
                   failures>>

GetPublicProductFails(b) ==
    /\ page[b].fetch = "asked"
    /\ Fail
    /\ page' = [page EXCEPT ![b].fetch = "error"]
    /\ UNCHANGED <<products, orders, holder, purchase, creating, drafts, catalog, lost>>

\* Mutant of ShowProductListing: the guard stays up after a failed request.
MutShowProductListing(b) ==
    /\ page[b].fetch \in {"ready", "soldout"}
    /\ page' = [page EXCEPT ![b].fetch = "none", ![b].status = page[b].fetch]
    /\ UNCHANGED <<products, orders, holder, purchase, creating, drafts, catalog, lost,
                   failures>>

\* A silent request that failed leaves the view as it is.
ShowProductListing(b) ==
    /\ page[b].fetch \in Answers
    /\ page' = [page EXCEPT
         ![b].fetch = "none",
         ![b].status = IF page[b].fetch = "error" /\ page[b].silent
                         THEN @ ELSE page[b].fetch]
    /\ UNCHANGED <<products, orders, holder, purchase, creating, drafts, catalog, lost,
                   failures>>

-----------------------------------------------------------------------------
(* Purchases. *)

\* The Buy button of a listing that is not sold out.
OnBuyProduct(b) ==
    /\ page[b].status = "ready" /\ page[b].order = None /\ ~page[b].buying
    /\ purchase[b] = None
    /\ page' = [page EXCEPT ![b].buying = TRUE]
    /\ purchase' = [purchase EXCEPT ![b] =
         [step |-> "spawn", product |-> page[b].product, unit |-> 0, order |-> None]]
    /\ UNCHANGED <<products, orders, holder, creating, drafts, catalog, lost, failures>>

\* The page that asked is still open.
Asking(b) == page[b].buying

\* Mutant of SpawnOrderFromProduct: the order is made before a unit is reserved.
MutSpawnOrderFromProduct(b) ==
    /\ purchase[b] # None /\ purchase[b].step = "spawn"
    /\ ~IsSoldOut(products[purchase[b].product])
    /\ purchase' = [purchase EXCEPT ![b].step = "dir"]
    /\ UNCHANGED <<products, orders, holder, creating, drafts, catalog, page, lost,
                   failures>>

\* spawnOrderFromProduct: an open product is not counted.
SpawnOrderFromProduct(b) ==
    /\ purchase[b] # None /\ purchase[b].step = "spawn"
    /\ purchase' = [purchase EXCEPT
         ![b].step = IF products[purchase[b].product].supply = 0
                       THEN "dir" ELSE "reserve"]
    /\ UNCHANGED <<products, orders, holder, creating, drafts, catalog, page, lost,
                   failures>>

\* Answer 409: the page shows sold out, and loads the listing again.
RejectPurchase(b) ==
    /\ purchase' = [purchase EXCEPT ![b] = None]
    /\ page' = IF Asking(b)
         THEN [page EXCEPT ![b] =
                 [LoadProductListing(b, FALSE) EXCEPT
                    !.buying = FALSE,
                    !.status = IF page[b].fetch # "none" THEN "soldout" ELSE @]]
         ELSE page

\* Mutant of ReadProductForSale: the product is read before the lock is taken.
MutReadProductForSale(b) ==
    LET p == purchase[b].product IN
    /\ purchase[b] # None /\ purchase[b].step = "reserve"
    /\ IF IsSoldOut(products[p])
         THEN RejectPurchase(b) /\ UNCHANGED holder
         ELSE /\ holder' = [holder EXCEPT ![p] = b]
              /\ purchase' = [purchase EXCEPT ![b].step = "write",
                                              ![b].unit = products[p].salesCount + 1]
              /\ UNCHANGED page
    /\ UNCHANGED <<products, orders, creating, drafts, catalog, lost, failures>>

\* recordProductSale up to its write: it holds the product's lock from here on.
ReadProductForSale(b) ==
    LET p == purchase[b].product IN
    /\ purchase[b] # None /\ purchase[b].step = "reserve"
    /\ LockFree(p)
    /\ IF IsSoldOut(products[p])
         THEN RejectPurchase(b) /\ UNCHANGED holder
         ELSE /\ holder' = [holder EXCEPT ![p] = b]
              /\ purchase' = [purchase EXCEPT ![b].step = "write",
                                              ![b].unit = products[p].salesCount + 1]
              /\ UNCHANGED page
    /\ UNCHANGED <<products, orders, creating, drafts, catalog, lost, failures>>

\* The write of recordProductSale, and the end of its lock.
RecordProductSale(b) ==
    LET p == purchase[b].product IN
    /\ purchase[b] # None /\ purchase[b].step = "write"
    /\ products' = [products EXCEPT
         ![p].salesCount = purchase[b].unit,
         ![p].status = IF purchase[b].unit >= products[p].supply THEN "sold_out" ELSE @]
    /\ holder' = [holder EXCEPT ![p] = None]
    /\ purchase' = [purchase EXCEPT ![b].step = "dir"]
    /\ UNCHANGED <<orders, creating, drafts, catalog, page, lost, failures>>

\* createTransferOrder: the directory and the buyer's copy of the ciphertext.  Which of
\* the fresh ids it gets makes no difference.
MakeOrderDir(b) ==
    LET o == CHOOSE q \in Orders : orders[q] = None IN
    /\ purchase[b] # None /\ purchase[b].step = "dir"
    /\ \E q \in Orders : orders[q] = None
    /\ orders' = [orders EXCEPT ![o] = HalfMade]
    /\ purchase' = [purchase EXCEPT ![b].step = "record", ![b].order = o]
    /\ UNCHANGED <<products, holder, creating, drafts, catalog, page, lost, failures>>

\* createTransferOrder: the record.
CreateTransferOrder(b) ==
    /\ purchase[b] # None /\ purchase[b].step = "record"
    /\ orders' = [orders EXCEPT ![purchase[b].order] =
                    [product |-> purchase[b].product, unit |-> purchase[b].unit]]
    /\ purchase' = [purchase EXCEPT ![b].step = "answer"]
    /\ UNCHANGED <<products, holder, creating, drafts, catalog, page, lost, failures>>

\* The answer: the page goes on with the buyer's own order (loadOrder).  If it is lost the
\* order is nobody's: the page shows an error, and buying again makes another one.
PostPurchase(b) ==
    /\ purchase[b] # None /\ purchase[b].step = "answer"
    /\ purchase' = [purchase EXCEPT ![b] = None]
    /\ page' = IF Asking(b)
         THEN [page EXCEPT ![b].buying = FALSE, ![b].order = purchase[b].order]
         ELSE page
    /\ UNCHANGED <<products, orders, holder, creating, drafts, catalog, lost, failures>>

\* The unit that a request holds and that it will not hand to an order.
Reserved(b) ==
    IF purchase[b] # None /\ purchase[b].step \in {"dir", "record"} /\ purchase[b].unit # 0
      THEN {<<purchase[b].product, purchase[b].unit>>} ELSE {}

\* Mutant of PurchaseFails: every failed purchase is shown as sold out.
MutPurchaseFails(b) ==
    /\ purchase[b] # None
    /\ Fail
    /\ lost' = lost \cup Reserved(b)
    /\ holder' = [p \in Products |-> IF holder[p] = b THEN None ELSE holder[p]]
    /\ purchase' = [purchase EXCEPT ![b] = None]
    /\ page' = [page EXCEPT ![b].buying = FALSE, ![b].status = "soldout"]
    /\ UNCHANGED <<products, orders, creating, drafts, catalog>>

\* A read or a write fails: 500 for the page, and nothing gives the unit back.
PurchaseFails(b) ==
    /\ purchase[b] # None
    /\ Fail
    /\ lost' = lost \cup Reserved(b)
    /\ holder' = [p \in Products |-> IF holder[p] = b THEN None ELSE holder[p]]
    /\ purchase' = [purchase EXCEPT ![b] = None]
    /\ page' = [page EXCEPT ![b].buying = FALSE]
    /\ UNCHANGED <<products, orders, creating, drafts, catalog>>

\* The server dies; pages see their requests fail.
Crash ==
    /\ creating # None \/ \E b \in Buyers : purchase[b] # None
    /\ Fail
    /\ lost' = lost \cup UNION {Reserved(b) : b \in Buyers}
    /\ holder' = [p \in Products |-> None]
    /\ purchase' = [b \in Buyers |-> None]
    /\ creating' = None
    /\ page' = [b \in Buyers |->
                  [page[b] EXCEPT !.buying = FALSE,
                                  !.fetch = IF @ = "asked" THEN "error" ELSE @]]
    /\ UNCHANGED <<products, orders, drafts, catalog>>

SellerNext ==
    \/ \E p \in Products, supply \in Supplies : OnCreateProduct(p, supply)
    \/ CreateProduct \/ SaveProductReleaseDraft \/ CreateProductFails
    \/ LoadSellerProducts

PageNext(b) ==
    \/ PollProductListing(b) \/ GetPublicProduct(b) \/ ShowProductListing(b)

PurchaseNext(b) ==
    \/ SpawnOrderFromProduct(b) \/ ReadProductForSale(b) \/ RecordProductSale(b)
    \/ MakeOrderDir(b) \/ CreateTransferOrder(b)
    \/ PostPurchase(b)

Next ==
    \/ SellerNext
    \/ \E b \in Buyers :
         \/ \E p \in Products : OpenProductPage(b, p)
         \/ PageNext(b) \/ GetPublicProductFails(b)
         \/ OnBuyProduct(b) \/ PurchaseNext(b) \/ PurchaseFails(b)
    \/ Crash

\* Polls repeat, and requests end.
Fairness == \A b \in Buyers :
    /\ WF_vars(PollProductListing(b)) /\ WF_vars(GetPublicProduct(b))
    /\ WF_vars(ShowProductListing(b)) /\ WF_vars(PurchaseNext(b))

Spec == Init /\ [][Next]_vars

FairSpec == Spec /\ Fairness

-----------------------------------------------------------------------------
(* Properties. *)

\* The purchases of a product.
Purchases(p) ==
    {o \in Orders : orders[o] \notin {None, HalfMade} /\ orders[o].product = p}

\* Of a limited product no more units are sold than there are, it is marked sold out with
\* the last one, each unit is in at most one order, and a unit that is in no order is
\* that of a running purchase or of one that failed (spawnOrderFromProduct reserves
\* before it creates).
UnitsAreAccounted ==
    \A p \in Products : Made(p) /\ products[p].supply # 0 =>
        /\ products[p].salesCount <= products[p].supply
        /\ products[p].status = "sold_out" <=> IsSoldOut(products[p])
        /\ \A a, b \in Purchases(p) : a # b => orders[a].unit # orders[b].unit
        /\ \A o \in Purchases(p) : orders[o].unit \in 1 .. products[p].salesCount
        /\ \A unit \in 1 .. products[p].salesCount :
             \/ \E o \in Purchases(p) : orders[o].unit = unit
             \/ <<p, unit>> \in lost
             \/ \E b \in Buyers : <<p, unit>> \in Reserved(b)

\* A page or the seller's list that shows sold out is right, also with an answer older
\* than others: supply never comes back.
SoldOutIsTrue ==
    /\ \A b \in Buyers : page[b].status = "soldout" => IsSoldOut(products[page[b].product])
    /\ \A p \in catalog : IsSoldOut(products[p])

\* A page that offers a product whose last unit is gone does not go on doing so, although
\* the answer of an older poll may undo a 409 (the guard of loadProductListing).
SoldOutIsShown ==
    \A b \in Buyers :
        page[b].status = "ready" /\ page[b].order = None
          /\ IsSoldOut(products[page[b].product])
        ~> page[b].status # "ready" \/ page[b].order # None

\* Requests, locks, crashes and failures included, the store is a LimitedSale.
Sale == INSTANCE LimitedSale WITH
    supply <- [p \in Products |-> IF Made(p) THEN products[p].supply ELSE None],
    taken  <- [p \in Products |-> IF Made(p) THEN products[p].salesCount ELSE 0],
    handed <- [o \in Orders |-> IF orders[o] \in {None, HalfMade} THEN None
                                ELSE <<orders[o].product, orders[o].unit>>]

ImplementsLimitedSale == Sale!Spec
=============================================================================
