------------------------- MODULE ProductStoreProofs -------------------------
(***************************************************************************)
(* Proofs about ProductStore, for any products, buyers, supplies and       *)
(* numbers of failures: no unit is sold twice or gets lost but by a        *)
(* failure, sold out is shown only when it is true, and the store is a     *)
(* LimitedSale.                                                            *)
(***************************************************************************)
EXTENDS ProductStore, TLAPS

\* The orders of a product have units that were taken.
OrdersOK ==
    \A o \in Orders : orders[o] \notin {None, HalfMade} =>
        /\ Made(orders[o].product)
        /\ IF products[orders[o].product].supply = 0
             THEN orders[o].unit = 0
             ELSE orders[o].unit \in 1 .. products[orders[o].product].salesCount

\* What the request of b has checked, reserved or begun, by its next step.
RequestOK(b) ==
    LET q == purchase[b]  p == purchase[b].product IN
    /\ Made(p)
    /\ q.step \in {"spawn", "reserve"} => q.unit = 0
    /\ q.step \in {"reserve", "write"} => products[p].supply # 0
    /\ q.step = "write" =>
         /\ holder[p] = b
         /\ q.unit = products[p].salesCount + 1
         /\ q.unit <= products[p].supply
    /\ q.step \in {"dir", "record"} =>
         IF products[p].supply = 0 THEN q.unit = 0
         ELSE /\ q.unit \in 1 .. products[p].salesCount
              /\ \A o \in Purchases(p) : orders[o].unit # q.unit
    /\ q.step = "record" => q.order \in Orders /\ orders[q.order] = HalfMade

RequestsOK == \A b \in Buyers : purchase[b] # None => RequestOK(b)

\* Two requests have neither a unit nor an order in common.
Apart(a, b) ==
    /\ Reserved(a) \cap Reserved(b) = {}
    /\ purchase[a].step = "record" /\ purchase[b].step = "record" =>
         purchase[a].order # purchase[b].order

PairsOK ==
    \A a, b \in Buyers :
        a # b /\ purchase[a] # None /\ purchase[b] # None => Apart(a, b)

\* A lock is held by a request between the read and the write of recordProductSale.
HoldersOK ==
    \A p \in Products : holder[p] # None =>
        /\ purchase[holder[p]] # None
        /\ purchase[holder[p]].step = "write" /\ purchase[holder[p]].product = p

\* The record of a product is written once.
CreatingOK ==
    creating # None /\ creating.step = "record" => products[creating.product] = HalfMade

Stock == OrdersOK /\ RequestsOK /\ PairsOK /\ HoldersOK /\ CreatingOK /\ UnitsAreAccounted

\* A page shows a product that exists, and what it shows or is about to show as sold out
\* is; its purchase is the one that is being served.
PageOK(b) ==
    /\ page[b].product = None =>
         page[b].status = "loading" /\ page[b].fetch = "none" /\ ~page[b].buying
    /\ page[b].product # None => Made(page[b].product)
    /\ "soldout" \in {page[b].status, page[b].fetch} => IsSoldOut(products[page[b].product])
    /\ page[b].buying => purchase[b] # None /\ purchase[b].product = page[b].product

Shown ==
    /\ \A b \in Buyers : PageOK(b)
    /\ \A p \in catalog : Made(p) /\ IsSoldOut(products[p])

Inv == TypeOK /\ Stock /\ Shown

-----------------------------------------------------------------------------
LEMMA InitInv == Init => Inv
  <1> SUFFICES ASSUME Init PROVE Inv
    OBVIOUS
  <1> USE ProductAssumption, NothingAssumption DEF Init
  <1>1. TypeOK
    BY DEF TypeOK, NoPage, Page, Answers
  <1>2. Stock
    BY DEF Stock, OrdersOK, RequestsOK, PairsOK, HoldersOK, CreatingOK, UnitsAreAccounted, Made
  <1>3. Shown
    BY DEF Shown, PageOK, NoPage
  <1> QED BY <1>1, <1>2, <1>3 DEF Inv

\* Products that are made keep their supply, and never have fewer units sold.
Grows ==
    \A p \in Products : Made(p) =>
        /\ Made(p)'
        /\ products'[p].supply = products[p].supply
        /\ products[p].salesCount <= products'[p].salesCount

LEMMA MadeType ==
    ASSUME TypeOK, NEW p \in Products
    PROVE  Made(p) <=> products[p] \in Product
  BY NothingAssumption DEF TypeOK, Made

LEMMA SoldOutStays ==
    ASSUME TypeOK, TypeOK', Grows, NEW p \in Products, Made(p), IsSoldOut(products[p])
    PROVE  IsSoldOut(products'[p])
  <1>1. products[p] \in Product /\ products'[p] \in Product
    BY MadeType DEF Grows, TypeOK, Made
  <1> QED BY <1>1 DEF Grows, IsSoldOut, Product

\* A step that leaves the stock and its requests alone.
LEMMA StockStays ==
    ASSUME Inv, UNCHANGED <<products, orders, holder, purchase, creating, lost>>
    PROVE  Stock'
  BY DEF Inv, Stock, OrdersOK, RequestsOK, RequestOK, PairsOK, Apart, Reserved, HoldersOK,
         CreatingOK, UnitsAreAccounted, Purchases, Made

\* A step that leaves the pages alone, and the requests that they wait for.
LEMMA ShownStays ==
    ASSUME Inv, TypeOK', Grows, UNCHANGED <<page, catalog>>,
           \A b \in Buyers : page[b].buying =>
               purchase'[b] # None /\ purchase'[b].product = purchase[b].product
    PROVE  Shown'
  <1>1. ASSUME NEW b \in Buyers PROVE PageOK(b)'
    <2>1. PageOK(b) /\ page[b].product \in Products \cup {None}
      BY DEF Inv, Shown, TypeOK, Page
    <2>2. "soldout" \in {page[b].status, page[b].fetch} => page[b].product # None
      BY <2>1 DEF PageOK
    <2>3. "soldout" \in {page[b].status, page[b].fetch} => IsSoldOut(products'[page[b].product])
      BY <2>1, <2>2, SoldOutStays DEF PageOK, Inv
    <2> QED BY <2>1, <2>3 DEF PageOK, Grows
  <1>2. ASSUME NEW p \in catalog PROVE Made(p)' /\ IsSoldOut(products[p])'
    BY SoldOutStays DEF Inv, Shown, TypeOK, Grows
  <1> QED BY <1>1, <1>2 DEF Shown

\* A step of one buyer, for the pages of the others.
LEMMA ShownMoves ==
    ASSUME Inv, TypeOK', Grows, UNCHANGED catalog, NEW b \in Buyers, PageOK(b)',
           \A a \in Buyers \ {b} : page'[a] = page[a] /\ purchase'[a] = purchase[a]
    PROVE  Shown'
  <1>1. ASSUME NEW a \in Buyers \ {b} PROVE PageOK(a)'
    <2>1. PageOK(a) /\ page[a].product \in Products \cup {None}
      BY DEF Inv, Shown, TypeOK, Page
    <2>2. "soldout" \in {page[a].status, page[a].fetch} => page[a].product # None
      BY <2>1 DEF PageOK
    <2>3. "soldout" \in {page[a].status, page[a].fetch} => IsSoldOut(products'[page[a].product])
      BY <2>1, <2>2, SoldOutStays DEF PageOK, Inv
    <2> QED BY <2>1, <2>3 DEF PageOK, Grows
  <1>2. ASSUME NEW p \in catalog PROVE Made(p)' /\ IsSoldOut(products[p])'
    BY SoldOutStays DEF Inv, Shown, TypeOK, Grows
  <1> QED BY <1>1, <1>2 DEF Shown

\* Products that no step touches do not shrink.
LEMMA GrowsStays ==
    ASSUME TypeOK, UNCHANGED products
    PROVE  Grows
  <1>1. \A p \in Products : Made(p) => products[p] \in Product
    BY MadeType
  <1> QED BY <1>1 DEF Grows, Made, Product

-----------------------------------------------------------------------------
(* The seller's steps. *)

\* A product that is made new has sold nothing and has no orders and no requests.
LEMMA NewProducts ==
    ASSUME Inv, TypeOK', UNCHANGED <<orders, holder, purchase, lost>>,
           \A p \in Products :
             IF Made(p) THEN products'[p] = products[p]
             ELSE Made(p)' => products'[p].salesCount = 0 /\ products'[p].status = "open"
    PROVE  /\ OrdersOK' /\ RequestsOK' /\ PairsOK' /\ HoldersOK' /\ UnitsAreAccounted'
           /\ Grows
  <1> USE NothingAssumption
  <1>1. \A p \in Products : Made(p) => Made(p)' /\ products'[p] = products[p]
    BY DEF Made
  <1>2. Grows
    <2>1. \A p \in Products : Made(p) => products[p] \in Product
      BY MadeType DEF Inv
    <2> QED BY <1>1, <2>1 DEF Grows, Product
  <1>3. OrdersOK'
    <2>1. \A o \in Orders : orders[o] \notin {None, HalfMade} => orders[o].product \in Products
      BY DEF Inv, TypeOK, Purchase
    <2> QED BY <1>1, <2>1 DEF Inv, Stock, OrdersOK
  <1>4. RequestsOK'
    <2>1. \A b \in Buyers : purchase[b] # None => purchase[b].product \in Products
      BY DEF Inv, TypeOK, Request
    <2> QED BY <1>1, <2>1 DEF Inv, Stock, RequestsOK, RequestOK, Purchases
  <1>5. PairsOK' /\ HoldersOK'
    BY DEF Inv, Stock, PairsOK, Apart, Reserved, HoldersOK
  <1>6. ASSUME NEW p \in Products, Made(p)', products'[p].supply # 0
        PROVE  /\ products'[p].salesCount <= products'[p].supply
               /\ products'[p].status = "sold_out" <=> IsSoldOut(products'[p])
               /\ \A a, b \in Purchases(p) : a # b => orders[a].unit # orders[b].unit
               /\ \A o \in Purchases(p) : orders[o].unit \in 1 .. products'[p].salesCount
               /\ \A unit \in 1 .. products'[p].salesCount :
                    \/ \E o \in Purchases(p) : orders[o].unit = unit
                    \/ <<p, unit>> \in lost
                    \/ \E b \in Buyers : <<p, unit>> \in Reserved(b)
    <2>1. CASE Made(p)
      BY <1>1, <1>6, <2>1 DEF Inv, Stock, UnitsAreAccounted
    <2>2. CASE ~Made(p)
      <3>1. Purchases(p) = {}
        BY <2>2 DEF Inv, Stock, OrdersOK, Purchases
      <3>2. products'[p] \in Product /\ products'[p].salesCount = 0
            /\ products'[p].status = "open"
        BY <2>2, <1>6 DEF TypeOK, Made
      <3>3. ~IsSoldOut(products'[p]) /\ products'[p].salesCount <= products'[p].supply
        BY <3>2, <1>6, ProductAssumption DEF IsSoldOut, Product
      <3> QED BY <3>1, <3>2, <3>3
    <2> QED BY <2>1, <2>2
  <1>7. UnitsAreAccounted'
    BY <1>6 DEF UnitsAreAccounted, Purchases, Reserved
  <1> QED BY <1>2, <1>3, <1>4, <1>5, <1>7

LEMMA SellerStep ==
    ASSUME Inv, SellerNext
    PROVE  Inv'
  <1> USE ProductAssumption, NothingAssumption
  <1>1. ASSUME NEW p \in Products, NEW supply \in Supplies, OnCreateProduct(p, supply)
        PROVE  Inv'
    <2>1. TypeOK'
      BY <1>1 DEF OnCreateProduct, Inv, TypeOK, Creation, Supplies
    <2>2. \A q \in Products : IF Made(q) THEN products'[q] = products[q] ELSE ~Made(q)'
      BY <1>1 DEF OnCreateProduct, Inv, TypeOK, Made
    <2>3. CreatingOK'
      BY <1>1 DEF OnCreateProduct, CreatingOK, Inv, TypeOK
    <2>4. Stock' /\ Grows
      BY <1>1, <2>1, <2>2, <2>3, NewProducts DEF OnCreateProduct, Stock
    <2>5. Shown'
      BY <1>1, <2>1, <2>4, ShownStays DEF OnCreateProduct, Inv, Shown, PageOK
    <2> QED BY <2>1, <2>4, <2>5 DEF Inv
  <1>2. ASSUME CreateProduct
        PROVE  Inv'
    <2>1. /\ creating \in Creation /\ creating.step = "record"
          /\ products[creating.product] = HalfMade
      BY <1>2 DEF CreateProduct, Inv, TypeOK, Stock, CreatingOK
    <2>2. TypeOK'
      BY <1>2, <2>1 DEF CreateProduct, Inv, TypeOK, Product, Creation
    <2>3. \A q \in Products :
            IF Made(q) THEN products'[q] = products[q]
            ELSE Made(q)' => products'[q].salesCount = 0 /\ products'[q].status = "open"
      BY <1>2, <2>1 DEF CreateProduct, Inv, TypeOK, Made, Creation
    <2>4. CreatingOK'
      BY <1>2, <2>1 DEF CreateProduct, CreatingOK, Creation
    <2>5. Stock' /\ Grows
      BY <1>2, <2>2, <2>3, <2>4, NewProducts DEF CreateProduct, Stock
    <2>6. Shown'
      BY <1>2, <2>2, <2>5, ShownStays DEF CreateProduct, Inv, Shown, PageOK
    <2> QED BY <2>2, <2>5, <2>6 DEF Inv
  <1>3. ASSUME SaveProductReleaseDraft \/ CreateProductFails \/ LoadSellerProducts
        PROVE  Inv'
    <2>1. UNCHANGED <<products, orders, holder, purchase, page, lost>>
          /\ creating' \in {None, creating}
      BY <1>3 DEF SaveProductReleaseDraft, CreateProductFails, LoadSellerProducts
    <2>2. TypeOK'
      <3>1. CASE SaveProductReleaseDraft
        BY <3>1, <2>1 DEF SaveProductReleaseDraft, Inv, TypeOK, Creation
      <3>2. CASE CreateProductFails
        BY <3>2, <2>1 DEF CreateProductFails, Fail, Inv, TypeOK
      <3>3. CASE LoadSellerProducts
        BY <3>3, <2>1 DEF LoadSellerProducts, GetMyProducts, ListProductsForSeller, Inv, TypeOK
      <3> QED BY <1>3, <3>1, <3>2, <3>3
    <2>6. \A p \in Products : (Made(p)' <=> Made(p)) /\ products'[p] = products[p]
      BY <2>1 DEF Made
    <2>7. CreatingOK'
      BY <2>1 DEF Inv, Stock, CreatingOK
    <2>3. Stock' /\ Grows
      BY <2>1, <2>2, <2>6, <2>7, NewProducts DEF Stock
    <2>4. \A b \in Buyers : PageOK(b)'
      BY <2>1 DEF Inv, Shown, PageOK, Made
    <2>5. \A p \in catalog' : Made(p)' /\ IsSoldOut(products'[p])
      BY <1>3, <2>1 DEF SaveProductReleaseDraft, CreateProductFails, LoadSellerProducts,
                        GetMyProducts, ListProductsForSeller, PublicProduct, Inv, Shown, Made
    <2> QED BY <2>2, <2>3, <2>4, <2>5 DEF Inv, Shown
  <1> QED BY <1>1, <1>2, <1>3 DEF SellerNext

-----------------------------------------------------------------------------
(* The steps of a page. *)

LEMMA PageStep ==
    ASSUME Inv, NEW b \in Buyers,
           \/ PageNext(b) \/ GetPublicProductFails(b)
           \/ \E p \in Products : OpenProductPage(b, p)
    PROVE  Inv'
  <1> USE ProductAssumption, NothingAssumption
  <1>1. UNCHANGED <<products, orders, holder, purchase, creating, drafts, catalog, lost>>
    BY DEF PageNext, PollProductListing, GetPublicProduct, ShowProductListing,
           GetPublicProductFails, OpenProductPage
  <1>2. page[b] \in Page /\ page \in [Buyers -> Page] /\ PageOK(b)
    BY DEF Inv, TypeOK, Shown
  <1> DEFINE old == page[b]
             new == page'[b]
             NewOK == /\ new \in Page
                      /\ new.product = None =>
                           new.status = "loading" /\ new.fetch = "none" /\ ~new.buying
                      /\ new.product # None => Made(new.product)
                      /\ "soldout" \in {new.status, new.fetch} => IsSoldOut(products[new.product])
                      /\ new.buying => purchase[b] # None /\ purchase[b].product = new.product
  <1>3. NewOK /\ page' = [page EXCEPT ![b] = new]
    <2>1. ASSUME NEW p \in Products, OpenProductPage(b, p)
          PROVE  NewOK /\ page' = [page EXCEPT ![b] = new]
      <3>1. Made(p) /\ page' = [page EXCEPT ![b] = new]
            /\ new = [NoPage EXCEPT !.product = p, !.fetch = "asked"]
        BY <2>1, <1>2 DEF OpenProductPage
      <3>2. new = [product |-> p, status |-> "loading", fetch |-> "asked", silent |-> FALSE,
                   buying |-> FALSE, order |-> None]
        BY <3>1 DEF NoPage
      <3>3. new \in Page
        BY <3>2 DEF Page, Answers
      <3>4. /\ new.product = p /\ new.status = "loading" /\ new.fetch = "asked"
            /\ new.buying = FALSE
        BY <3>2
      <3>5. Made(new.product) /\ new.product # None
        BY <3>1, <3>4
      <3> QED BY <3>1, <3>3, <3>4, <3>5
    <2>2. CASE PollProductListing(b)
      <3>1. page' = [page EXCEPT ![b] = new] /\ old.fetch = "none" /\ old.status = "ready"
            /\ new = [old EXCEPT !.fetch = "asked", !.silent = TRUE, !.status = old.status]
        BY <2>2, <1>2 DEF PollProductListing, LoadProductListing
      <3>2. /\ new.product = old.product /\ new.status = "ready" /\ new.fetch = "asked"
            /\ new.buying = old.buying /\ new \in Page
        BY <3>1, <1>2 DEF Page, Answers
      <3>3. old.product # None
        BY <3>1, <1>2 DEF PageOK
      <3>4. /\ Made(old.product)
            /\ old.buying => purchase[b] # None /\ purchase[b].product = old.product
        BY <3>3, <1>2 DEF PageOK
      <3>5. new.product = old.product => Made(new.product)
        BY <3>4
      <3> QED BY <3>1, <3>2, <3>3, <3>4, <3>5
    <2>3. CASE GetPublicProduct(b)
      <3>1. page' = [page EXCEPT ![b] = new] /\ old.fetch = "asked"
            /\ new = [old EXCEPT !.fetch = IF IsSoldOut(products[old.product])
                                           THEN "soldout" ELSE "ready"]
        BY <2>3, <1>2 DEF GetPublicProduct, PublicProduct
      <3> QED BY <3>1, <1>2 DEF PageOK, Page, Answers
    <2>4. CASE GetPublicProductFails(b)
      <3>1. page' = [page EXCEPT ![b] = new] /\ old.fetch = "asked"
            /\ new = [old EXCEPT !.fetch = "error"]
        BY <2>4, <1>2 DEF GetPublicProductFails
      <3> QED BY <3>1, <1>2 DEF PageOK, Page, Answers
    <2>5. CASE ShowProductListing(b)
      <3>1. page' = [page EXCEPT ![b] = new] /\ old.fetch \in Answers
            /\ new = [old EXCEPT !.fetch = "none",
                         !.status = IF old.fetch = "error" /\ old.silent THEN old.status
                                    ELSE old.fetch]
        BY <2>5, <1>2 DEF ShowProductListing
      <3>2. old.product # None
        BY <3>1, <1>2 DEF PageOK, Answers
      <3> QED BY <3>1, <3>2, <1>2 DEF PageOK, Page, Answers
    <2> HIDE DEF NewOK
    <2> QED BY <2>1, <2>2, <2>3, <2>4, <2>5 DEF PageNext
  <1>4. failures' \in 0 .. MaxFailures
    <2>1. failures \in 0 .. MaxFailures
      BY DEF Inv, TypeOK
    <2>2. Fail \/ UNCHANGED failures
      BY DEF PageNext, PollProductListing, GetPublicProduct, ShowProductListing,
             GetPublicProductFails, OpenProductPage
    <2> QED BY <2>1, <2>2 DEF Fail
  <1>5. TypeOK'
    BY <1>1, <1>2, <1>3, <1>4 DEF Inv, TypeOK
  <1>6. Shown'
    BY <1>1, <1>2, <1>3 DEF Inv, Shown, PageOK, Made
  <1> QED BY <1>1, <1>5, <1>6, StockStays DEF Inv

-----------------------------------------------------------------------------
(* The steps of a purchase. *)

\* One request moves on, ends or begins, without products or orders: what it does not hold
\* any more is lost.
LEMMA RequestMoves ==
    ASSUME Inv, NEW b \in Buyers,
           UNCHANGED <<products, orders, creating>>,
           \A a \in Buyers \ {b} : purchase'[a] = purchase[a],
           \A a \in Buyers \ {b} : purchase[a] # None /\ holder[purchase[a].product] = a
               => holder'[purchase[a].product] = a,
           lost \subseteq lost', Reserved(b) \subseteq Reserved(b)' \cup lost',
           Reserved(b)' \subseteq Reserved(b),
           purchase'[b] # None => RequestOK(b)' /\ purchase'[b].step # "record",
           HoldersOK'
    PROVE  Stock'
  <1>1. OrdersOK' /\ CreatingOK'
    BY DEF Inv, Stock, OrdersOK, CreatingOK, Made
  <1>2. \A a \in Buyers \ {b} : Reserved(a)' = Reserved(a)
    BY DEF Reserved
  <1>3. RequestsOK'
    <2>1. ASSUME NEW a \in Buyers \ {b}, purchase'[a] # None PROVE RequestOK(a)'
      BY <2>1 DEF Inv, Stock, RequestsOK, RequestOK, Purchases, Made
    <2> QED BY <2>1 DEF RequestsOK
  <1>4. PairsOK'
    BY <1>2 DEF Inv, Stock, PairsOK, Apart, Reserved
  <1>5. UnitsAreAccounted'
    <2>1. ASSUME NEW p \in Products, NEW unit \in 1 .. products[p].salesCount,
                 Made(p), products[p].supply # 0
          PROVE  \/ \E o \in Purchases(p) : orders[o].unit = unit
                 \/ <<p, unit>> \in lost'
                 \/ \E a \in Buyers : <<p, unit>> \in Reserved(a)'
      BY <1>2, <2>1 DEF Inv, Stock, UnitsAreAccounted
    <2> QED BY <2>1 DEF Inv, Stock, UnitsAreAccounted, Purchases, Made
  <1> QED BY <1>1, <1>3, <1>4, <1>5, Zenon DEF Stock

LEMMA BuyStep ==
    ASSUME Inv, NEW b \in Buyers, OnBuyProduct(b)
    PROVE  Inv'
  <1> USE ProductAssumption, NothingAssumption
  <1>1. /\ page[b] \in Page /\ page[b].status = "ready" /\ PageOK(b) /\ purchase[b] = None
        /\ page' = [page EXCEPT ![b].buying = TRUE]
        /\ purchase' = [purchase EXCEPT ![b] =
             [step |-> "spawn", product |-> page[b].product, unit |-> 0, order |-> None]]
        /\ UNCHANGED <<products, orders, holder, creating, drafts, catalog, lost, failures>>
    BY DEF OnBuyProduct, Inv, TypeOK, Shown
  <1>2. page[b].product \in Products /\ Made(page[b].product)
    BY <1>1 DEF PageOK, Page
  <1>3. /\ page \in [Buyers -> Page] /\ purchase \in [Buyers -> Request \cup {None}]
        /\ purchase'[b] = [step |-> "spawn", product |-> page[b].product, unit |-> 0,
                           order |-> None]
        /\ purchase'[b] \in Request
    BY <1>1, <1>2 DEF Inv, TypeOK, Request
  <1>4. /\ page' \in [Buyers -> Page]
        /\ purchase' \in [Buyers -> Request \cup {None}]
    BY <1>1, <1>3 DEF Page
  <1>5. TypeOK'
    BY <1>1, <1>4 DEF Inv, TypeOK
  <1>6. Stock'
    <2>1. RequestOK(b)' /\ purchase'[b].step # "record"
      BY <1>1, <1>2, <1>3 DEF RequestOK, Made
    <2>2. Reserved(b) = {} /\ Reserved(b)' = {}
      BY <1>1, <1>3 DEF Reserved
    <2>3. HoldersOK'
      BY <1>1, <1>3 DEF Inv, Stock, HoldersOK, TypeOK
    <2>4. \A a \in Buyers \ {b} : purchase'[a] = purchase[a]
      BY <1>1, <1>3
    <2> QED BY <1>1, <2>1, <2>2, <2>3, <2>4, RequestMoves
  <1>7. ASSUME NEW a \in Buyers PROVE PageOK(a)'
    <2>1. PageOK(a) /\ page[a] \in Page
      BY DEF Inv, Shown, TypeOK
    <2>2. CASE a = b
      <3>1. page'[b] = [page[b] EXCEPT !.buying = TRUE]
        BY <1>1, <1>3
      <3>2. /\ page'[b].product = page[b].product /\ page'[b].status = page[b].status
            /\ page'[b].fetch = page[b].fetch
        BY <3>1, <1>1 DEF Page
      <3>3. purchase'[b] # None /\ purchase'[b].product = page'[b].product
        BY <1>3, <3>2
      <3> QED BY <1>1, <1>2, <2>2, <3>2, <3>3 DEF PageOK, Made
    <2>3. CASE a # b
      BY <1>1, <1>3, <2>1, <2>3 DEF PageOK, Made
    <2> QED BY <2>2, <2>3
  <1>8. Shown'
    BY <1>1, <1>7 DEF Inv, Shown, Made
  <1> QED BY <1>5, <1>6, <1>8 DEF Inv

LEMMA SpawnStep ==
    ASSUME Inv, NEW b \in Buyers, SpawnOrderFromProduct(b)
    PROVE  Inv'
  <1> USE ProductAssumption, NothingAssumption
  <1> DEFINE p == purchase[b].product
             step == IF products[p].supply = 0 THEN "dir" ELSE "reserve"
  <1>1. /\ purchase[b] # None /\ purchase[b].step = "spawn"
        /\ purchase' = [purchase EXCEPT ![b].step = step]
        /\ UNCHANGED <<products, orders, holder, creating, drafts, catalog, page, lost, failures>>
    BY DEF SpawnOrderFromProduct
  <1>2. /\ purchase \in [Buyers -> Request \cup {None}] /\ purchase[b] \in Request
        /\ RequestOK(b)
    BY <1>1 DEF Inv, TypeOK, Stock, RequestsOK
  <1>3. /\ purchase'[b] \in Request /\ purchase'[b] # None
        /\ purchase'[b].step = step /\ purchase'[b].product = p
        /\ purchase'[b].unit = 0 /\ purchase[b].unit = 0
    BY <1>1, <1>2 DEF Request, RequestOK
  <1>4. \A a \in Buyers \ {b} : purchase'[a] = purchase[a]
    BY <1>1, <1>2
  <1>5. TypeOK'
    BY <1>1, <1>2, <1>3 DEF Inv, TypeOK
  <1>6. Stock'
    <2>1. RequestOK(b)' /\ purchase'[b].step # "record"
      BY <1>1, <1>2, <1>3 DEF RequestOK, Made
    <2>2. Reserved(b) = {} /\ Reserved(b)' = {}
      BY <1>3 DEF Reserved
    <2>3. HoldersOK'
      BY <1>1, <1>3, <1>4 DEF Inv, Stock, HoldersOK, TypeOK
    <2> QED BY <1>1, <1>4, <2>1, <2>2, <2>3, RequestMoves
  <1>7. Shown'
    <2>1. Grows
      <3>1. \A q \in Products : Made(q) => products[q] \in Product
        BY MadeType DEF Inv
      <3> QED BY <1>1, <3>1 DEF Grows, Made, Product
    <2>2. \A a \in Buyers : page[a].buying =>
            purchase'[a] # None /\ purchase'[a].product = purchase[a].product
      BY <1>3, <1>4 DEF Inv, Shown, PageOK
    <2> QED BY <1>1, <1>5, <2>1, <2>2, ShownStays
  <1> QED BY <1>5, <1>6, <1>7 DEF Inv

LEMMA RejectStep ==
    ASSUME Inv, NEW b \in Buyers, ReadProductForSale(b),
           IsSoldOut(products[purchase[b].product])
    PROVE  Inv'
  <1> USE ProductAssumption, NothingAssumption
  <1>1. /\ purchase[b] # None /\ purchase[b].step = "reserve"
        /\ purchase' = [purchase EXCEPT ![b] = None] /\ RejectPurchase(b)
        /\ UNCHANGED <<products, orders, holder, creating, drafts, catalog, lost, failures>>
    BY DEF ReadProductForSale, RejectPurchase
  <1>2. /\ purchase \in [Buyers -> Request \cup {None}] /\ page \in [Buyers -> Page]
        /\ page[b] \in Page /\ PageOK(b)
    BY DEF Inv, TypeOK, Shown
  <1>3. /\ purchase'[b] = None
        /\ \A a \in Buyers \ {b} : purchase'[a] = purchase[a]
    BY <1>1, <1>2
  <1> DEFINE old == page[b]
             new == page'[b]
             NewOK == /\ new \in Page /\ ~new.buying
                      /\ new.product = None => new.status = "loading" /\ new.fetch = "none"
                      /\ new.product # None => Made(new.product)
                      /\ "soldout" \in {new.status, new.fetch} => IsSoldOut(products[new.product])
  <1>4. NewOK /\ page' = [page EXCEPT ![b] = new]
    <2>1. CASE ~old.buying
      <3>1. page' = page
        BY <1>1, <2>1 DEF RejectPurchase, Asking
      <3> QED BY <1>2, <2>1, <3>1 DEF PageOK
    <2>2. CASE old.buying /\ old.fetch # "none"
      <3>1. page' = [page EXCEPT ![b] = new]
            /\ new = [old EXCEPT !.buying = FALSE, !.status = "soldout"]
        BY <1>1, <1>2, <2>2 DEF RejectPurchase, Asking, LoadProductListing
      <3>2. /\ new.product = old.product /\ new.status = "soldout" /\ new.fetch = old.fetch
            /\ new.buying = FALSE /\ new \in Page
        BY <3>1, <1>2 DEF Page, Answers
      <3>3. old.product # None /\ Made(old.product) /\ IsSoldOut(products[old.product])
        BY <1>2, <2>2 DEF PageOK
      <3> QED BY <3>1, <3>2, <3>3
    <2>3. CASE old.buying /\ old.fetch = "none"
      <3>1. page' = [page EXCEPT ![b] = new]
            /\ new = [old EXCEPT !.fetch = "asked", !.silent = FALSE, !.status = "loading",
                                 !.buying = FALSE]
        BY <1>1, <1>2, <2>3 DEF RejectPurchase, Asking, LoadProductListing, Page
      <3>2. /\ new.product = old.product /\ new.status = "loading" /\ new.fetch = "asked"
            /\ new.buying = FALSE /\ new \in Page
        BY <3>1, <1>2 DEF Page, Answers
      <3>3. old.product # None /\ Made(old.product)
        BY <1>2, <2>3 DEF PageOK
      <3> QED BY <3>1, <3>2, <3>3
    <2> QED BY <2>1, <2>2, <2>3
  <1>5. TypeOK'
    <2>1. page' \in [Buyers -> Page] /\ purchase' \in [Buyers -> Request \cup {None}]
      BY <1>1, <1>2, <1>4
    <2> QED BY <1>1, <2>1 DEF Inv, TypeOK
  <1>6. Stock'
    <2>1. Reserved(b) = {} /\ Reserved(b)' = {}
      BY <1>1, <1>3 DEF Reserved
    <2>2. HoldersOK'
      BY <1>1, <1>3 DEF Inv, Stock, HoldersOK, TypeOK
    <2> QED BY <1>1, <1>3, <2>1, <2>2, RequestMoves
  <1>7. Shown'
    <2>1. PageOK(b)'
      BY <1>1, <1>4 DEF PageOK, Made
    <2>2. \A a \in Buyers \ {b} : page'[a] = page[a] /\ purchase'[a] = purchase[a]
      BY <1>2, <1>3, <1>4
    <2> QED BY <1>1, <1>5, <2>1, <2>2, GrowsStays, ShownMoves DEF Inv
  <1> QED BY <1>5, <1>6, <1>7 DEF Inv

LEMMA ReserveStep ==
    ASSUME Inv, NEW b \in Buyers, ReadProductForSale(b),
           ~IsSoldOut(products[purchase[b].product])
    PROVE  Inv'
  <1> USE ProductAssumption, NothingAssumption
  <1> DEFINE p == purchase[b].product
             unit == products[p].salesCount + 1
  <1>1. /\ purchase[b] # None /\ purchase[b].step = "reserve" /\ holder[p] = None
        /\ holder' = [holder EXCEPT ![p] = b]
        /\ purchase' = [purchase EXCEPT ![b].step = "write", ![b].unit = unit]
        /\ UNCHANGED <<products, orders, creating, drafts, catalog, page, lost, failures>>
    BY DEF ReadProductForSale, LockFree
  <1>2. /\ purchase \in [Buyers -> Request \cup {None}] /\ purchase[b] \in Request
        /\ holder \in [Products -> Buyers \cup {None}] /\ RequestOK(b)
    BY <1>1 DEF Inv, TypeOK, Stock, RequestsOK
  <1>3. p \in Products /\ Made(p) /\ products[p].supply # 0 /\ products[p] \in Product
    BY <1>1, <1>2, MadeType DEF RequestOK, Request, Inv
  <1>4. unit \in 0 .. MaxSupply /\ unit <= products[p].supply
    BY <1>3 DEF Product, IsSoldOut
  <1> HIDE DEF unit
  <1>5. /\ purchase'[b] \in Request /\ purchase'[b] # None
        /\ purchase'[b].step = "write" /\ purchase'[b].product = p
        /\ purchase'[b].unit = unit
        /\ \A a \in Buyers \ {b} : purchase'[a] = purchase[a]
    <2>1. /\ purchase'[b] = [purchase[b] EXCEPT !.step = "write", !.unit = unit]
          /\ \A a \in Buyers \ {b} : purchase'[a] = purchase[a]
      BY <1>1, <1>2
    <2>2. purchase'[b] = [step |-> "write", product |-> p, unit |-> unit,
                          order |-> purchase[b].order]
      BY <1>2, <2>1 DEF Request
    <2>3. purchase'[b] \in Request
      BY <1>2, <1>4, <2>2 DEF Request
    <2> QED BY <2>1, <2>2, <2>3
  <1>6. /\ purchase' \in [Buyers -> Request \cup {None}]
        /\ holder' \in [Products -> Buyers \cup {None}]
    BY <1>1, <1>2, <1>3, <1>5
  <1>7. TypeOK'
    BY <1>1, <1>6 DEF Inv, TypeOK
  <1>8. Stock'
    <2>1. RequestOK(b)' /\ purchase'[b].step # "record"
      BY <1>1, <1>2, <1>3, <1>4, <1>5 DEF RequestOK, Made, unit
    <2>2. Reserved(b) = {} /\ Reserved(b)' = {}
      BY <1>1, <1>5 DEF Reserved
    <2>3. HoldersOK'
      BY <1>1, <1>2, <1>3, <1>5 DEF Inv, Stock, HoldersOK
    <2>4. \A a \in Buyers \ {b} : purchase[a] # None /\ holder[purchase[a].product] = a
            => holder'[purchase[a].product] = a
      BY <1>1, <1>2, <1>3 DEF Request
    <2> QED BY <1>1, <1>5, <2>1, <2>2, <2>3, <2>4, RequestMoves
  <1>9. Shown'
    <2>1. \A a \in Buyers : page[a].buying =>
            purchase'[a] # None /\ purchase'[a].product = purchase[a].product
      BY <1>5 DEF Inv, Shown, PageOK
    <2> QED BY <1>1, <1>7, <2>1, GrowsStays, ShownStays DEF Inv
  <1> QED BY <1>7, <1>8, <1>9 DEF Inv

\* A sale is counted, and nothing else happens to products.
Counts(b) ==
    LET p == purchase[b].product IN
    /\ p \in Products /\ Made(p)
    /\ products[p].salesCount \in Nat /\ products[p].supply \in Nat
    /\ products[p].salesCount < products[p].supply
    /\ \A q \in Products : (Made(q)' <=> Made(q))
    /\ \A q \in Products : Made(q) =>
         /\ products'[q].supply = products[q].supply
         /\ products'[q].salesCount =
              (IF q = p THEN products[q].salesCount + 1 ELSE products[q].salesCount)

LEMMA RecordStep ==
    ASSUME Inv, NEW b \in Buyers, RecordProductSale(b)
    PROVE  Inv' /\ Counts(b)
  <1> USE ProductAssumption
  <1> DEFINE p == purchase[b].product
             unit == purchase[b].unit
             now == [products[p] EXCEPT
                       !.salesCount = unit,
                       !.status = IF unit >= products[p].supply THEN "sold_out" ELSE @]
  <1>1. /\ purchase[b] # None /\ purchase[b].step = "write"
        /\ products' = [products EXCEPT ![p] = now]
        /\ holder' = [holder EXCEPT ![p] = None]
        /\ purchase' = [purchase EXCEPT ![b].step = "dir"]
        /\ UNCHANGED <<orders, creating, drafts, catalog, page, lost, failures>>
    BY DEF RecordProductSale
  <1>2. /\ purchase \in [Buyers -> Request \cup {None}] /\ purchase[b] \in Request
        /\ holder \in [Products -> Buyers \cup {None}] /\ RequestOK(b)
        /\ products \in [Products -> Product \cup {None, HalfMade}]
    BY <1>1 DEF Inv, TypeOK, Stock, RequestsOK
  <1>3. /\ p \in Products /\ Made(p) /\ products[p] \in Product
        /\ products[p].supply # 0 /\ holder[p] = b
        /\ unit = products[p].salesCount + 1 /\ unit <= products[p].supply
    BY <1>1, <1>2, MadeType DEF RequestOK, Request, Inv
  <1>4. /\ unit \in 1 .. MaxSupply /\ products[p].salesCount \in Nat
        /\ products[p].supply \in Nat /\ products[p].supply <= MaxSupply
    BY <1>3 DEF Product
  <1>5. /\ now \in Product /\ now.supply = products[p].supply /\ now.salesCount = unit
        /\ now.status = (IF unit >= products[p].supply THEN "sold_out" ELSE products[p].status)
    <2>1. now = [supply |-> products[p].supply, salesCount |-> unit,
                 status |-> IF unit >= products[p].supply THEN "sold_out"
                            ELSE products[p].status]
      <3> DEFINE status == IF unit >= products[p].supply THEN "sold_out"
                           ELSE products[p].status
      <3>1. now = [products[p] EXCEPT !.salesCount = unit, !.status = status]
        BY <1>3 DEF Product
      <3> HIDE DEF p, unit, now, status
      <3>2. now = [supply |-> products[p].supply, salesCount |-> unit, status |-> status]
        BY <1>3, <3>1 DEF Product
      <3> QED BY <3>2 DEF status
    <2>2. /\ unit \in 0 .. MaxSupply /\ products[p].supply \in 0 .. MaxSupply
          /\ products[p].status \in {"open", "sold_out"}
      BY <1>3, <1>4 DEF Product
    <2> HIDE DEF now, p, unit
    <2>3. now \in Product
      BY <2>1, <2>2 DEF Product
    <2> QED BY <2>1, <2>3
  <1>6. /\ products'[p] = now
        /\ \A q \in Products \ {p} : products'[q] = products[q]
    BY <1>1, <1>2, <1>3
  <1>7. /\ purchase'[b] \in Request /\ purchase'[b] # None
        /\ purchase'[b].step = "dir" /\ purchase'[b].product = p
        /\ purchase'[b].unit = unit
        /\ \A a \in Buyers \ {b} : purchase'[a] = purchase[a]
    BY <1>1, <1>2, NothingAssumption DEF Request
  <1> HIDE DEF now
  <1>8. TypeOK'
    <2>1. /\ purchase' \in [Buyers -> Request \cup {None}]
          /\ holder' \in [Products -> Buyers \cup {None}]
          /\ products' \in [Products -> Product \cup {None, HalfMade}]
      BY <1>1, <1>2, <1>3, <1>5, <1>7
    <2> QED BY <1>1, <2>1 DEF Inv, TypeOK
  <1>9. /\ \A q \in Products : Made(q)' <=> Made(q)
        /\ Grows
    <2>1. \A q \in Products : Made(q) => products[q] \in Product
      BY MadeType DEF Inv
    <2>2. now \notin {None, HalfMade}
      BY <1>5, NothingAssumption
    <2>3. \A q \in Products : Made(q)' <=> Made(q)
      BY <1>3, <1>6, <2>2 DEF Made
    <2>4. ASSUME NEW q \in Products, Made(q)
          PROVE  /\ products'[q].supply = products[q].supply
                 /\ products[q].salesCount <= products'[q].salesCount
      <3>1. CASE q = p
        BY <3>1, <1>3, <1>4, <1>5, <1>6
      <3>2. CASE q # p
        BY <3>2, <1>6, <2>1, <2>4 DEF Product
      <3> QED BY <3>1, <3>2
    <2> QED BY <2>3, <2>4 DEF Grows
  <1>10. \A o \in Orders : orders[o] \notin {None, HalfMade} =>
           /\ orders[o].product \in Products /\ Made(orders[o].product)
           /\ IF products[orders[o].product].supply = 0
                THEN orders[o].unit = 0
                ELSE orders[o].unit \in 1 .. products[orders[o].product].salesCount
    BY DEF Inv, Stock, OrdersOK, TypeOK, Purchase
  <1>11. OrdersOK'
    <2>1. ASSUME NEW o \in Orders, orders[o] \notin {None, HalfMade},
                 NEW q \in Products, q = orders[o].product
          PROVE  /\ Made(q)'
                 /\ IF products'[q].supply = 0 THEN orders[o].unit = 0
                    ELSE orders[o].unit \in 1 .. products'[q].salesCount
      <3>1. Made(q) /\ Made(q)'
        BY <2>1, <1>9, <1>10
      <3>2. products[q] \in Product /\ products'[q] \in Product
        BY <3>1, <1>8, MadeType DEF Inv, TypeOK, Made
      <3>3. /\ products'[q].supply = products[q].supply
            /\ products[q].salesCount <= products'[q].salesCount
            /\ products[q].salesCount \in Nat /\ products'[q].salesCount \in Nat
        BY <3>1, <3>2, <1>9 DEF Grows, Product
      <3>4. IF products[q].supply = 0 THEN orders[o].unit = 0
            ELSE orders[o].unit \in 1 .. products[q].salesCount
        BY <2>1, <1>10
      <3> QED BY <3>1, <3>3, <3>4
    <2> QED BY <1>1, <1>10, <2>1 DEF OrdersOK, Made
  <1>12. \A o \in Purchases(p) : orders[o].unit \in 1 .. products[p].salesCount
    BY <1>3, <1>10 DEF Purchases
  <1>13. ASSUME NEW a \in Buyers \ {b}, purchase[a] # None
         PROVE  /\ RequestOK(a)'
                /\ <<p, unit>> \notin Reserved(a)
    <2>1. RequestOK(a) /\ purchase'[a] = purchase[a] /\ purchase[a].product \in Products
      BY <1>7, <1>13 DEF Inv, Stock, RequestsOK, TypeOK, Request
    <2>2. CASE purchase[a].product = p
      <3>1. purchase[a].step # "write" /\ b # a
        BY <1>3, <1>13, <2>1, <2>2 DEF RequestOK
      <3>2. purchase[a].step \in {"dir", "record"} =>
              /\ purchase[a].unit \in 1 .. products[p].salesCount
              /\ purchase[a].unit \in 1 .. products'[p].salesCount
              /\ \A o \in Purchases(p) : orders[o].unit # purchase[a].unit
        BY <1>3, <1>4, <1>5, <1>6, <2>1, <2>2 DEF RequestOK
      <3>3. <<p, unit>> \notin Reserved(a)
        BY <1>3, <1>4, <3>2, <2>2 DEF Reserved
      <3>4. RequestOK(a)'
        BY <1>1, <1>3, <1>5, <1>6, <1>9, <2>1, <2>2, <3>1, <3>2 DEF RequestOK, Purchases
      <3> QED BY <3>3, <3>4
    <2>3. CASE purchase[a].product # p
      <3>1. products'[purchase[a].product] = products[purchase[a].product]
            /\ holder'[purchase[a].product] = holder[purchase[a].product]
        BY <1>1, <1>2, <1>6, <2>1, <2>3
      <3>2. <<p, unit>> \notin Reserved(a)
        BY <2>3 DEF Reserved
      <3> QED BY <1>1, <1>9, <2>1, <3>1, <3>2 DEF RequestOK, Purchases
    <2> QED BY <2>2, <2>3
  <1>14. RequestsOK'
    <2>1. RequestOK(b)'
      <3>1. unit \in 1 .. products'[p].salesCount
        BY <1>4, <1>5, <1>6
      <3>2. \A o \in Purchases(p) : orders[o].unit # unit
        BY <1>3, <1>4, <1>12
      <3> QED BY <1>1, <1>3, <1>5, <1>6, <1>7, <1>9, <3>1, <3>2 DEF RequestOK, Purchases
    <2> QED BY <1>7, <1>13, <2>1 DEF RequestsOK
  <1>15. Reserved(b)' = {<<p, unit>>} /\ \A a \in Buyers \ {b} : Reserved(a)' = Reserved(a)
    <2>1. Reserved(b)' = {<<p, unit>>}
      <3>1. unit # 0
        BY <1>4
      <3> QED BY <1>7, <3>1 DEF Reserved
    <2>2. \A a \in Buyers \ {b} : Reserved(a)' = Reserved(a)
      BY <1>7 DEF Reserved
    <2> QED BY <2>1, <2>2
  <1>16. PairsOK'
    BY <1>7, <1>13, <1>15 DEF Inv, Stock, PairsOK, Apart
  <1>17. HoldersOK'
    BY <1>1, <1>2, <1>3, <1>7 DEF Inv, Stock, HoldersOK
  <1>18. CreatingOK'
    <2>1. creating # None => creating.product \in Products
      BY DEF Inv, TypeOK, Creation
    <2>2. products[p] # HalfMade
      BY <1>3 DEF Made
    <2> QED BY <1>1, <1>6, <2>1, <2>2 DEF Inv, Stock, CreatingOK
  <1>19. UnitsAreAccounted'
    <2>1. ASSUME NEW q \in Products, Made(q), products[q].supply # 0
          PROVE  /\ products'[q].salesCount <= products'[q].supply
                 /\ products'[q].status = "sold_out" <=> IsSoldOut(products'[q])
                 /\ \A o, r \in Purchases(q) : o # r => orders[o].unit # orders[r].unit
                 /\ \A o \in Purchases(q) : orders[o].unit \in 1 .. products'[q].salesCount
                 /\ \A n \in 1 .. products'[q].salesCount :
                      \/ \E o \in Purchases(q) : orders[o].unit = n
                      \/ <<q, n>> \in lost
                      \/ \E a \in Buyers : <<q, n>> \in Reserved(a)'
      <3>1. /\ products[q].salesCount <= products[q].supply
            /\ products[q].status = "sold_out" <=> IsSoldOut(products[q])
            /\ \A o, r \in Purchases(q) : o # r => orders[o].unit # orders[r].unit
            /\ \A o \in Purchases(q) : orders[o].unit \in 1 .. products[q].salesCount
            /\ \A n \in 1 .. products[q].salesCount :
                 \/ \E o \in Purchases(q) : orders[o].unit = n
                 \/ <<q, n>> \in lost
                 \/ \E a \in Buyers : <<q, n>> \in Reserved(a)
        BY <2>1 DEF Inv, Stock, UnitsAreAccounted
      <3>2. \A a \in Buyers : Reserved(a) \subseteq Reserved(a)'
        <4>1. Reserved(b) = {}
          BY <1>1 DEF Reserved
        <4> QED BY <1>15, <4>1
      <3>3. CASE q = p
        <4>1. products'[p].status = "sold_out" <=> IsSoldOut(products'[p])
          BY <1>3, <1>4, <1>5, <1>6, <3>1, <3>3 DEF IsSoldOut
        <4>2. \A n \in 1 .. products'[p].salesCount :
                n \in 1 .. products[p].salesCount \/ n = unit
          BY <1>3, <1>4, <1>5, <1>6
        <4>3. \A n \in 1 .. products'[p].salesCount :
                \/ \E o \in Purchases(p) : orders[o].unit = n
                \/ <<p, n>> \in lost
                \/ \E a \in Buyers : <<p, n>> \in Reserved(a)'
          BY <1>15, <3>1, <3>2, <3>3, <4>2
        <4>4. \A o \in Purchases(p) : orders[o].unit \in 1 .. products'[p].salesCount
          BY <1>3, <1>4, <1>5, <1>6, <1>12
        <4> QED BY <1>3, <1>5, <1>6, <3>1, <3>3, <4>1, <4>3, <4>4
      <3>4. CASE q # p
        BY <1>6, <3>1, <3>2, <3>4
      <3> QED BY <3>3, <3>4
    <2>2. \A q \in Products : Made(q) => products'[q].supply = products[q].supply
      BY <1>9 DEF Grows
    <2>3. \A q \in Products : Purchases(q)' = Purchases(q)
      BY <1>1 DEF Purchases
    <2> QED BY <1>1, <1>9, <2>1, <2>2, <2>3 DEF UnitsAreAccounted
  <1>20. Shown'
    <2>1. \A a \in Buyers : page[a].buying =>
            purchase'[a] # None /\ purchase'[a].product = purchase[a].product
      BY <1>7 DEF Inv, Shown, PageOK
    <2> QED BY <1>1, <1>8, <1>9, <2>1, ShownStays
  <1>21. Counts(b)
    <2>1. ASSUME NEW q \in Products, Made(q)
          PROVE  /\ products'[q].supply = products[q].supply
                 /\ products'[q].salesCount =
                      (IF q = p THEN products[q].salesCount + 1 ELSE products[q].salesCount)
      BY <1>3, <1>5, <1>6, <2>1
    <2>2. products[p].salesCount < products[p].supply
      BY <1>3, <1>4
    <2> QED BY <1>3, <1>4, <1>9, <2>1, <2>2 DEF Counts
  <1> QED BY <1>8, <1>11, <1>14, <1>16, <1>17, <1>18, <1>19, <1>20, <1>21 DEF Inv, Stock

LEMMA MakeDirStep ==
    ASSUME Inv, NEW b \in Buyers, MakeOrderDir(b)
    PROVE  Inv'
  <1> USE ProductAssumption
  <1>1. PICK o \in Orders :
          /\ orders[o] = None
          /\ orders' = [orders EXCEPT ![o] = HalfMade]
          /\ purchase' = [purchase EXCEPT ![b].step = "record", ![b].order = o]
    BY DEF MakeOrderDir
  <1>2. /\ purchase[b] # None /\ purchase[b].step = "dir"
        /\ UNCHANGED <<products, holder, creating, drafts, catalog, page, lost, failures>>
    BY DEF MakeOrderDir
  <1>3. /\ purchase \in [Buyers -> Request \cup {None}] /\ purchase[b] \in Request
        /\ RequestOK(b) /\ orders \in [Orders -> Purchase \cup {None, HalfMade}]
    BY <1>2 DEF Inv, TypeOK, Stock, RequestsOK
  <1>4. /\ purchase'[b] \in Request /\ purchase'[b] # None
        /\ purchase'[b].step = "record" /\ purchase'[b].product = purchase[b].product
        /\ purchase'[b].unit = purchase[b].unit /\ purchase'[b].order = o
        /\ \A a \in Buyers \ {b} : purchase'[a] = purchase[a]
    BY <1>1, <1>3, NothingAssumption DEF Request
  <1>5. orders'[o] = HalfMade /\ \A q \in Orders \ {o} : orders'[q] = orders[q]
    BY <1>1, <1>3
  <1>6. TypeOK'
    <2>1. /\ purchase' \in [Buyers -> Request \cup {None}]
          /\ orders' \in [Orders -> Purchase \cup {None, HalfMade}]
      BY <1>1, <1>3, <1>4
    <2> QED BY <1>2, <2>1 DEF Inv, TypeOK
  <1>7. \A q \in Orders : /\ orders'[q] \notin {None, HalfMade} => orders'[q] = orders[q]
                          /\ orders[q] \notin {None, HalfMade} => orders'[q] = orders[q]
    BY <1>1, <1>5
  <1>8. \A p \in Products : Made(p)' = Made(p) /\ Purchases(p)' = Purchases(p)
    BY <1>2, <1>7 DEF Made, Purchases
  <1>9. OrdersOK'
    BY <1>2, <1>7 DEF Inv, Stock, OrdersOK, Made
  <1>10. \A p \in Products : \A q \in Purchases(p) : orders'[q] = orders[q]
    BY <1>7 DEF Purchases
  <1>11. RequestsOK'
    <2>1. RequestOK(b)'
      <3>1. purchase[b].product \in Products
        BY <1>3 DEF Request
      <3> QED BY <1>2, <1>3, <1>4, <1>5, <1>8, <1>10, <3>1 DEF RequestOK, Made
    <2>2. ASSUME NEW a \in Buyers \ {b}, purchase[a] # None PROVE RequestOK(a)'
      <3>1. RequestOK(a) /\ purchase'[a] = purchase[a] /\ purchase[a].product \in Products
        BY <1>4, <2>2 DEF Inv, Stock, RequestsOK, TypeOK, Request
      <3>2. purchase[a].step = "record" => orders'[purchase[a].order] = HalfMade
        BY <1>1, <1>5, <3>1 DEF RequestOK
      <3> QED BY <1>2, <1>8, <1>10, <3>1, <3>2 DEF RequestOK, Made
    <2> QED BY <1>4, <2>1, <2>2 DEF RequestsOK
  <1>12. \A a \in Buyers : Reserved(a)' = Reserved(a)
    BY <1>2, <1>4 DEF Reserved
  <1>13. PairsOK'
    <2>1. ASSUME NEW a \in Buyers \ {b}, purchase[a] # None, purchase[a].step = "record"
          PROVE  purchase[a].order # o
      BY <1>1, <2>1 DEF Inv, Stock, RequestsOK, RequestOK
    <2> QED BY <1>2, <1>4, <1>12, <2>1 DEF Inv, Stock, PairsOK, Apart
  <1>14. HoldersOK' /\ CreatingOK'
    BY <1>2, <1>4 DEF Inv, Stock, HoldersOK, CreatingOK, TypeOK
  <1>15. UnitsAreAccounted'
    BY <1>2, <1>8, <1>10, <1>12 DEF Inv, Stock, UnitsAreAccounted
  <1>16. Shown'
    <2>1. \A a \in Buyers : page[a].buying =>
            purchase'[a] # None /\ purchase'[a].product = purchase[a].product
      BY <1>4 DEF Inv, Shown, PageOK
    <2> QED BY <1>2, <1>6, <2>1, GrowsStays, ShownStays DEF Inv
  <1> QED BY <1>6, <1>9, <1>11, <1>13, <1>14, <1>15, <1>16 DEF Inv, Stock

LEMMA CreateOrderStep ==
    ASSUME Inv, NEW b \in Buyers, CreateTransferOrder(b)
    PROVE  Inv'
  <1> USE ProductAssumption
  <1> DEFINE o == purchase[b].order
             p == purchase[b].product
             unit == purchase[b].unit
             sold == [product |-> p, unit |-> unit]
  <1>1. /\ purchase[b] # None /\ purchase[b].step = "record"
        /\ orders' = [orders EXCEPT ![o] = sold]
        /\ purchase' = [purchase EXCEPT ![b].step = "answer"]
        /\ UNCHANGED <<products, holder, creating, drafts, catalog, page, lost, failures>>
    BY DEF CreateTransferOrder
  <1>2. /\ purchase \in [Buyers -> Request \cup {None}] /\ purchase[b] \in Request
        /\ RequestOK(b) /\ orders \in [Orders -> Purchase \cup {None, HalfMade}]
    BY <1>1 DEF Inv, TypeOK, Stock, RequestsOK
  <1>3. /\ p \in Products /\ unit \in 0 .. MaxSupply /\ o \in Orders /\ orders[o] = HalfMade
        /\ Made(p) /\ products[p] \in Product
        /\ IF products[p].supply = 0 THEN unit = 0
           ELSE /\ unit \in 1 .. products[p].salesCount
                /\ \A q \in Purchases(p) : orders[q].unit # unit
    BY <1>1, <1>2, MadeType DEF RequestOK, Request, Inv
  <1>4. /\ purchase'[b] \in Request /\ purchase'[b] # None
        /\ purchase'[b].step = "answer" /\ purchase'[b].product = p
        /\ \A a \in Buyers \ {b} : purchase'[a] = purchase[a]
        /\ orders'[o] = sold
        /\ \A q \in Orders \ {o} : orders'[q] = orders[q]
    BY <1>1, <1>2, <1>3, NothingAssumption DEF Request
  <1>5. /\ sold \in Purchase /\ sold \notin {None, HalfMade}
        /\ sold.product = p /\ sold.unit = unit
    BY <1>3, NothingAssumption DEF Purchase
  <1> HIDE DEF sold
  <1>6. TypeOK'
    <2>1. /\ purchase' \in [Buyers -> Request \cup {None}]
          /\ orders' \in [Orders -> Purchase \cup {None, HalfMade}]
      BY <1>1, <1>2, <1>4, <1>5
    <2> QED BY <1>1, <2>1 DEF Inv, TypeOK
  <1>7. /\ \A q \in Products :
             Purchases(q)' = Purchases(q) \cup (IF q = p THEN {o} ELSE {})
        /\ o \notin Purchases(p)
    BY <1>3, <1>4, <1>5 DEF Purchases
  <1>8. \A q \in Products : \A r \in Purchases(q) : orders'[r] = orders[r]
    BY <1>3, <1>4 DEF Purchases
  <1>9. OrdersOK'
    BY <1>1, <1>3, <1>4, <1>5 DEF Inv, Stock, OrdersOK, Made
  <1>10. ASSUME NEW a \in Buyers \ {b}, purchase[a] # None
         PROVE  RequestOK(a)'
    <2>1. /\ RequestOK(a) /\ purchase'[a] = purchase[a] /\ purchase[a].product \in Products
          /\ Apart(a, b)
      BY <1>1, <1>4, <1>10 DEF Inv, Stock, RequestsOK, PairsOK, TypeOK, Request
    <2>2. purchase[a].step = "record" => orders'[purchase[a].order] = HalfMade
      BY <1>1, <1>4, <2>1 DEF RequestOK, Apart
    <2>3. ASSUME purchase[a].step \in {"dir", "record"}, products[purchase[a].product].supply # 0,
                 NEW r \in Purchases(purchase[a].product)'
          PROVE  orders'[r].unit # purchase[a].unit
      <3>1. purchase[a].unit # 0
        BY <2>1, <2>3 DEF RequestOK, Product
      <3>2. CASE r = o /\ purchase[a].product = p
        <4>1. unit # 0
          BY <1>3, <2>3, <3>2 DEF Product
        <4>2. Reserved(b) = {<<p, unit>>} /\ Reserved(a) = {<<p, purchase[a].unit>>}
          BY <1>1, <1>10, <2>3, <3>1, <3>2, <4>1 DEF Reserved
        <4>3. unit # purchase[a].unit
          BY <2>1, <4>2 DEF Apart
        <4> QED BY <1>4, <1>5, <3>2, <4>3
      <3>3. CASE ~(r = o /\ purchase[a].product = p)
        <4>1. r \in Purchases(purchase[a].product)
          BY <1>1, <1>4, <1>7, <2>1, <2>3, <3>3 DEF Purchases
        <4> QED BY <1>8, <2>1, <2>3, <4>1 DEF RequestOK
      <3> QED BY <3>2, <3>3
    <2> QED BY <1>1, <2>1, <2>2, <2>3 DEF RequestOK, Made
  <1>11. RequestsOK'
    <2>1. RequestOK(b)'
      BY <1>1, <1>3, <1>4 DEF RequestOK, Made
    <2> QED BY <1>4, <1>10, <2>1 DEF RequestsOK
  <1>12. \A a \in Buyers \ {b} : Reserved(a)' = Reserved(a)
    BY <1>4 DEF Reserved
  <1>13. PairsOK'
    <2>1. Reserved(b)' = {}
      BY <1>4 DEF Reserved
    <2> QED BY <1>4, <1>12, <2>1 DEF Inv, Stock, PairsOK, Apart
  <1>14. HoldersOK' /\ CreatingOK'
    BY <1>1, <1>4 DEF Inv, Stock, HoldersOK, CreatingOK, TypeOK
  <1>15. UnitsAreAccounted'
    <2>1. ASSUME NEW q \in Products, Made(q), products[q].supply # 0
          PROVE  /\ \A c, d \in Purchases(q)' : c # d => orders'[c].unit # orders'[d].unit
                 /\ \A c \in Purchases(q)' : orders'[c].unit \in 1 .. products[q].salesCount
                 /\ \A n \in 1 .. products[q].salesCount :
                      \/ \E c \in Purchases(q)' : orders'[c].unit = n
                      \/ <<q, n>> \in lost
                      \/ \E a \in Buyers : <<q, n>> \in Reserved(a)'
      <3>1. /\ \A c, d \in Purchases(q) : c # d => orders[c].unit # orders[d].unit
            /\ \A c \in Purchases(q) : orders[c].unit \in 1 .. products[q].salesCount
            /\ \A n \in 1 .. products[q].salesCount :
                 \/ \E c \in Purchases(q) : orders[c].unit = n
                 \/ <<q, n>> \in lost
                 \/ \E a \in Buyers : <<q, n>> \in Reserved(a)
        BY <2>1 DEF Inv, Stock, UnitsAreAccounted
      <3>2. orders'[o].unit = unit
        BY <1>4, <1>5
      <3>3. \A n : <<q, n>> \in Reserved(b) => q = p /\ n = unit
        BY DEF Reserved
      <3>4. CASE q = p
        <4>1. /\ Purchases(q)' = Purchases(q) \cup {o} /\ o \notin Purchases(q)
              /\ unit \in 1 .. products[q].salesCount
              /\ \A c \in Purchases(q) : orders'[c] = orders[c] /\ orders[c].unit # unit
          BY <1>3, <1>7, <1>8, <2>1, <3>4
        <4>2. \A n \in 1 .. products[q].salesCount :
                \/ \E c \in Purchases(q)' : orders'[c].unit = n
                \/ <<q, n>> \in lost
                \/ \E a \in Buyers : <<q, n>> \in Reserved(a)'
          BY <1>12, <3>1, <3>2, <3>3, <4>1
        <4> QED BY <3>1, <3>2, <4>1, <4>2
      <3>5. CASE q # p
        BY <1>7, <1>8, <1>12, <3>1, <3>3, <3>5
      <3> QED BY <3>4, <3>5
    <2> QED BY <1>1, <2>1 DEF Inv, Stock, UnitsAreAccounted, Made
  <1>16. Shown'
    <2>1. \A a \in Buyers : page[a].buying =>
            purchase'[a] # None /\ purchase'[a].product = purchase[a].product
      BY <1>4 DEF Inv, Shown, PageOK
    <2> QED BY <1>1, <1>6, <2>1, GrowsStays, ShownStays DEF Inv
  <1> QED BY <1>6, <1>9, <1>11, <1>13, <1>14, <1>15, <1>16 DEF Inv, Stock

LEMMA PostStep ==
    ASSUME Inv, NEW b \in Buyers, PostPurchase(b)
    PROVE  Inv'
  <1> USE ProductAssumption
  <1>1. /\ purchase[b] # None /\ purchase[b].step = "answer"
        /\ purchase' = [purchase EXCEPT ![b] = None]
        /\ page' = IF page[b].buying
             THEN [page EXCEPT ![b].buying = FALSE, ![b].order = purchase[b].order] ELSE page
        /\ UNCHANGED <<products, orders, holder, creating, drafts, catalog, lost, failures>>
    BY DEF PostPurchase, Asking
  <1>2. /\ purchase \in [Buyers -> Request \cup {None}] /\ purchase[b] \in Request
        /\ purchase[b].order \in Orders \cup {None}
        /\ page \in [Buyers -> Page] /\ page[b] \in Page /\ PageOK(b)
    BY <1>1 DEF Inv, TypeOK, Shown, Request
  <1>3. /\ purchase'[b] = None
        /\ \A a \in Buyers \ {b} : purchase'[a] = purchase[a] /\ page'[a] = page[a]
    BY <1>1, <1>2
  <1>4. TypeOK'
    <2>1. page' \in [Buyers -> Page]
      BY <1>1, <1>2 DEF Page
    <2>2. purchase' \in [Buyers -> Request \cup {None}]
      BY <1>1, <1>2
    <2> QED BY <1>1, <2>1, <2>2 DEF Inv, TypeOK
  <1>5. Stock'
    <2>1. Reserved(b) = {} /\ Reserved(b)' = {}
      BY <1>1, <1>3 DEF Reserved
    <2>2. HoldersOK'
      BY <1>1, <1>3 DEF Inv, Stock, HoldersOK, TypeOK
    <2> QED BY <1>1, <1>3, <2>1, <2>2, RequestMoves
  <1>6. Shown'
    <2>1. PageOK(b)'
      <3>1. page'[b].product = page[b].product /\ page'[b].status = page[b].status
            /\ page'[b].fetch = page[b].fetch /\ ~page'[b].buying
        BY <1>1, <1>2 DEF Page
      <3> QED BY <1>1, <1>2, <3>1 DEF PageOK, Made
    <2> QED BY <1>1, <1>3, <1>4, <2>1, GrowsStays, ShownMoves DEF Inv
  <1> QED BY <1>4, <1>5, <1>6 DEF Inv

LEMMA FailsStep ==
    ASSUME Inv, NEW b \in Buyers, PurchaseFails(b)
    PROVE  Inv'
  <1> USE ProductAssumption
  <1>1. /\ purchase[b] # None
        /\ failures' \in 0 .. MaxFailures
        /\ lost' = lost \cup Reserved(b)
        /\ holder' = [p \in Products |-> IF holder[p] = b THEN None ELSE holder[p]]
        /\ purchase' = [purchase EXCEPT ![b] = None]
        /\ page' = [page EXCEPT ![b].buying = FALSE]
        /\ UNCHANGED <<products, orders, creating, drafts, catalog>>
    <2>1. failures \in 0 .. MaxFailures
      BY DEF Inv, TypeOK
    <2> QED BY <2>1 DEF PurchaseFails, Fail
  <1>2. /\ purchase \in [Buyers -> Request \cup {None}] /\ purchase[b] \in Request
        /\ page \in [Buyers -> Page] /\ page[b] \in Page /\ PageOK(b)
        /\ holder \in [Products -> Buyers \cup {None}]
        /\ lost \subseteq Products \X (1 .. MaxSupply)
    BY <1>1 DEF Inv, TypeOK, Shown
  <1>3. /\ purchase'[b] = None
        /\ \A a \in Buyers \ {b} : purchase'[a] = purchase[a] /\ page'[a] = page[a]
    BY <1>1, <1>2
  <1>4. TypeOK'
    <2>1. page' \in [Buyers -> Page]
      BY <1>1, <1>2 DEF Page
    <2>2. /\ purchase' \in [Buyers -> Request \cup {None}]
          /\ holder' \in [Products -> Buyers \cup {None}]
      BY <1>1, <1>2
    <2>3. Reserved(b) \subseteq Products \X (1 .. MaxSupply)
      <3>1. purchase[b].product \in Products /\ purchase[b].unit \in 0 .. MaxSupply
        BY <1>2 DEF Request
      <3>2. purchase[b].unit # 0 => purchase[b].unit \in 1 .. MaxSupply
        BY <3>1
      <3> QED BY <3>1, <3>2 DEF Reserved
    <2> QED BY <1>1, <1>2, <2>1, <2>2, <2>3 DEF Inv, TypeOK
  <1>5. Stock'
    <2>1. Reserved(b)' = {}
      BY <1>3 DEF Reserved
    <2>2. HoldersOK'
      <3>1. ASSUME NEW q \in Products, holder'[q] # None
            PROVE  holder'[q] = holder[q] /\ holder[q] \in Buyers \ {b}
        BY <1>1, <1>2, <3>1
      <3> QED BY <1>3, <3>1 DEF Inv, Stock, HoldersOK
    <2>3. \A a \in Buyers \ {b} : purchase[a] # None /\ holder[purchase[a].product] = a
            => holder'[purchase[a].product] = a
      BY <1>1, <1>2 DEF Request
    <2> QED BY <1>1, <1>3, <2>1, <2>2, <2>3, RequestMoves
  <1>6. Shown'
    <2>1. PageOK(b)'
      <3>1. page'[b].product = page[b].product /\ page'[b].status = page[b].status
            /\ page'[b].fetch = page[b].fetch /\ ~page'[b].buying
        BY <1>1, <1>2 DEF Page
      <3> QED BY <1>1, <1>2, <3>1 DEF PageOK, Made
    <2> QED BY <1>1, <1>3, <1>4, <2>1, GrowsStays, ShownMoves DEF Inv
  <1> QED BY <1>4, <1>5, <1>6 DEF Inv

LEMMA CrashStep ==
    ASSUME Inv, Crash
    PROVE  Inv'
  <1> USE ProductAssumption
  <1>1. /\ failures' \in 0 .. MaxFailures
        /\ lost' = lost \cup UNION {Reserved(b) : b \in Buyers}
        /\ holder' = [p \in Products |-> None]
        /\ purchase' = [b \in Buyers |-> None]
        /\ creating' = None
        /\ page' = [b \in Buyers |->
                      [page[b] EXCEPT !.buying = FALSE,
                                      !.fetch = IF @ = "asked" THEN "error" ELSE @]]
        /\ UNCHANGED <<products, orders, drafts, catalog>>
    <2>1. failures \in 0 .. MaxFailures
      BY DEF Inv, TypeOK
    <2>2. Fail
      BY DEF Crash
    <2>3. failures' \in 0 .. MaxFailures
      BY <2>1, <2>2 DEF Fail
    <2> QED BY <2>3 DEF Crash
  <1>2. ASSUME NEW b \in Buyers
        PROVE  /\ page'[b] \in Page
               /\ page'[b].product = page[b].product /\ page'[b].status = page[b].status
               /\ page'[b].fetch = (IF page[b].fetch = "asked" THEN "error" ELSE page[b].fetch)
               /\ page'[b].buying = FALSE
    <2>1. page[b] \in Page
      BY DEF Inv, TypeOK
    <2>2. page'[b] = [page[b] EXCEPT !.buying = FALSE,
                                     !.fetch = IF @ = "asked" THEN "error" ELSE @]
      BY <1>1
    <2> QED BY <2>1, <2>2 DEF Page, Answers
  <1>3. \A b \in Buyers : Reserved(b) \subseteq Products \X (1 .. MaxSupply)
    <2>1. ASSUME NEW b \in Buyers, purchase[b] # None, purchase[b].unit # 0
          PROVE  <<purchase[b].product, purchase[b].unit>> \in Products \X (1 .. MaxSupply)
      <3>1. purchase[b].product \in Products /\ purchase[b].unit \in 0 .. MaxSupply
        BY <2>1 DEF Inv, TypeOK, Request
      <3> QED BY <2>1, <3>1
    <2> QED BY <2>1 DEF Reserved
  <1>4. TypeOK'
    <2>1. page' \in [Buyers -> Page]
      BY <1>1, <1>2
    <2>2. lost' \subseteq Products \X (1 .. MaxSupply)
      <3>1. UNION {Reserved(b) : b \in Buyers} \subseteq Products \X (1 .. MaxSupply)
        BY <1>3, Zenon
      <3>2. lost \subseteq Products \X (1 .. MaxSupply)
        BY DEF Inv, TypeOK
      <3> QED BY <1>1, <3>1, <3>2, Zenon
    <2> QED BY <1>1, <2>1, <2>2 DEF Inv, TypeOK
  <1>5. OrdersOK' /\ RequestsOK' /\ PairsOK' /\ HoldersOK' /\ CreatingOK'
    BY <1>1 DEF Inv, Stock, OrdersOK, RequestsOK, PairsOK, HoldersOK, CreatingOK, Made
  <1>6. UnitsAreAccounted'
    <2>1. ASSUME NEW p \in Products, NEW unit \in 1 .. products[p].salesCount,
                 Made(p), products[p].supply # 0
          PROVE  \/ \E o \in Purchases(p) : orders[o].unit = unit
                 \/ <<p, unit>> \in lost'
      BY <1>1, <2>1 DEF Inv, Stock, UnitsAreAccounted
    <2> QED BY <1>1, <2>1 DEF Inv, Stock, UnitsAreAccounted, Purchases, Made
  <1>7. Shown'
    <2>1. ASSUME NEW b \in Buyers PROVE PageOK(b)'
      <3>1. PageOK(b)
        BY DEF Inv, Shown
      <3>2. \A p \in Products : Made(p)' = Made(p)
        BY <1>1 DEF Made
      <3>3. page[b].product \in Products \cup {None}
        BY DEF Inv, TypeOK, Page
      <3>4. "soldout" \in {page'[b].status, page'[b].fetch} => IsSoldOut(products'[page'[b].product])
        <4>1. "soldout" \in {page'[b].status, page'[b].fetch}
                => "soldout" \in {page[b].status, page[b].fetch}
          BY <1>2
        <4>2. "soldout" \in {page[b].status, page[b].fetch} => IsSoldOut(products[page[b].product])
          BY <3>1 DEF PageOK
        <4>3. products' = products /\ page'[b].product = page[b].product
          BY <1>1, <1>2
        <4> QED BY <4>1, <4>2, <4>3
      <3>5. /\ page'[b].product = None => page'[b].status = "loading" /\ page'[b].fetch = "none"
            /\ page'[b].product # None => Made(page'[b].product)
        BY <1>2, <3>1 DEF PageOK
      <3> QED BY <1>1, <1>2, <3>2, <3>3, <3>4, <3>5 DEF PageOK, Made
    <2> QED BY <1>1, <2>1 DEF Inv, Shown, Made
  <1> QED BY <1>4, <1>5, <1>6, <1>7 DEF Inv, Stock

-----------------------------------------------------------------------------
LEMMA Invariance == Inv /\ [Next]_vars => Inv'
  <1> SUFFICES ASSUME Inv, [Next]_vars PROVE Inv'
    OBVIOUS
  <1>1. ASSUME NEW b \in Buyers,
               \/ \E p \in Products : OpenProductPage(b, p)
               \/ PageNext(b) \/ GetPublicProductFails(b)
               \/ OnBuyProduct(b) \/ PurchaseNext(b) \/ PurchaseFails(b)
        PROVE  Inv'
    BY <1>1, PageStep, BuyStep, SpawnStep, RejectStep, ReserveStep, RecordStep, MakeDirStep,
       CreateOrderStep, PostStep, FailsStep DEF PurchaseNext
  <1>2. ASSUME UNCHANGED vars PROVE Inv'
    <2>1. UNCHANGED <<products, orders, holder, purchase, creating, drafts, catalog, page,
                      lost, failures>>
      BY <1>2 DEF vars
    <2>2. TypeOK'
      BY <2>1 DEF Inv, TypeOK
    <2>3. Shown'
      BY <2>1 DEF Inv, Shown, PageOK, Made
    <2> QED BY <2>1, <2>2, <2>3, StockStays DEF Inv
  <1> QED BY <1>1, <1>2, SellerStep, CrashStep DEF Next

\* The invariant of orders, requests, locks and pages holds in every reachable state.
THEOREM InvAlways == Spec => []Inv
  BY InitInv, Invariance, PTL DEF Spec

\* The variables keep their types.
THEOREM TypeCorrect == Spec => []TypeOK
  <1>1. Inv => TypeOK
    BY DEF Inv
  <1> QED BY <1>1, InvAlways, PTL

\* No unit of a limited product is sold twice, and none vanishes but with a purchase that
\* failed: recordProductSale and createTransferOrder, under different locks, with crashes
\* between them.
THEOREM UnitsAccounted == Spec => []UnitsAreAccounted
  <1>1. Inv => UnitsAreAccounted
    BY DEF Inv, Stock
  <1> QED BY <1>1, InvAlways, PTL

\* Pages and the seller's list show sold out only when it is true, whatever the order in
\* which old and new answers arrive.
THEOREM SoldOutTrue == Spec => []SoldOutIsTrue
  <1>1. Inv => SoldOutIsTrue
    BY DEF Inv, Shown, PageOK, SoldOutIsTrue
  <1> QED BY <1>1, InvAlways, PTL

-----------------------------------------------------------------------------
(* The store is a LimitedSale. *)

\* What a LimitedSale sees of the store.
SupplyOf == [p \in Products |-> IF Made(p) THEN products[p].supply ELSE None]
TakenOf == [p \in Products |-> IF Made(p) THEN products[p].salesCount ELSE 0]
HandedOf == [o \in Orders |-> IF orders[o] \in {None, HalfMade} THEN None
                              ELSE <<orders[o].product, orders[o].unit>>]

LEMMA SaleInit == Init => Sale!Init
  BY DEF Init, Sale!Init, Made

LEMMA OfferStep ==
    ASSUME Inv, CreateProduct
    PROVE  Sale!Next
  <1> DEFINE p == creating.product
             new == [supply |-> creating.supply, salesCount |-> 0, status |-> "open"]
  <1>1. /\ creating \in Creation /\ creating.step = "record" /\ products[p] = HalfMade
        /\ products' = [products EXCEPT ![p] = new]
        /\ orders' = orders
    BY DEF CreateProduct, Inv, TypeOK, Stock, CreatingOK
  <1>2. /\ p \in Products /\ creating.supply \in 0 .. MaxSupply
        /\ products \in [Products -> Product \cup {None, HalfMade}]
        /\ new \in Product
    BY <1>1, ProductAssumption DEF Inv, TypeOK, Creation, Product
  <1>3. /\ products'[p] = new /\ new.supply = creating.supply /\ new.salesCount = 0
        /\ new \notin {None, HalfMade}
        /\ \A q \in Products \ {p} : products'[q] = products[q]
    BY <1>1, <1>2, NothingAssumption
  <1> HIDE DEF new
  <1>4. /\ ~Made(p)
        /\ \A q \in Products : IF q = p THEN Made(q)' ELSE Made(q)' <=> Made(q)
    BY <1>1, <1>2, <1>3 DEF Made
  <1>5. SupplyOf[p] = None /\ SupplyOf' = [SupplyOf EXCEPT ![p] = creating.supply]
    BY <1>2, <1>3, <1>4 DEF SupplyOf
  <1>6. TakenOf' = TakenOf
    BY <1>2, <1>3, <1>4 DEF TakenOf
  <1>7. HandedOf' = HandedOf
    BY <1>1 DEF HandedOf
  <1>8. ASSUME NEW q \in Products, NEW n \in 0 .. MaxSupply, q = p, n = creating.supply
        PROVE  Sale!Offer(q, n)
    BY <1>5, <1>6, <1>7, <1>8 DEF Sale!Offer, SupplyOf, TakenOf, HandedOf
  <1> QED BY <1>2, <1>8 DEF Sale!Next

LEMMA TakeStep ==
    ASSUME Inv, NEW b \in Buyers, RecordProductSale(b)
    PROVE  Sale!Next
  <1> DEFINE p == purchase[b].product
  <1>1. Counts(b) /\ orders' = orders
    BY RecordStep DEF RecordProductSale
  <1>2. /\ p \in Products /\ SupplyOf[p] \in Nat /\ TakenOf[p] < SupplyOf[p]
        /\ TakenOf[p] \in Nat
    BY <1>1 DEF Counts, SupplyOf, TakenOf
  <1>3. SupplyOf' = SupplyOf
    BY <1>1 DEF Counts, SupplyOf
  <1>4. TakenOf' = [TakenOf EXCEPT ![p] = TakenOf[p] + 1]
    BY <1>1 DEF Counts, TakenOf
  <1>5. HandedOf' = HandedOf
    BY <1>1 DEF HandedOf
  <1>6. ASSUME NEW q \in Products, q = p
        PROVE  Sale!Take(q)
    BY <1>2, <1>3, <1>4, <1>5, <1>6, ProductAssumption
       DEF Sale!Take, SupplyOf, TakenOf, HandedOf
  <1> QED BY <1>2, <1>6 DEF Sale!Next

LEMMA HandStep ==
    ASSUME Inv, NEW b \in Buyers, CreateTransferOrder(b)
    PROVE  Sale!Next
  <1> DEFINE o == purchase[b].order
             p == purchase[b].product
             unit == purchase[b].unit
  <1>1. /\ purchase[b] \in Request /\ RequestOK(b) /\ purchase[b].step = "record"
        /\ orders' = [orders EXCEPT ![o] = [product |-> p, unit |-> unit]]
        /\ products' = products
        /\ orders \in [Orders -> Purchase \cup {None, HalfMade}]
    BY DEF CreateTransferOrder, Inv, TypeOK, Stock, RequestsOK
  <1>2. /\ p \in Products /\ unit \in 0 .. MaxSupply /\ o \in Orders /\ orders[o] = HalfMade
        /\ Made(p) /\ products[p] \in Product
        /\ IF products[p].supply = 0 THEN unit = 0
           ELSE /\ unit \in 1 .. products[p].salesCount
                /\ \A q \in Purchases(p) : orders[q].unit # unit
    BY <1>1, MadeType DEF RequestOK, Request, Inv
  <1>3. [product |-> p, unit |-> unit] \in Purchase
    BY <1>2 DEF Purchase
  <1>4. /\ orders'[o] \notin {None, HalfMade}
        /\ orders'[o].product = p /\ orders'[o].unit = unit
        /\ \A q \in Orders \ {o} : orders'[q] = orders[q]
    BY <1>1, <1>2, <1>3, NothingAssumption
  <1>5. HandedOf[o] = None /\ HandedOf' = [HandedOf EXCEPT ![o] = <<p, unit>>]
    BY <1>2, <1>4 DEF HandedOf
  <1>6. SupplyOf' = SupplyOf /\ TakenOf' = TakenOf
    BY <1>1 DEF SupplyOf, TakenOf, Made
  <1>7. /\ SupplyOf[p] = products[p].supply /\ SupplyOf[p] # None
        /\ TakenOf[p] = products[p].salesCount
    BY <1>2, ProductAssumption DEF SupplyOf, TakenOf, Product
  <1>8. ASSUME products[p].supply # 0, NEW q \in Orders
        PROVE  HandedOf[q] # <<p, unit>>
    <2>1. CASE orders[q] \in {None, HalfMade}
      <3>1. <<p, unit>> \in Products \X Nat
        BY <1>2, ProductAssumption
      <3> QED BY <2>1, <3>1, NothingAssumption DEF HandedOf
    <2>2. CASE orders[q] \notin {None, HalfMade}
      <3>1. HandedOf[q] = <<orders[q].product, orders[q].unit>>
        BY <2>2 DEF HandedOf
      <3>2. orders[q].product = p => orders[q].unit # unit
        BY <1>2, <1>8, <2>2 DEF Purchases
      <3> QED BY <3>1, <3>2
    <2> QED BY <2>1, <2>2
  <1>9. ASSUME NEW order \in Orders, NEW q \in Products, NEW n \in 0 .. MaxSupply,
               order = o, q = p, n = unit
        PROVE  Sale!Hand(order, q, n)
    BY <1>2, <1>5, <1>6, <1>7, <1>8, <1>9 DEF Sale!Hand, SupplyOf, TakenOf, HandedOf
  <1> QED BY <1>2, <1>9 DEF Sale!Next

LEMMA SaleStep ==
    ASSUME Inv, [Next]_vars
    PROVE  [Sale!Next]_(Sale!vars)
  <1>1. ASSUME \A p \in Products : IF Made(p) THEN products'[p] = products[p] ELSE ~Made(p)',
               \A o \in Orders : \/ orders'[o] = orders[o]
                                 \/ {orders[o], orders'[o]} \subseteq {None, HalfMade}
        PROVE  UNCHANGED Sale!vars
    <2>1. \A p \in Products : Made(p)' <=> Made(p)
      BY <1>1 DEF Made
    <2> QED BY <1>1, <2>1 DEF Sale!vars
  <1>2. ASSUME UNCHANGED <<products, orders>> PROVE UNCHANGED Sale!vars
    BY <1>1, <1>2 DEF Made
  <1>3. ASSUME NEW p \in Products, NEW supply \in Supplies, OnCreateProduct(p, supply)
        PROVE  UNCHANGED Sale!vars
    <2>1. products' = [products EXCEPT ![p] = HalfMade] /\ products[p] = None
          /\ orders' = orders /\ products \in [Products -> Product \cup {None, HalfMade}]
      BY <1>3 DEF OnCreateProduct, Inv, TypeOK
    <2> QED BY <1>1, <2>1 DEF Made
  <1>4. ASSUME NEW b \in Buyers, MakeOrderDir(b)
        PROVE  UNCHANGED Sale!vars
    <2>1. PICK o \in Orders : orders[o] = None /\ orders' = [orders EXCEPT ![o] = HalfMade]
      BY <1>4 DEF MakeOrderDir
    <2>2. products' = products /\ orders \in [Orders -> Purchase \cup {None, HalfMade}]
      BY <1>4 DEF MakeOrderDir, Inv, TypeOK
    <2> QED BY <1>1, <2>1, <2>2 DEF Made
  <1>5. ASSUME NEW b \in Buyers,
               \/ \E p \in Products : OpenProductPage(b, p)
               \/ PageNext(b) \/ GetPublicProductFails(b) \/ OnBuyProduct(b)
               \/ SpawnOrderFromProduct(b) \/ ReadProductForSale(b) \/ PostPurchase(b)
               \/ PurchaseFails(b)
        PROVE  UNCHANGED <<products, orders>>
    BY <1>5 DEF OpenProductPage, PageNext, PollProductListing, GetPublicProduct,
                ShowProductListing, GetPublicProductFails, OnBuyProduct,
                SpawnOrderFromProduct, ReadProductForSale, PostPurchase, PurchaseFails
  <1>6. ASSUME \/ SaveProductReleaseDraft \/ CreateProductFails \/ LoadSellerProducts
               \/ Crash \/ UNCHANGED vars
        PROVE  UNCHANGED <<products, orders>>
    BY <1>6 DEF SaveProductReleaseDraft, CreateProductFails, LoadSellerProducts, Crash, vars
  <1>7. ASSUME NEW b \in Buyers,
               \/ \E p \in Products : OpenProductPage(b, p)
               \/ PageNext(b) \/ GetPublicProductFails(b)
               \/ OnBuyProduct(b) \/ PurchaseNext(b) \/ PurchaseFails(b)
        PROVE  Sale!Next \/ UNCHANGED Sale!vars
    BY <1>2, <1>4, <1>5, <1>7, TakeStep, HandStep DEF PurchaseNext
  <1> QED BY <1>2, <1>3, <1>6, <1>7, OfferStep DEF Next, SellerNext

\* The store, with its requests, locks, crashes and failures, implements LimitedSale:
\* units are taken one after the other up to the supply, and each is handed out once.
THEOREM StoreImplementsSale == Spec => ImplementsLimitedSale
  <1>1. Inv /\ [Next]_vars => [Sale!Next]_(Sale!vars)
    BY SaleStep
  <1> QED BY <1>1, SaleInit, InvAlways, PTL DEF Spec, ImplementsLimitedSale, Sale!Spec
=============================================================================
