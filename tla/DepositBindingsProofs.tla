------------------------ MODULE DepositBindingsProofs ------------------------
(***************************************************************************)
(* Proofs about DepositBindings, for any orders, sellers, viewing keys and *)
(* pool, any gaps between valid indexes and any number of failures.        *)
(*                                                                         *)
(* A request works for several steps on what it has read.  RequestOK says  *)
(* what of that still holds: above all that the mark of a request about to *)
(* bind has passed its index.  OrderOK follows the address of an order     *)
(* from the step that binds or assigns it to the order's record, and says  *)
(* which requests an interruption leaves bound and not written.            *)
(***************************************************************************)
EXTENDS DepositBindings, TLAPS

\* Address a leads to order o, through the bindings or the pool.
Finds(o, a) ==
    \/ \E b \in bindings : b.orderId = o /\ b.address = a
    \/ a \in DOMAIN pool /\ pool[a] = o

\* What the request on order o may rely on.
RequestOK(o) ==
    /\ intent[o].step \in {"next", "derive", "reconcile", "bind"} =>
         intent[o].scanRef \in ScanRefs
    /\ intent[o].step \in {"reconcile", "bind"} =>
         /\ intent[o].index \in ValidIndexes
         /\ intent[o].address = <<intent[o].scanRef, intent[o].index>>
    /\ intent[o].step = "bind" => intent[o].index < marks[SellerOf[o]]
    /\ intent[o].step = "write" => intent[o].address # None
    /\ receiving[o] # None => intent[o].step = "idle"

\* A binding's address is derived from a key, at an index the mark has passed.
BindingOK(b) ==
    /\ b.diversifierIndex \in ValidIndexes
    /\ \E k \in ScanRefs : b.address = <<k, b.diversifierIndex>>
    /\ b.diversifierIndex < marks[b.sellerId]

\* A bound order is written, about to be written, or orphaned; the address of an
\* order that is not orphaned leads back to it.
OrderOK(o) ==
    /\ (\E b \in bindings : b.orderId = o) /\ receiving[o] = None
         /\ intent[o].step # "write" => o \in orphaned
    /\ o \notin orphaned =>
         /\ receiving[o] # None => Finds(o, receiving[o])
         /\ intent[o].step = "write" => Finds(o, intent[o].address)

Inv ==
    /\ TypeOK
    /\ \A o \in Orders : RequestOK(o)
    /\ \A b \in bindings : BindingOK(b)
    /\ UniqueAddresses
    /\ \A o \in Orders : OrderOK(o)

-----------------------------------------------------------------------------
LEMMA InitInv == Init => Inv
<1> SUFFICES ASSUME Init PROVE Inv
  OBVIOUS
<1>1. Idle \in Intent /\ Idle.step = "idle"
  BY DEF Idle, Intent
<1>2. TypeOK
  BY <1>1 DEF Init, TypeOK
<1>3. \A o \in Orders : intent[o].step = "idle" /\ receiving[o] = None
  BY <1>1 DEF Init
<1> QED
  BY <1>2, <1>3 DEF Init, Inv, RequestOK, OrderOK, UniqueAddresses

\* A step of one request that changes neither bindings nor pool nor orders, neither
\* begins nor ends in "write", and lowers no mark.
LEMMA RequestStep ==
    ASSUME Inv, NEW o \in Orders,
           intent' \in [Orders -> Intent],
           \A p \in Orders \ {o} : intent'[p] = intent[p],
           intent[o].step # "write", intent'[o].step # "write",
           marks' \in [Sellers -> Nat],
           \A s \in Sellers : marks'[s] >= marks[s],
           RequestOK(o)',
           UNCHANGED <<scanRefOf, bindings, pool, receiving, orphaned, failures>>
    PROVE  Inv'
<1>1. TypeOK'
  BY DEF Inv, TypeOK
<1>2. \A p \in Orders : RequestOK(p)'
  <2> SUFFICES ASSUME NEW p \in Orders, p # o PROVE RequestOK(p)'
    OBVIOUS
  <2>1. RequestOK(p) /\ intent'[p] = intent[p]
    BY DEF Inv
  <2>2. SellerOf[p] \in Sellers /\ intent[p].index \in Nat
    BY DepositAssumption DEF Inv, TypeOK, Intent
  <2>3. marks[SellerOf[p]] \in Nat /\ marks'[SellerOf[p]] \in Nat
        /\ marks'[SellerOf[p]] >= marks[SellerOf[p]]
    BY <2>2 DEF Inv, TypeOK
  <2>4. intent[p].index < marks[SellerOf[p]] => intent[p].index < marks'[SellerOf[p]]
    BY <2>2, <2>3
  <2> QED  BY <2>1, <2>4 DEF RequestOK
<1>3. \A b \in bindings' : BindingOK(b)'
  <2> SUFFICES ASSUME NEW b \in bindings PROVE BindingOK(b)'
    OBVIOUS
  <2>1. BindingOK(b) /\ b.sellerId \in Sellers /\ b.diversifierIndex \in Nat
    BY DEF Inv, TypeOK, Binding
  <2>2. marks[b.sellerId] \in Nat /\ marks'[b.sellerId] \in Nat
        /\ marks'[b.sellerId] >= marks[b.sellerId]
    BY <2>1 DEF Inv, TypeOK
  <2>3. b.diversifierIndex < marks'[b.sellerId]
    BY <2>1, <2>2 DEF BindingOK
  <2> QED  BY <2>1, <2>3 DEF BindingOK
<1>4. UniqueAddresses'
  BY DEF Inv, UniqueAddresses
<1>5. \A p \in Orders : OrderOK(p)'
  <2> SUFFICES ASSUME NEW p \in Orders PROVE OrderOK(p)'
    OBVIOUS
  <2>1. OrderOK(p)
    BY DEF Inv
  <2>2. intent'[p].step = "write" <=> intent[p].step = "write"
    OBVIOUS
  <2>3. intent'[p].step = "write" => intent'[p].address = intent[p].address
    OBVIOUS
  <2> QED  BY <2>1, <2>2, <2>3 DEF OrderOK, Finds
<1> QED
  BY <1>1, <1>2, <1>3, <1>4, <1>5 DEF Inv

-----------------------------------------------------------------------------
(* The steps of a request before it binds or assigns an address. *)

\* createOrderInvoice reads the seller's key, if there is one.
LEMMA CreateOrderInvoiceInv ==
    ASSUME Inv, NEW o \in Orders, CreateOrderInvoice(o) PROVE Inv'
<1> DEFINE r == [Idle EXCEPT
                   !.step = IF scanRefOf[SellerOf[o]] = None THEN "assign" ELSE "next",
                   !.scanRef = scanRefOf[SellerOf[o]]]
<1>1. scanRefOf[SellerOf[o]] \in ScanRefs \cup {None}
  BY DepositAssumption DEF Inv, TypeOK
<1>2. /\ r \in Intent /\ r.step \in {"assign", "next"}
      /\ r.step = "next" => r.scanRef \in ScanRefs
  BY <1>1 DEF Idle, Intent
<1>3. intent' = [intent EXCEPT ![o] = r] /\ intent \in [Orders -> Intent]
  BY DEF CreateOrderInvoice, Inv, TypeOK
<1> HIDE DEF r
<1>4. intent' \in [Orders -> Intent] /\ intent'[o] = r
      /\ \A p \in Orders \ {o} : intent'[p] = intent[p]
  BY <1>2, <1>3
<1>5. RequestOK(o)'
  BY <1>2, <1>4 DEF CreateOrderInvoice, RequestOK
<1>6. intent[o].step # "write" /\ intent'[o].step # "write"
  BY <1>2, <1>4 DEF CreateOrderInvoice
<1>7. marks' = marks /\ marks \in [Sellers -> Nat]
  BY DEF CreateOrderInvoice, Inv, TypeOK
<1> QED
  BY <1>4, <1>5, <1>6, <1>7, RequestStep DEF CreateOrderInvoice

\* The mark goes up by one.
LEMMA NextDiversifierIndexInv ==
    ASSUME Inv, NEW o \in Orders, NextDiversifierIndex(o) PROVE Inv'
<1>1. SellerOf[o] \in Sellers /\ marks \in [Sellers -> Nat]
  BY DepositAssumption DEF Inv, TypeOK
<1>2. intent \in [Orders -> Intent] /\ RequestOK(o)
  BY DEF Inv, TypeOK
<1>3. marks' \in [Sellers -> Nat] /\ \A s \in Sellers : marks'[s] >= marks[s]
  BY <1>1 DEF NextDiversifierIndex
<1>4. /\ intent' \in [Orders -> Intent]
      /\ \A p \in Orders \ {o} : intent'[p] = intent[p]
      /\ intent'[o].step = "derive"
      /\ intent'[o].scanRef = intent[o].scanRef
  <2>1. marks[SellerOf[o]] + 1 \in Nat
    BY <1>1
  <2>2. intent' = [intent EXCEPT ![o] = [intent[o] EXCEPT
                     !.step = "derive", !.index = marks[SellerOf[o]] + 1]]
    BY <1>2 DEF NextDiversifierIndex
  <2>3. [intent[o] EXCEPT !.step = "derive", !.index = marks[SellerOf[o]] + 1]
          \in Intent
    BY <1>2, <2>1 DEF Intent
  <2> QED  BY <1>2, <2>2, <2>3 DEF Intent
<1>5. RequestOK(o)'
  BY <1>2, <1>4 DEF NextDiversifierIndex, RequestOK
<1>6. intent[o].step # "write" /\ intent'[o].step # "write"
  BY <1>4 DEF NextDiversifierIndex
<1> QED
  BY <1>3, <1>4, <1>5, <1>6, RequestStep DEF NextDiversifierIndex

\* The scanner answers with an address of the key the request has read.
LEMMA DeriveAddressInv ==
    ASSUME Inv, NEW o \in Orders, DeriveAddress(o) PROVE Inv'
<1>1. PICK j \in ValidIndexes :
        intent' = [intent EXCEPT ![o].step = "reconcile", ![o].index = j,
                                 ![o].address = <<intent[o].scanRef, j>>]
  BY DEF DeriveAddress
<1>2. intent \in [Orders -> Intent] /\ RequestOK(o)
  BY DEF Inv, TypeOK
<1>3. intent[o].scanRef \in ScanRefs /\ j \in Nat
  BY <1>2, DepositAssumption DEF DeriveAddress, RequestOK
<1>4. <<intent[o].scanRef, j>> \in Addresses \cup {None}
  BY <1>3 DEF Addresses, Derived
<1>5. /\ intent' \in [Orders -> Intent]
      /\ \A p \in Orders \ {o} : intent'[p] = intent[p]
      /\ intent'[o].step = "reconcile"
      /\ intent'[o].scanRef = intent[o].scanRef
      /\ intent'[o].index = j
      /\ intent'[o].address = <<intent[o].scanRef, j>>
  BY <1>1, <1>2, <1>3, <1>4 DEF Intent
<1>6. RequestOK(o)'
  BY <1>2, <1>3, <1>5 DEF DeriveAddress, RequestOK
<1>7. marks' = marks /\ marks \in [Sellers -> Nat]
  BY DEF DeriveAddress, Inv, TypeOK
<1> QED
  BY <1>5, <1>6, <1>7, RequestStep DEF DeriveAddress

\* The mark is past the index when the request goes on to bind.
LEMMA ReconcileDiversifierMarkInv ==
    ASSUME Inv, NEW o \in Orders, ReconcileDiversifierMark(o) PROVE Inv'
<1>1. SellerOf[o] \in Sellers /\ marks \in [Sellers -> Nat]
  BY DepositAssumption DEF Inv, TypeOK
<1>2. intent \in [Orders -> Intent] /\ RequestOK(o) /\ intent[o].index \in Nat
  BY DEF Inv, TypeOK, Intent
<1>3. /\ marks' \in [Sellers -> Nat]
      /\ \A s \in Sellers : marks'[s] >= marks[s]
      /\ intent[o].index < marks'[SellerOf[o]]
  BY <1>1, <1>2 DEF ReconcileDiversifierMark
<1>4. /\ intent' \in [Orders -> Intent]
      /\ \A p \in Orders \ {o} : intent'[p] = intent[p]
      /\ intent'[o] = [intent[o] EXCEPT !.step = "bind"]
  BY <1>2 DEF ReconcileDiversifierMark, Intent
<1>5. /\ intent'[o].step = "bind" /\ intent'[o].scanRef = intent[o].scanRef
      /\ intent'[o].index = intent[o].index /\ intent'[o].address = intent[o].address
  BY <1>2, <1>4 DEF Intent
<1>6. RequestOK(o)'
  BY <1>2, <1>3, <1>5 DEF ReconcileDiversifierMark, RequestOK
<1> QED
  BY <1>3, <1>4, <1>5, <1>6, RequestStep DEF ReconcileDiversifierMark

\* A request that ends without an address leaves nothing to rely on.
LEMMA GiveUpInv ==
    ASSUME Inv, NEW o \in Orders, GiveUp(o) \/ NoDepositAddress(o) PROVE Inv'
<1>1. Idle \in Intent /\ Idle.step = "idle"
  BY DEF Idle, Intent
<1>2. intent' = [intent EXCEPT ![o] = Idle] /\ intent \in [Orders -> Intent]
  BY DEF GiveUp, NoDepositAddress, Inv, TypeOK
<1>3. /\ intent' \in [Orders -> Intent] /\ intent'[o].step = "idle"
      /\ \A p \in Orders \ {o} : intent'[p] = intent[p]
  BY <1>1, <1>2
<1>4. RequestOK(o)'
  BY <1>3 DEF RequestOK
<1>5. marks' = marks /\ marks \in [Sellers -> Nat]
  BY DEF GiveUp, NoDepositAddress, Inv, TypeOK
<1> QED
  BY <1>3, <1>4, <1>5, RequestStep DEF GiveUp, NoDepositAddress

-----------------------------------------------------------------------------
(* The steps that fix an address. *)

\* A free address is bound to the order, or its first binding stays and the order
\* is orphaned already; a taken address leads to the next attempt.
LEMMA BindOrderDepositInv ==
    ASSUME Inv, NEW o \in Orders, BindOrderDeposit(o) PROVE Inv'
<1>1. /\ intent \in [Orders -> Intent] /\ RequestOK(o) /\ OrderOK(o)
      /\ intent[o].step = "bind" /\ bindings \subseteq Binding
      /\ marks \in [Sellers -> Nat] /\ SellerOf[o] \in Sellers
  BY DepositAssumption DEF Inv, TypeOK, BindOrderDeposit
<1>2. receiving[o] = None
  BY <1>1 DEF RequestOK
<1>3. CASE ~(IsBound(o) \/ BindingsAt(intent[o].address) = {})
  <2>1. intent' = [intent EXCEPT ![o] =
                     [intent[o] EXCEPT !.step = "next", !.attempt = @ + 1]]
        /\ bindings' = bindings
    BY <1>1, <1>3 DEF BindOrderDeposit
  <2>2. [intent[o] EXCEPT !.step = "next", !.attempt = @ + 1] \in Intent
    <3>1. intent[o] \in Intent /\ intent[o].attempt + 1 \in Nat
      BY <1>1 DEF Intent
    <3> QED  BY <3>1 DEF Intent
  <2>3. /\ intent' \in [Orders -> Intent]
        /\ \A p \in Orders \ {o} : intent'[p] = intent[p]
        /\ intent'[o].step = "next" /\ intent'[o].scanRef = intent[o].scanRef
    BY <1>1, <2>1, <2>2 DEF Intent
  <2>4. RequestOK(o)'
    BY <1>1, <1>2, <2>3 DEF BindOrderDeposit, RequestOK
  <2>5. marks' = marks
    BY DEF BindOrderDeposit
  <2> QED
    BY <1>1, <2>1, <2>3, <2>4, <2>5, RequestStep DEF BindOrderDeposit
<1>4. CASE IsBound(o) \/ BindingsAt(intent[o].address) = {}
  <2>1. /\ intent' = [intent EXCEPT ![o] = [intent[o] EXCEPT !.step = "write"]]
        /\ bindings' = IF IsBound(o) THEN bindings ELSE bindings \cup {NewBinding(o)}
        /\ UNCHANGED <<scanRefOf, marks, pool, receiving, orphaned, failures>>
    BY <1>1, <1>4 DEF BindOrderDeposit
  <2>2. [intent[o] EXCEPT !.step = "write"] \in Intent
    BY <1>1 DEF Intent
  <2>3. /\ intent' \in [Orders -> Intent]
        /\ \A p \in Orders \ {o} : intent'[p] = intent[p]
        /\ intent'[o].step = "write" /\ intent'[o].address = intent[o].address
    BY <1>1, <2>1, <2>2 DEF Intent
  <2>4. /\ intent[o].scanRef \in ScanRefs /\ intent[o].index \in ValidIndexes
        /\ intent[o].address = <<intent[o].scanRef, intent[o].index>>
        /\ intent[o].index < marks[SellerOf[o]]
    BY <1>1 DEF RequestOK
  <2>5. NewBinding(o) \in Binding /\ BindingOK(NewBinding(o))
        /\ NewBinding(o).orderId = o /\ NewBinding(o).address = intent[o].address
    <3>1. intent[o].address \in Derived /\ intent[o].index \in Nat
      <4>1. intent[o].index \in Nat
        BY <2>4, DepositAssumption
      <4>2. \A k \in ScanRefs, i \in Nat : <<k, i>> \in Derived
        BY DEF Derived
      <4> QED  BY <2>4, <4>1, <4>2
    <3>2. /\ NewBinding(o) \in Binding
          /\ NewBinding(o).orderId = o /\ NewBinding(o).sellerId = SellerOf[o]
          /\ NewBinding(o).address = intent[o].address
          /\ NewBinding(o).diversifierIndex = intent[o].index
      <4>1. SellerOf[o] \in Sellers
        BY <1>1
      <4> QED  BY <3>1, <4>1 DEF NewBinding, Binding
    <3> QED  BY <2>4, <3>2 DEF BindingOK
  <2>6. TypeOK'
    BY <2>1, <2>3, <2>5 DEF Inv, TypeOK
  <2>7. \A p \in Orders : RequestOK(p)'
    <3> SUFFICES ASSUME NEW p \in Orders PROVE RequestOK(p)'
      OBVIOUS
    <3>1. CASE p = o
      <4>1. intent[o].address # None
        BY <2>4, DepositAssumption
      <4> QED  BY <1>2, <2>1, <2>3, <3>1, <4>1 DEF RequestOK
    <3>2. CASE p # o
      BY <2>1, <2>3, <3>2 DEF Inv, RequestOK
    <3> QED  BY <3>1, <3>2
  <2>8. \A b \in bindings' : BindingOK(b)'
    BY <2>1, <2>5 DEF Inv, BindingOK
  <2>9. UniqueAddresses'
    <3>1. CASE IsBound(o)
      BY <2>1, <3>1 DEF Inv, UniqueAddresses
    <3>2. CASE ~IsBound(o)
      <4>1. \A b \in bindings : b.address # NewBinding(o).address
        BY <1>4, <2>5, <3>2 DEF BindingsAt
      <4>2. \A b \in bindings : b.orderId # NewBinding(o).orderId
        BY <2>5, <3>2 DEF IsBound, BindingsOf
      <4>3. bindings' = bindings \cup {NewBinding(o)}
        BY <2>1, <3>2
      <4> QED  BY <4>1, <4>2, <4>3 DEF Inv, UniqueAddresses
    <3> QED  BY <3>1, <3>2
  <2>10. \A p \in Orders : \A a : Finds(p, a) => Finds(p, a)'
    BY <2>1 DEF Finds
  <2>11. \A p \in Orders : OrderOK(p)'
    <3> SUFFICES ASSUME NEW p \in Orders PROVE OrderOK(p)'
      OBVIOUS
    <3>1. CASE p = o
      <4>1. CASE IsBound(o)
        <5>1. o \in orphaned
          BY <1>1, <1>2, <4>1 DEF OrderOK, IsBound, BindingsOf
        <5> QED  BY <2>1, <3>1, <5>1 DEF OrderOK
      <4>2. CASE ~IsBound(o)
        <5>1. Finds(o, intent[o].address)'
          BY <2>1, <2>5, <4>2 DEF Finds
        <5> QED  BY <1>2, <2>1, <2>3, <3>1, <5>1 DEF OrderOK
      <4> QED  BY <4>1, <4>2
    <3>2. CASE p # o
      <4>1. OrderOK(p) /\ intent'[p] = intent[p]
        BY <2>3, <3>2 DEF Inv
      <4>2. (\E b \in bindings' : b.orderId = p) => \E b \in bindings : b.orderId = p
        BY <2>1, <2>5, <3>2
      <4>3. /\ Finds(p, receiving[p]) => Finds(p, receiving[p])'
            /\ Finds(p, intent[p].address) => Finds(p, intent[p].address)'
        BY <2>1 DEF Finds
      <4> QED  BY <2>1, <4>1, <4>2, <4>3 DEF OrderOK, Finds
    <3> QED  BY <3>1, <3>2
  <2> QED
    BY <2>6, <2>7, <2>8, <2>9, <2>11 DEF Inv
<1> QED
  BY <1>3, <1>4

\* An address of the pool is given to the order, and to no other.
LEMMA AssignDepositAddressInv ==
    ASSUME Inv, NEW o \in Orders, AssignDepositAddress(o) PROVE Inv'
<1>1. PICK a \in DOMAIN pool :
        /\ pool[a] = o \/ pool[a] = None
        /\ pool' = [pool EXCEPT ![a] = o]
        /\ intent' = [intent EXCEPT ![o].step = "write", ![o].address = a]
  BY DEF AssignDepositAddress
<1>2. /\ intent[o].step = "assign"
      /\ UNCHANGED <<scanRefOf, marks, bindings, receiving, orphaned, failures>>
      /\ intent \in [Orders -> Intent] /\ RequestOK(o)
      /\ DOMAIN pool \subseteq PoolAddresses /\ pool \in [DOMAIN pool -> Orders \cup {None}]
  BY DEF AssignDepositAddress, Inv, TypeOK
<1>3. receiving[o] = None
  BY <1>2 DEF RequestOK
<1>4. a \in Addresses \cup {None} /\ a # None
  BY <1>2, DepositAssumption DEF Addresses
<1>5. /\ intent' \in [Orders -> Intent]
      /\ \A p \in Orders \ {o} : intent'[p] = intent[p]
      /\ intent'[o].step = "write" /\ intent'[o].address = a
  BY <1>1, <1>2, <1>4 DEF Intent
<1>6. /\ DOMAIN pool' = DOMAIN pool /\ pool' \in [DOMAIN pool -> Orders \cup {None}]
      /\ pool'[a] = o
      /\ \A c \in DOMAIN pool : c # a => pool'[c] = pool[c]
  BY <1>1, <1>2
<1>7. TypeOK'
  BY <1>2, <1>5, <1>6 DEF Inv, TypeOK
<1>8. \A p \in Orders : RequestOK(p)'
  <2> SUFFICES ASSUME NEW p \in Orders PROVE RequestOK(p)'
    OBVIOUS
  <2>1. CASE p = o
    BY <1>2, <1>3, <1>4, <1>5, <2>1 DEF RequestOK
  <2>2. CASE p # o
    BY <1>2, <1>5, <2>2 DEF Inv, RequestOK
  <2> QED  BY <2>1, <2>2
<1>9. (\A b \in bindings' : BindingOK(b)') /\ UniqueAddresses'
  BY <1>2 DEF Inv, BindingOK, UniqueAddresses
<1>10. \A p \in Orders : OrderOK(p)'
  <2> SUFFICES ASSUME NEW p \in Orders PROVE OrderOK(p)'
    OBVIOUS
  <2>1. CASE p = o
    <3>1. Finds(o, a)'
      BY <1>6 DEF Finds
    <3> QED  BY <1>2, <1>3, <1>5, <2>1, <3>1 DEF OrderOK
  <2>2. CASE p # o
    <3>1. OrderOK(p) /\ intent'[p] = intent[p]
      BY <1>5, <2>2 DEF Inv
    <3>2. p # None
      BY DepositAssumption
    <3>3. /\ Finds(p, receiving[p]) => Finds(p, receiving[p])'
          /\ Finds(p, intent[p].address) => Finds(p, intent[p].address)'
      BY <1>1, <1>2, <1>5, <1>6, <2>2, <3>1, <3>2 DEF Finds
    <3> QED  BY <1>2, <3>1, <3>3 DEF OrderOK, Finds
  <2> QED  BY <2>1, <2>2
<1> QED
  BY <1>7, <1>8, <1>9, <1>10 DEF Inv

\* The order takes over what its request knows of the address.
LEMMA WriteOrderInv ==
    ASSUME Inv, NEW o \in Orders, WriteOrder(o) PROVE Inv'
<1>1. /\ intent[o].step = "write"
      /\ receiving' = [receiving EXCEPT ![o] = intent[o].address]
      /\ intent' = [intent EXCEPT ![o] = Idle]
      /\ UNCHANGED <<scanRefOf, marks, bindings, pool, orphaned, failures>>
  BY DEF WriteOrder
<1>2. Idle \in Intent /\ Idle.step = "idle"
  BY DEF Idle, Intent
<1>3. /\ intent \in [Orders -> Intent] /\ RequestOK(o) /\ OrderOK(o)
      /\ receiving \in [Orders -> Addresses \cup {None}]
      /\ intent[o].address \in Addresses \cup {None}
  BY DEF Inv, TypeOK, Intent
<1>4. /\ intent' \in [Orders -> Intent] /\ intent'[o].step = "idle"
      /\ receiving' \in [Orders -> Addresses \cup {None}]
      /\ receiving'[o] = intent[o].address
      /\ \A p \in Orders \ {o} :
           intent'[p] = intent[p] /\ receiving'[p] = receiving[p]
  BY <1>1, <1>2, <1>3
<1>5. TypeOK'
  BY <1>1, <1>4 DEF Inv, TypeOK
<1>6. \A p \in Orders : RequestOK(p)'
  BY <1>1, <1>4 DEF Inv, RequestOK
<1>7. (\A b \in bindings' : BindingOK(b)') /\ UniqueAddresses'
  BY <1>1 DEF Inv, BindingOK, UniqueAddresses
<1>8. \A p \in Orders : OrderOK(p)'
  <2> SUFFICES ASSUME NEW p \in Orders PROVE OrderOK(p)'
    OBVIOUS
  <2>1. CASE p = o
    <3>1. intent[o].address # None
      BY <1>1, <1>3 DEF RequestOK
    <3> QED  BY <1>1, <1>3, <1>4, <2>1, <3>1 DEF OrderOK, Finds
  <2>2. CASE p # o
    BY <1>1, <1>4, <2>2 DEF Inv, OrderOK, Finds
  <2> QED  BY <2>1, <2>2
<1> QED
  BY <1>5, <1>6, <1>7, <1>8 DEF Inv

-----------------------------------------------------------------------------
(* What happens around the requests. *)

\* A key that a seller registers concerns no request in progress.
LEMMA RegisterSellerUfvkInv ==
    ASSUME Inv, NEW s \in Sellers, NEW k \in ScanRefs, RegisterSellerUfvk(s, k)
    PROVE  Inv'
<1>1. TypeOK'
  BY DEF Inv, TypeOK, RegisterSellerUfvk
<1> QED
  BY <1>1 DEF Inv, RegisterSellerUfvk, RequestOK, BindingOK, UniqueAddresses,
              OrderOK, Finds

\* The pool filler takes no address from an order.
LEMMA RegisterDepositAddressesInv ==
    ASSUME Inv, NEW A \in SUBSET PoolAddresses, RegisterDepositAddresses(A)
    PROVE  Inv'
<1>1. /\ DOMAIN pool' = DOMAIN pool \cup A
      /\ \A a \in DOMAIN pool : pool'[a] = pool[a]
      /\ \A a \in DOMAIN pool' : pool'[a] \in Orders \cup {None}
      /\ pool' = [a \in DOMAIN pool' |-> pool'[a]]
      /\ UNCHANGED <<scanRefOf, marks, bindings, receiving, intent, orphaned, failures>>
  BY DEF RegisterDepositAddresses, Inv, TypeOK
<1>2. TypeOK'
  BY <1>1 DEF Inv, TypeOK
<1>3. \A o \in Orders : \A a : Finds(o, a) => Finds(o, a)'
  BY <1>1 DEF Finds
<1>4. \A o \in Orders : OrderOK(o)'
  <2> SUFFICES ASSUME NEW o \in Orders PROVE OrderOK(o)'
    OBVIOUS
  <2>1. /\ Finds(o, receiving[o]) => Finds(o, receiving[o])'
        /\ Finds(o, intent[o].address) => Finds(o, intent[o].address)'
    BY <1>1 DEF Finds
  <2> QED  BY <1>1, <2>1 DEF Inv, OrderOK, Finds
<1> QED
  BY <1>1, <1>2, <1>4 DEF Inv, RequestOK, BindingOK, UniqueAddresses

\* An interruption leaves what was written, and orphans what it must.
LEMMA InterruptInv ==
    ASSUME Inv, NEW S \in SUBSET Orders, Interrupt(S) PROVE Inv'
<1>1. /\ intent' = [o \in Orders |-> IF o \in S THEN Idle ELSE intent[o]]
      /\ orphaned' = orphaned \cup {o \in S : intent[o].step = "write" /\ IsBound(o)}
      /\ UNCHANGED <<scanRefOf, marks, bindings, pool, receiving>>
      /\ failures' = failures + 1
  BY DEF Interrupt
<1>2. Idle \in Intent /\ Idle.step = "idle"
  BY DEF Idle, Intent
<1>3. /\ intent' \in [Orders -> Intent]
      /\ \A o \in S : intent'[o].step = "idle"
      /\ \A o \in Orders \ S : intent'[o] = intent[o]
  BY <1>1, <1>2 DEF Inv, TypeOK
<1>4. TypeOK'
  BY <1>1, <1>3 DEF Inv, TypeOK
<1>5. \A o \in Orders : RequestOK(o)'
  BY <1>1, <1>3 DEF Inv, RequestOK
<1>6. (\A b \in bindings' : BindingOK(b)') /\ UniqueAddresses'
  BY <1>1 DEF Inv, BindingOK, UniqueAddresses
<1>7. \A o \in Orders : OrderOK(o)'
  <2> SUFFICES ASSUME NEW o \in Orders PROVE OrderOK(o)'
    OBVIOUS
  <2>1. OrderOK(o)
    BY DEF Inv
  <2>2. CASE o \in S
    BY <1>1, <1>3, <2>1, <2>2 DEF OrderOK, Finds, IsBound, BindingsOf
  <2>3. CASE o \notin S
    BY <1>1, <1>3, <2>1, <2>3 DEF OrderOK, Finds
  <2> QED  BY <2>2, <2>3
<1> QED
  BY <1>4, <1>5, <1>6, <1>7 DEF Inv

-----------------------------------------------------------------------------
LEMMA NextInv == Inv /\ [Next]_vars => Inv'
<1> SUFFICES ASSUME Inv, [Next]_vars PROVE Inv'
  OBVIOUS
<1>1. CASE \E s \in Sellers, k \in ScanRefs : RegisterSellerUfvk(s, k)
  BY <1>1, RegisterSellerUfvkInv
<1>2. CASE \E A \in SUBSET PoolAddresses : A # {} /\ RegisterDepositAddresses(A)
  BY <1>2, RegisterDepositAddressesInv
<1>3. CASE \E o \in Orders : CreateOrderInvoice(o)
  BY <1>3, CreateOrderInvoiceInv
<1>4. CASE \E o \in Orders : IntentStep(o)
  <2>1. PICK o \in Orders : IntentStep(o)
    BY <1>4
  <2> QED
    BY <2>1, NextDiversifierIndexInv, DeriveAddressInv, ReconcileDiversifierMarkInv,
       BindOrderDepositInv, GiveUpInv, AssignDepositAddressInv, WriteOrderInv
       DEF IntentStep
<1>5. CASE (\E o \in Orders : RequestFails(o)) \/ Crash
  <2>1. \E S \in SUBSET Orders : Interrupt(S)
    BY <1>5 DEF RequestFails, Crash
  <2> QED  BY <2>1, InterruptInv
<1>6. CASE UNCHANGED vars
  BY <1>6 DEF vars, Inv, TypeOK, RequestOK, BindingOK, UniqueAddresses, OrderOK,
              Finds
<1> QED
  BY <1>1, <1>2, <1>3, <1>4, <1>5, <1>6 DEF Next

\* Every reachable state satisfies the inductive invariant.
THEOREM InvAlways == Spec => []Inv
<1> QED  BY InitInv, NextInv, PTL DEF Spec

\* The variables keep their types.
THEOREM TypeCorrect == Spec => []TypeOK
<1>1. Inv => TypeOK
  BY DEF Inv
<1> QED  BY <1>1, InvAlways, PTL

\* No address is bound to two orders.
THEOREM UniqueAddressesAlways == Spec => []UniqueAddresses
<1>1. Inv => UniqueAddresses
  BY DEF Inv
<1> QED  BY <1>1, InvAlways, PTL

\* The marks are above every index in use.
THEOREM MarkCoversBindingsAlways == Spec => []MarkCoversBindings
<1>1. Inv => MarkCoversBindings
  <2> SUFFICES ASSUME Inv, NEW b \in bindings
               PROVE  marks[b.sellerId] > b.diversifierIndex
    BY DEF MarkCoversBindings
  <2>1. b.sellerId \in Sellers /\ b.diversifierIndex \in Nat /\ marks \in [Sellers -> Nat]
    BY DEF Inv, TypeOK, Binding
  <2> QED  BY <2>1 DEF Inv, BindingOK
<1> QED  BY <1>1, InvAlways, PTL

\* A deposit to the address an order shows is credited to that order, unless a
\* request of the order was interrupted between binding and writing.
THEOREM DepositFindsItsOrderAlways == Spec => []DepositFindsItsOrder
<1>1. Inv => DepositFindsItsOrder
  <2> SUFFICES ASSUME Inv, NEW o \in Orders, o \notin orphaned, receiving[o] # None
               PROVE  OrdersForDeposit(receiving[o]) = {o}
    BY DEF DepositFindsItsOrder
  <2>1. Finds(o, receiving[o])
    BY DEF Inv, OrderOK
  <2>2. CASE \E b \in bindings : b.orderId = o /\ b.address = receiving[o]
    <3>1. BindingsAt(receiving[o]) # {}
      BY <2>2 DEF BindingsAt
    <3>2. {b.orderId : b \in BindingsAt(receiving[o])} = {o}
      BY <2>2 DEF BindingsAt, Inv, UniqueAddresses
    <3> QED  BY <3>1, <3>2 DEF OrdersForDeposit
  <2>3. CASE receiving[o] \in DOMAIN pool /\ pool[receiving[o]] = o
    <3>1. receiving[o] \in PoolAddresses
      BY <2>3 DEF Inv, TypeOK
    <3>2. \A b \in bindings : b.address # receiving[o]
      BY <3>1, DepositAssumption DEF Inv, BindingOK
    <3>3. BindingsAt(receiving[o]) = {}
      BY <3>2 DEF BindingsAt
    <3>4. o # None
      BY DepositAssumption
    <3> QED  BY <2>3, <3>3, <3>4 DEF OrdersForDeposit
  <2> QED  BY <2>1, <2>2, <2>3 DEF Finds
<1> QED  BY <1>1, InvAlways, PTL

\* No step lowers a mark.
THEOREM MarksMonotonic == Spec => MarksNeverLowered
<1>1. Inv /\ [Next]_vars => [\A s \in Sellers : marks'[s] >= marks[s]]_vars
  <2> SUFFICES ASSUME Inv, Next PROVE \A s \in Sellers : marks'[s] >= marks[s]
    OBVIOUS
  <2>1. marks \in [Sellers -> Nat] /\ \A o \in Orders : intent[o].index \in Nat
    BY DEF Inv, TypeOK, Intent
  <2>2. CASE \E o \in Orders : NextDiversifierIndex(o)
    BY <2>1, <2>2 DEF NextDiversifierIndex
  <2>3. CASE \E o \in Orders : ReconcileDiversifierMark(o)
    BY <2>1, <2>3 DEF ReconcileDiversifierMark
  <2>4. CASE marks' = marks
    BY <2>1, <2>4
  <2> QED
    BY <2>2, <2>3, <2>4
       DEF Next, IntentStep, RegisterSellerUfvk, RegisterDepositAddresses,
           CreateOrderInvoice, DeriveAddress, BindOrderDeposit, GiveUp,
           AssignDepositAddress, NoDepositAddress, WriteOrder, RequestFails, Crash,
           Interrupt
<1> QED  BY <1>1, InvAlways, PTL DEF Spec, MarksNeverLowered

\* No step removes or changes a binding.
THEOREM BindingsFinal == Spec => BindingsAreFinal
<1>1. [Next]_vars => [bindings \subseteq bindings']_vars
  BY DEF Next, IntentStep, RegisterSellerUfvk, RegisterDepositAddresses,
         CreateOrderInvoice, NextDiversifierIndex, DeriveAddress,
         ReconcileDiversifierMark, BindOrderDeposit, GiveUp, AssignDepositAddress,
         NoDepositAddress, WriteOrder, RequestFails, Crash, Interrupt
<1> QED  BY <1>1, PTL DEF Spec, BindingsAreFinal
=============================================================================
