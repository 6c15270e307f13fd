------------------------- MODULE DeliveryQueueProofs -------------------------
(***************************************************************************)
(* Proofs about DeliveryQueue: for any set of purchases, the queue works   *)
(* on one at a time, unless a list has taken one from under it.            *)
(***************************************************************************)
EXTENDS DeliveryQueue, TLAPS

\* What the page sees of a paid order.
Paid == {"away", "present", "delivered"}

\* What the page was shown, or is about to be shown, as paid is paid.
ListIsOld(list) == \A o \in Orders : list[o] \in Paid => status[o] = "paid"

ListsOK ==
    /\ ListIsOld(sellerFiles)
    /\ \A list \in [Orders -> Summary] :
         <<"list", list>> \in {answer, loading} => ListIsOld(list)

\* The order of the slot is worked on; an order that is worked on beside it, more than once
\* or without being pending, was passed.
SlotOK ==
    /\ inFlight # 0 => Working(inFlight)
    /\ \A o \in Orders : Working(o) =>
         /\ status[o] = "paid"
         /\ o = inFlight \/ o \in passed
         /\ IsPending(sellerFiles[o]) \/ o \in passed
    /\ \A o \in Orders : fetching[o] + sending[o] > 1 => o \in passed

Inv == TypeOK /\ ListsOK /\ SlotOK

-----------------------------------------------------------------------------
LEMMA InitInv == Init => Inv
  BY QueueAssumption
  DEF Init, Inv, TypeOK, Unseen, NoRun, Status, Summary, Answer, ListsOK, ListIsOld, SlotOK,
      Working, Paid

\* A disruption is counted, and its order noted.
LEMMA Disrupted ==
    ASSUME Inv, NEW o \in Orders,
           \/ Disrupt /\ disturbed' = disturbed \cup {o}
           \/ UNCHANGED history
    PROVE  disturbed' \subseteq Orders /\ disruptions' \in 0 .. MaxDisruptions
  <1>1. disturbed \subseteq Orders /\ disruptions \in 0 .. MaxDisruptions
    BY DEF Inv, TypeOK
  <1>2. CASE UNCHANGED history
    BY <1>1, <1>2 DEF history
  <1>3. CASE Disrupt /\ disturbed' = disturbed \cup {o}
    <2>1. disruptions' \in 0 .. MaxDisruptions
      BY <1>1, <1>3, QueueAssumption DEF Disrupt
    <2> QED BY <1>1, <1>3, <2>1
  <1> QED BY <1>2, <1>3

\* The queue picks a purchase that was shown as one whose buyer is present, and only when
\* the slot is free or its order was not shown as pending.
LEMMA Selected ==
    ASSUME NEW o \in SelectNextPurchaseToDeliver
    PROVE  /\ o \in Orders
           /\ sellerFiles[o] = "present"
           /\ ~(inFlight # 0 /\ IsPurchasePendingDelivery(inFlight))
  BY QueueAssumption DEF SelectNextPurchaseToDeliver, First

\* The tracking keeps its type.
LEMMA RefreshType ==
    ASSUME Inv
    PROVE  RefreshProgress \in [Orders -> {"no", "watched", "stuck"}]
  BY DEF Inv, TypeOK, RefreshProgress

\* What stays true while no list comes and no deliverNext begins, moves on or ends.
LEMMA QueueStays ==
    ASSUME Inv, UNCHANGED <<lists, inFlight, fetching, sending, passed>>,
           \A o \in Orders : status[o] = "paid" => status'[o] = "paid"
    PROVE  ListsOK' /\ SlotOK'
  <1>1. ListsOK'
    BY DEF Inv, ListsOK, ListIsOld, lists
  <1>2. SlotOK'
    BY DEF Inv, SlotOK, Working, lists
  <1> QED BY <1>1, <1>2

LEMMA WorldStep ==
    ASSUME Inv, NEW o \in Orders,
           \/ MakeOrderDir(o) \/ WriteOrder(o) \/ WriteOrderFails(o) \/ MarkOrderPaid(o)
           \/ BuyerComes(o) \/ BuyerLeaves(o) \/ Demote(o)
           \/ MarkTransferDelivered(o) \/ TakeBack(o) \/ SendFileFails(o)
    PROVE  Inv'
  <1> USE QueueAssumption
  <1>1. UNCHANGED <<lists, inFlight, fetching, sending, passed>>
    BY DEF MakeOrderDir, WriteOrder, WriteOrderFails, MarkOrderPaid, BuyerComes, BuyerLeaves,
           Demote, MarkTransferDelivered, TakeBack, SendFileFails, world, queue
  <1>2. \A q \in Orders : status[q] = "paid" => status'[q] = "paid"
    BY DEF MakeOrderDir, WriteOrder, WriteOrderFails, MarkOrderPaid, BuyerComes, BuyerLeaves,
           Demote, MarkTransferDelivered, TakeBack, SendFileFails, world, Inv, TypeOK
  <1>3. TypeOK'
    <2> USE <1>1 DEF lists
    <2>1. CASE MakeOrderDir(o) \/ WriteOrder(o) \/ MarkOrderPaid(o)
      BY <2>1 DEF MakeOrderDir, WriteOrder, MarkOrderPaid, queue, history, Inv, TypeOK, Status
    <2>2. CASE WriteOrderFails(o)
      BY <2>2 DEF WriteOrderFails, Disrupt, queue, Inv, TypeOK, Status
    <2>3. CASE BuyerComes(o)
      BY <2>3 DEF BuyerComes, queue, history, Inv, TypeOK
    <2>4. CASE BuyerLeaves(o)
      BY <2>4 DEF BuyerLeaves, Disrupt, queue, Inv, TypeOK
    <2>5. CASE Demote(o)
      BY <2>5 DEF Demote, world, history, Inv, TypeOK
    <2>6. CASE MarkTransferDelivered(o)
      BY <2>6 DEF MarkTransferDelivered, queue, history, Inv, TypeOK
    <2>7. CASE TakeBack(o)
      <3>1. disturbed' \subseteq Orders /\ disruptions' \in 0 .. MaxDisruptions
        BY <2>7, Disrupted DEF TakeBack
      <3> QED BY <2>7, <3>1 DEF TakeBack, queue, Inv, TypeOK
    <2>8. CASE SendFileFails(o)
      <3>1. disturbed' \subseteq Orders /\ disruptions' \in 0 .. MaxDisruptions
        BY <2>8, Disrupted DEF SendFileFails
      <3> QED BY <2>8, <3>1 DEF SendFileFails, world, queue, Inv, TypeOK
    <2> QED BY <2>1, <2>2, <2>3, <2>4, <2>5, <2>6, <2>7, <2>8
  <1> QED BY <1>1, <1>2, <1>3, QueueStays DEF Inv

\* The server's list shows an order as paid only if it is.
LEMMA Listed ==
    ASSUME Inv
    PROVE  /\ ListOrdersForSeller \in Answer
           /\ \A list \in [Orders -> Summary] :
                ListOrdersForSeller = <<"list", list>> => ListIsOld(list)
  <1> DEFINE now == [o \in Orders |-> SummaryOf(o)]
  <1>1. ASSUME NEW o \in Orders, status[o] \notin {"half", "orphan"}
        PROVE  SummaryOf(o) \in Paid => status[o] = "paid"
    <2>1. status[o] \in Status
      BY DEF Inv, TypeOK
    <2>2. CASE status[o] = "none"
      BY <2>2 DEF SummaryOf, Paid
    <2>3. CASE status[o] = "created"
      BY <2>3 DEF SummaryOf, Paid
    <2>4. CASE status[o] = "paid"
      BY <2>4
    <2> QED BY <1>1, <2>1, <2>2, <2>3, <2>4 DEF Status
  <1>2. \A o \in Orders : SummaryOf(o) \in Summary
    BY DEF SummaryOf, Summary
  <1>3. now \in [Orders -> Summary]
    BY <1>2
  <1>4. ListOrdersForSeller \in {<<"failed">>, <<"list", now>>}
    BY DEF ListOrdersForSeller
  <1>5. ListOrdersForSeller = <<"list", now>>
          => \A o \in Orders : status[o] \notin {"half", "orphan"}
    BY DEF ListOrdersForSeller
  <1>6. ListOrdersForSeller = <<"list", now>> => ListIsOld(now)
    BY <1>1, <1>5 DEF ListIsOld
  <1>7. ListOrdersForSeller \in Answer
    BY <1>3, <1>4 DEF Answer
  <1> HIDE DEF now
  <1>8. ASSUME NEW list \in [Orders -> Summary], ListOrdersForSeller = <<"list", list>>
        PROVE  ListIsOld(list)
    <2>1. ListOrdersForSeller = <<"list", now>> /\ list = now
      BY <1>4, <1>8
    <2> QED BY <1>6, <2>1
  <1> QED BY <1>7, <1>8

LEMMA AskStep ==
    ASSUME Inv, PollSellerFiles \/ LoadSellerFiles
    PROVE  Inv'
  <1>1. /\ UNCHANGED <<world, stuckBuyers, sellerFiles, queue, streams, disturbed>>
        /\ \/ answer' = ListOrdersForSeller /\ UNCHANGED loading
           \/ loading' = ListOrdersForSeller /\ UNCHANGED answer
    BY DEF PollSellerFiles, LoadSellerFiles, history
  <1>2. disruptions' \in 0 .. MaxDisruptions
    BY QueueAssumption DEF PollSellerFiles, LoadSellerFiles, Disrupt, history, Inv, TypeOK
  <1>3. TypeOK'
    BY <1>1, <1>2, Listed DEF Inv, TypeOK, world, queue
  <1>4. ListsOK'
    <2>1. status' = status /\ sellerFiles' = sellerFiles
      BY <1>1 DEF world
    <2>2. ASSUME NEW list \in [Orders -> Summary], <<"list", list>> \in {answer', loading'}
          PROVE  ListIsOld(list)
      BY <1>1, <2>2, Listed DEF Inv, ListsOK
    <2> QED BY <2>1, <2>2 DEF Inv, ListsOK, ListIsOld
  <1>5. SlotOK'
    BY <1>1 DEF Inv, SlotOK, Working, world, queue
  <1> QED BY <1>3, <1>4, <1>5 DEF Inv

LEMMA ShowStep ==
    ASSUME Inv, ShowPolledFiles \/ ShowLoadedFiles
    PROVE  Inv'
  <1>1. PICK got \in {answer, loading} : got # <<>> /\ SetSellerFiles(got)
    BY DEF ShowPolledFiles, ShowLoadedFiles
  <1>2. /\ UNCHANGED <<world, stuckBuyers, watched, inFlight, fetching, sending, streams, history>>
        /\ \/ answer' = <<>> /\ UNCHANGED loading
           \/ loading' = <<>> /\ UNCHANGED answer
    BY DEF ShowPolledFiles, ShowLoadedFiles
  <1>3. \A list : <<"list", list>> \in {answer', loading'} => <<"list", list>> \in {answer, loading}
    BY <1>2
  <1>4. answer' \in Answer /\ loading' \in Answer
    BY <1>2 DEF Inv, TypeOK, Answer
  <1>5. CASE UNCHANGED <<sellerFiles, passed>>
    <2>1. TypeOK'
      BY <1>2, <1>4, <1>5 DEF Inv, TypeOK, world, history
    <2>2. ListsOK'
      BY <1>2, <1>3, <1>5 DEF Inv, ListsOK, ListIsOld, world
    <2>3. SlotOK'
      BY <1>2, <1>5 DEF Inv, SlotOK, Working, world
    <2> QED BY <2>1, <2>2, <2>3 DEF Inv
  <1>6. ASSUME NEW list \in [Orders -> Summary], got = <<"list", list>>,
               sellerFiles' = list,
               passed' = passed \cup {o \in Orders : Working(o) /\ ~IsPending(list[o])}
        PROVE  Inv'
    <2>1. ListIsOld(list)
      BY <1>1, <1>6 DEF Inv, ListsOK
    <2>2. TypeOK'
      BY <1>2, <1>4, <1>6 DEF Inv, TypeOK, world, history
    <2>3. ListsOK'
      BY <1>2, <1>3, <1>6, <2>1 DEF Inv, ListsOK, ListIsOld, world
    <2>4. SlotOK'
      BY <1>2, <1>6 DEF Inv, SlotOK, Working, world
    <2> QED BY <2>2, <2>3, <2>4 DEF Inv
  <1>7. got \in Answer
    BY <1>1 DEF Inv, TypeOK
  <1>8. CASE got = <<"failed">>
    BY <1>1, <1>5, <1>8 DEF SetSellerFiles
  <1>9. ASSUME NEW list \in [Orders -> Summary], got = <<"list", list>>
        PROVE  Inv'
    BY <1>1, <1>6, <1>9 DEF SetSellerFiles
  <1> QED BY <1>1, <1>7, <1>8, <1>9 DEF Answer

LEMMA DeliverStep ==
    ASSUME Inv, DeliverNext
    PROVE  Inv'
  <1> USE QueueAssumption
  <1>1. PICK o \in SelectNextPurchaseToDeliver :
          /\ watched' = [RefreshProgress EXCEPT ![o] = IF @ = "no" THEN "watched" ELSE @]
          /\ inFlight' = o
          /\ fetching' = [fetching EXCEPT ![o] = @ + 1]
          /\ UNCHANGED <<world, stuckBuyers, lists, sending, passed, streams, history>>
    BY DEF DeliverNext
  <1>2. /\ o \in Orders /\ sellerFiles[o] = "present"
        /\ ~(inFlight # 0 /\ IsPurchasePendingDelivery(inFlight))
    BY Selected
  <1>3. /\ fetching \in [Orders -> Nat] /\ sending \in [Orders -> Nat]
        /\ inFlight \in Orders \cup {0}
    BY DEF Inv, TypeOK
  <1>4. TypeOK'
    BY <1>1, <1>2, <1>3, RefreshType DEF Inv, TypeOK, world, lists, history
  <1>5. ListsOK'
    BY <1>1 DEF Inv, ListsOK, ListIsOld, world, lists
  <1>6. /\ status[o] = "paid" /\ IsPending(sellerFiles[o])
        /\ \A q \in Orders : Working(q) => q \in passed
    <2>1. ASSUME NEW q \in Orders, Working(q) PROVE q \in passed
      <3>1. CASE q = inFlight
        BY <1>2, <2>1, <3>1 DEF Inv, SlotOK, IsPurchasePendingDelivery
      <3>2. CASE q # inFlight
        BY <2>1, <3>2 DEF Inv, SlotOK
      <3> QED BY <3>1, <3>2
    <2> QED BY <1>2, <2>1 DEF Inv, ListsOK, ListIsOld, Paid, IsPending
  <1>7. /\ fetching'[o] = fetching[o] + 1 /\ sending' = sending /\ passed' = passed
        /\ status' = status /\ sellerFiles' = sellerFiles
        /\ \A q \in Orders \ {o} : fetching'[q] = fetching[q]
    BY <1>1, <1>2, <1>3 DEF world, lists
  <1>8. SlotOK'
    <2>1. Working(o)'
      BY <1>2, <1>3, <1>7 DEF Working
    <2>2. \A q \in Orders \ {o} : Working(q)' = Working(q)
      BY <1>7 DEF Working
    <2>3. fetching'[o] + sending'[o] > 1 => o \in passed
      <3>1. fetching[o] \in Nat /\ sending[o] \in Nat
        BY <1>2, <1>3
      <3> QED BY <1>2, <1>6, <1>7, <3>1 DEF Working
    <2> QED BY <1>1, <1>2, <1>6, <1>7, <2>1, <2>2, <2>3 DEF Inv, SlotOK
  <1> QED BY <1>4, <1>5, <1>8 DEF Inv

\* A deliverNext on the order ends, and the slot is freed.
LEMMA Freed ==
    ASSUME Inv, NEW o \in Orders, FreeSlot(o), UNCHANGED <<status, sellerFiles>>,
           \/ EndFetch(o) /\ UNCHANGED sending
           \/ EndSend(o) /\ UNCHANGED fetching
    PROVE  /\ fetching' \in [Orders -> Nat] /\ sending' \in [Orders -> Nat]
           /\ inFlight' \in Orders \cup {0} /\ passed' \subseteq Orders
           /\ SlotOK' /\ status[o] = "paid"
  <1> USE QueueAssumption
  <1>1. /\ fetching \in [Orders -> Nat] /\ sending \in [Orders -> Nat]
        /\ inFlight \in Orders \cup {0} /\ passed \subseteq Orders
    BY DEF Inv, TypeOK
  <1>2. /\ fetching' \in [Orders -> Nat] /\ sending' \in [Orders -> Nat]
        /\ \A q \in Orders \ {o} : fetching'[q] = fetching[q] /\ sending'[q] = sending[q]
        /\ fetching'[o] + sending'[o] = fetching[o] + sending[o] - 1
        /\ Working(o)
    <2>1. fetching[o] \in Nat /\ sending[o] \in Nat
      BY <1>1
    <2>2. CASE EndFetch(o) /\ UNCHANGED sending
      BY <1>1, <2>1, <2>2 DEF EndFetch, Working
    <2>3. CASE EndSend(o) /\ UNCHANGED fetching
      BY <1>1, <2>1, <2>3 DEF EndSend, Working
    <2> QED BY <2>2, <2>3
  <1>3. /\ inFlight' = IF inFlight = o THEN 0 ELSE inFlight
        /\ passed' = passed \ (IF fetching'[o] + sending'[o] = 0 THEN {o} ELSE {})
    BY DEF FreeSlot
  <1>4. \A q \in Orders \ {o} : /\ Working(q)' = Working(q)
                                /\ q \in passed' <=> q \in passed
    BY <1>2, <1>3 DEF Working
  <1>5. Working(o)' \/ fetching'[o] + sending'[o] > 1 => o \in passed'
    <2>1. fetching[o] \in Nat /\ sending[o] \in Nat /\ fetching'[o] \in Nat /\ sending'[o] \in Nat
      BY <1>1, <1>2
    <2>2. Working(o)' \/ fetching'[o] + sending'[o] > 1
            => fetching[o] + sending[o] > 1 /\ fetching'[o] + sending'[o] # 0
      BY <1>2, <2>1 DEF Working
    <2> QED BY <1>3, <2>2 DEF Inv, SlotOK
  <1>6. SlotOK'
    <2>1. inFlight' # 0 => Working(inFlight)'
      BY <1>1, <1>3, <1>4 DEF Inv, SlotOK
    <2>2. ASSUME NEW q \in Orders \ {o}, Working(q)'
          PROVE  /\ status'[q] = "paid"
                 /\ q = inFlight' \/ q \in passed'
                 /\ IsPending(sellerFiles'[q]) \/ q \in passed'
      BY <1>3, <1>4, <2>2 DEF Inv, SlotOK
    <2>3. status'[o] = "paid"
      BY <1>2 DEF Inv, SlotOK
    <2>4. \A q \in Orders \ {o} : fetching'[q] + sending'[q] > 1 => q \in passed'
      BY <1>2, <1>4 DEF Inv, SlotOK
    <2> QED BY <1>5, <2>1, <2>2, <2>3, <2>4 DEF SlotOK
  <1> QED BY <1>1, <1>2, <1>3, <1>6 DEF Inv, SlotOK

LEMMA SendStep ==
    ASSUME Inv, NEW o \in Orders, FetchOrder(o) \/ SendToBuyer(o) \/ DeliverNextFails(o)
    PROVE  Inv'
  <1> USE QueueAssumption
  <1>1. UNCHANGED <<status, delivered, present, stuckBuyers, lists, watched>>
    BY DEF FetchOrder, SendToBuyer, DeliverNextFails, world
  <1>2. /\ fetching' \in [Orders -> Nat] /\ sending' \in [Orders -> Nat]
        /\ inFlight' \in Orders \cup {0} /\ passed' \subseteq Orders
        /\ SlotOK' /\ status[o] = "paid"
    <2>1. CASE FetchOrder(o) /\ o \notin delivered
      <3>1. /\ fetching[o] > 0 /\ fetching' = [fetching EXCEPT ![o] = @ - 1]
            /\ sending' = [sending EXCEPT ![o] = @ + 1]
            /\ UNCHANGED <<inFlight, passed>>
        BY <2>1 DEF FetchOrder, EndFetch
      <3>2. /\ fetching \in [Orders -> Nat] /\ sending \in [Orders -> Nat]
            /\ fetching[o] \in Nat /\ sending[o] \in Nat
            /\ inFlight \in Orders \cup {0} /\ passed \subseteq Orders
        BY DEF Inv, TypeOK
      <3>3. /\ fetching' \in [Orders -> Nat] /\ sending' \in [Orders -> Nat]
            /\ \A q \in Orders : fetching'[q] + sending'[q] = fetching[q] + sending[q]
            /\ Working(o) /\ \A q \in Orders : Working(q)' = Working(q)
        BY <3>1, <3>2 DEF Working
      <3> QED BY <1>1, <3>1, <3>2, <3>3 DEF Inv, SlotOK, lists
    <2>2. CASE ~(FetchOrder(o) /\ o \notin delivered)
      <3>1. FreeSlot(o) /\ \/ EndFetch(o) /\ UNCHANGED sending
                           \/ EndSend(o) /\ UNCHANGED fetching
        BY <2>2 DEF FetchOrder, SendToBuyer, DeliverNextFails
      <3> QED BY <1>1, <3>1, Freed DEF lists
    <2> QED BY <2>1, <2>2
  <1>3. /\ released' \subseteq {q \in Orders : status[q] = "paid"}
        /\ delivered \subseteq released' /\ streams' \subseteq released'
        /\ disturbed' \subseteq Orders /\ disruptions' \in 0 .. MaxDisruptions
    <2>1. CASE FetchOrder(o)
      BY <2>1 DEF FetchOrder, world, history, Inv, TypeOK
    <2>2. CASE SendToBuyer(o)
      BY <2>2 DEF SendToBuyer, OnReleaseSellerKey, OnResendKeyOverNym, MaybeSendFileOverNym,
                  history, Inv, TypeOK
    <2>3. CASE DeliverNextFails(o)
      <3>1. released' = released \/ released' = released \cup {o}
        BY <2>3 DEF DeliverNextFails
      <3>2. disturbed' \subseteq Orders /\ disruptions' \in 0 .. MaxDisruptions
        BY <2>3, Disrupted DEF DeliverNextFails
      <3>3. /\ released \subseteq {q \in Orders : status[q] = "paid"}
            /\ delivered \subseteq released /\ streams \subseteq released /\ UNCHANGED streams
        BY <2>3 DEF DeliverNextFails, Inv, TypeOK
      <3> QED BY <1>2, <3>1, <3>2, <3>3
    <2> QED BY <2>1, <2>2, <2>3
  <1>4. TypeOK'
    BY <1>1, <1>2, <1>3 DEF Inv, TypeOK, lists
  <1>5. ListsOK'
    BY <1>1 DEF Inv, ListsOK, ListIsOld, lists
  <1> QED BY <1>2, <1>4, <1>5 DEF Inv

LEMMA ReloadStep ==
    ASSUME Inv, Reload
    PROVE  Inv'
  BY QueueAssumption
  DEF Reload, Disrupt, world, Unseen, NoRun, Inv, TypeOK, Status, Summary, Answer, ListsOK,
      ListIsOld, SlotOK, Working, Paid

LEMMA Invariance == Inv /\ [Next]_vars => Inv'
  <1> SUFFICES ASSUME Inv, [Next]_vars PROVE Inv'
    OBVIOUS
  <1>1. CASE UNCHANGED vars
    BY <1>1 DEF vars, world, lists, queue, history, Inv, TypeOK, ListsOK, ListIsOld, SlotOK,
                Working
  <1>2. CASE Next
    BY <1>2, WorldStep, AskStep, ShowStep, DeliverStep, SendStep, ReloadStep DEF Next
  <1> QED BY <1>1, <1>2

-----------------------------------------------------------------------------
\* The inductive invariant holds in every reachable state, for any purchases and drafts.
THEOREM InvAlways == Spec => []Inv
  BY InitInv, Invariance, PTL DEF Spec

\* The variables keep their types: in particular only a paid order is released, only a
\* released one streams or is delivered.
THEOREM TypeCorrect == Spec => []TypeOK
  <1>1. Inv => TypeOK
    BY DEF Inv
  <1> QED BY <1>1, InvAlways, PTL

\* deliverNext works on one purchase at a time, but for one that a list no longer showed as
\* pending meanwhile, and the slot is never held by an order that it does not work on.
THEOREM OneAtATime == Spec => []OneSendAtATime
  <1>1. Inv => OneSendAtATime
    BY DEF Inv, SlotOK, OneSendAtATime
  <1> QED BY <1>1, InvAlways, PTL
=============================================================================
