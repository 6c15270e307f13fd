--------------------------- MODULE DeliveryProofs ---------------------------
(***************************************************************************)
(* "Delivered" is true on the seller's screen, for any number of addresses *)
(* and disruptions: an acknowledgement exists only after the file was      *)
(* opened, wherever it is on its way.  And the key leaves the seller's     *)
(* page only after the server has recorded its release.                    *)
(*                                                                         *)
(* The last part is about one stream of that delivery, packet by packet    *)
(* (NymFileTransfer), for files, windows and bounds of any size.  An       *)
(* acknowledgement comes from a hash computation, and a hash computation   *)
(* from a complete set of chunks: its invariant follows the way back from  *)
(* the acknowledgement to the chunks, through receivers that were aborted  *)
(* in between.                                                             *)
(***************************************************************************)
EXTENDS DeliveryHandshake, NymFileTransfer, TLAPS

\* A page that will acknowledge, an acknowledgement on its way, one that was
\* applied: each of them means that the file has been opened.
AckInv ==
    /\ buyer.acks > 0 => opened
    /\ \A r \in requests : r.kind = "delivered" => opened
    /\ delivered => opened

Inv == TypeOK /\ AckInv

\* The page as it is loaded.
LEMMA LoadedType == LoadedPage \in SellerPage
  BY DEF LoadedPage, SellerPage

\* What the functions of the seller's page make of a page is a page, and none of them
\* but SendKeyAndFile sends anything.
LEMMA PageTypes ==
    ASSUME Inv, NEW page \in SellerPage
    PROVE  /\ ApplyOrderState(page) \in SellerPage
           /\ ApplyOrderState(page).keySent = page.keySent
           /\ ApplyOrderState(page).stream = page.stream
           /\ \A d \in Detectors : /\ EndRelease(d, page) \in SellerPage
                                   /\ EndRelease(d, page).keySent = page.keySent
                                   /\ EndRelease(d, page).stream = page.stream
           /\ \A to \in Addresses : SendKeyAndFile(page, to) \in SellerPage
  <1>1. released \in BOOLEAN
    BY DEF Inv, TypeOK
  <1>2. /\ ApplyOrderState(page) \in SellerPage
        /\ ApplyOrderState(page).keySent = page.keySent
        /\ ApplyOrderState(page).stream = page.stream
    BY <1>1 DEF ApplyOrderState, SellerPage
  <1>3. ASSUME NEW d \in Detectors
        PROVE  /\ EndRelease(d, page) \in SellerPage
               /\ EndRelease(d, page).keySent = page.keySent
               /\ EndRelease(d, page).stream = page.stream
    BY DEF EndRelease, SellerPage
  <1>4. ASSUME NEW to \in Addresses PROVE SendKeyAndFile(page, to) \in SellerPage
    BY DEF SendKeyAndFile, SellerPage
  <1> QED BY <1>2, <1>3, <1>4

\* Neither does a challenge send anything.
LEMMA ChallengeType ==
    ASSUME Inv, NEW page \in SellerPage, NEW d \in Detectors, GetReleaseChallenge(d, page),
           page.keySent = seller.keySent, page.stream = seller.stream
    PROVE  /\ seller' \in SellerPage
           /\ seller'.keySent = seller.keySent /\ seller'.stream = seller.stream
           /\ disruptions' \in 0 .. MaxDisruptions
  <1> USE HandshakeAssumption
  <1>1. disruptions' \in 0 .. MaxDisruptions
    BY DEF GetReleaseChallenge, Disrupt, Inv, TypeOK
  <1>2. address \in Addresses
    BY DEF Inv, TypeOK
  <1>6. ASSUME NEW p \in SellerPage
        PROVE  /\ [p EXCEPT !.busy = FALSE] \in SellerPage
               /\ [p EXCEPT !.busy = TRUE, !.release[d] = address] \in SellerPage
               /\ [p EXCEPT !.busy = FALSE].keySent = p.keySent
               /\ [p EXCEPT !.busy = FALSE].stream = p.stream
               /\ [p EXCEPT !.busy = TRUE, !.release[d] = address].keySent = p.keySent
               /\ [p EXCEPT !.busy = TRUE, !.release[d] = address].stream = p.stream
    BY <1>2 DEF SellerPage
  <1>7. /\ ApplyOrderState(page) \in SellerPage
        /\ ApplyOrderState(page).keySent = seller.keySent
        /\ ApplyOrderState(page).stream = seller.stream
    BY PageTypes
  <1>3. CASE seller' = [page EXCEPT !.busy = FALSE]
    BY <1>1, <1>3, <1>6
  <1>4. CASE seller' = [ApplyOrderState(page) EXCEPT !.busy = FALSE]
    BY <1>1, <1>4, <1>6, <1>7
  <1>5. CASE seller' = [ApplyOrderState(page) EXCEPT !.busy = TRUE, !.release[d] = address]
    BY <1>1, <1>5, <1>6, <1>7
  <1> QED BY <1>3, <1>4, <1>5 DEF GetReleaseChallenge

\* The initial states satisfy the invariant.
LEMMA InitInv == Init => Inv
  <1> SUFFICES ASSUME Init PROVE Inv
    OBVIOUS
  <1> USE HandshakeAssumption
  <1>1. 0 \in Lives /\ 0 \in 0 .. MaxAckAttempts /\ 0 \in 0 .. MaxDisruptions
    BY DEF Lives
  <1>2. buyer \in Page /\ buyer.acks = 0
    BY <1>1 DEF Init, Page
  <1>3. seller \in SellerPage
    <2>1. LoadedPage \in SellerPage
      BY LoadedType
    <2>2. \A c \in {"none", "memory", "stored"} :
            [LoadedPage EXCEPT !.ciphertext = c, !.created = "pending"] \in SellerPage
      BY <2>1 DEF SellerPage
    <2> QED BY <2>1, <2>2 DEF Init, OnCreateLink, PutSellerCiphertext
  <1>4. TypeOK
    BY <1>1, <1>2, <1>3 DEF Init, TypeOK
  <1>5. AckInv
    BY <1>2 DEF Init, AckInv
  <1> QED BY <1>4, <1>5 DEF Inv

\* What a page sends is a request.
LEMMA SendType ==
    ASSUME Inv
    PROVE  /\ [kind |-> "nym-session", address |-> buyer.address, life |-> buyer.life]
                \in Request
           /\ [kind |-> "claim", address |-> None, life |-> buyer.life] \in Request
           /\ [kind |-> "delivered", address |-> None, life |-> buyer.life] \in Request
  <1>1. buyer.life \in Lives /\ buyer.address \in Addresses
    BY DEF Inv, TypeOK, Page
  <1> QED BY <1>1 DEF Request

\* Opening the file leaves a page.
LEMMA OpenType == ASSUME NEW page \in Page PROVE Open(page) \in Page
  <1>1. MaxAckAttempts \in 0 .. MaxAckAttempts
    BY HandshakeAssumption
  <1> QED BY <1>1 DEF Open, Page

\* A reassembled file is opened, or is lost to the page, which is a disruption.
LEMMA OpenReassembled ==
    ASSUME Inv, NEW page \in Page, page.acks = buyer.acks,
           OpenReassembledCiphertext(page)
    PROVE  /\ buyer' \in Page /\ buyer'.key = page.key
           /\ disruptions' \in 0 .. MaxDisruptions
           /\ opened' \in BOOLEAN /\ (opened => opened')
           /\ buyer'.acks > 0 => opened'
  <1>1. /\ disruptions \in 0 .. MaxDisruptions /\ MaxDisruptions \in Nat
        /\ opened \in BOOLEAN
    BY HandshakeAssumption DEF Inv, TypeOK
  <1>2. CASE buyer' = Open(page) /\ opened' = TRUE /\ UNCHANGED disruptions
    <2>1. buyer' \in Page
      BY <1>2, OpenType
    <2>2. buyer'.key = page.key
      BY <1>2 DEF Open, Page
    <2> QED BY <1>1, <1>2, <2>1, <2>2
  <1>3. CASE Disrupt /\ buyer' = [page EXCEPT !.file = "failed"] /\ UNCHANGED opened
    <2>1. buyer' \in Page /\ buyer'.key = page.key /\ buyer'.acks = page.acks
      BY <1>3 DEF Page
    <2>2. disruptions' \in 0 .. MaxDisruptions
      BY <1>1, <1>3 DEF Disrupt
    <2>3. /\ opened' \in BOOLEAN /\ (opened => opened')
          /\ buyer.acks > 0 => opened'
      BY <1>1, <1>3 DEF Inv, AckInv
    <2>4. buyer'.acks = buyer.acks
      BY <2>1
    <2> QED BY <2>1, <2>2, <2>3, <2>4
  <1> QED BY <1>2, <1>3 DEF OpenReassembledCiphertext

\* The steps of the buyer's page preserve the invariant.
LEMMA BuyerInv == ASSUME Inv, BuyerStep PROVE Inv'
  <1> USE HandshakeAssumption
  <1>0. /\ buyer \in Page /\ buyer.life \in Lives /\ buyer.address \in Addresses
        /\ buyer.received \in BOOLEAN /\ buyer.claimed \in BOOLEAN
        /\ buyer.key \in BOOLEAN /\ buyer.acks \in 0 .. MaxAckAttempts
        /\ buyer.file \in {"none", "receiving", "reassembled", "open", "failed"}
    BY DEF Inv, TypeOK, Page
  <1>1. CASE Heartbeat
    <2>1. [kind |-> "nym-session", address |-> buyer.address, life |-> buyer.life]
            \in Request
      BY SendType
    <2> QED BY <1>1, <2>1 DEF Heartbeat, Send, Inv, TypeOK, AckInv, server, history
  <1>2. CASE Claim
    <2>1. [kind |-> "claim", address |-> None, life |-> buyer.life] \in Request
      BY SendType
    <2>2. buyer' \in Page /\ buyer'.acks = buyer.acks
      BY <1>0, <1>2 DEF Claim, Page
    <2> QED BY <1>2, <2>1, <2>2 DEF Claim, Send, Inv, TypeOK, AckInv, server, history
  <1>3. CASE Poll
    <2>1. buyer' \in Page /\ buyer'.acks = buyer.acks
      BY <1>0, <1>3 DEF Poll, Page, Inv, TypeOK
    <2> QED BY <1>3, <2>1 DEF Poll, Inv, TypeOK, AckInv, server, history
  <1>4. CASE \E m \in mixnet : ReceiveKey(m)
    <2>1. PICK m \in mixnet : ReceiveKey(m)
      BY <1>4
    <2>2. CASE UNCHANGED <<buyer, opened, disruptions>>
      BY <2>1, <2>2 DEF ReceiveKey, Inv, TypeOK, AckInv, server
    <2>3. CASE buyer' = [buyer EXCEPT !.key = TRUE] /\ UNCHANGED <<opened, disruptions>>
      <3>1. buyer' \in Page /\ buyer'.acks = buyer.acks
        BY <1>0, <2>3 DEF Page
      <3> QED BY <2>1, <2>3, <3>1 DEF ReceiveKey, Inv, TypeOK, AckInv, server
    <2>4. CASE OpenReassembledCiphertext([buyer EXCEPT !.key = TRUE])
      <3>1. /\ [buyer EXCEPT !.key = TRUE] \in Page
            /\ [buyer EXCEPT !.key = TRUE].acks = buyer.acks
        BY <1>0 DEF Page
      <3>2. /\ buyer' \in Page /\ disruptions' \in 0 .. MaxDisruptions
            /\ opened' \in BOOLEAN /\ (opened => opened') /\ (buyer'.acks > 0 => opened')
        BY <2>4, <3>1, OpenReassembled
      <3> QED BY <2>1, <2>4, <3>2 DEF ReceiveKey, Inv, TypeOK, AckInv, server
    <2> QED BY <2>1, <2>2, <2>3, <2>4 DEF ReceiveKey
  <1>5. CASE StartReceiver
    <2>1. buyer' \in Page /\ buyer'.acks = buyer.acks
      BY <1>0, <1>5 DEF StartReceiver, Page
    <2> QED BY <1>5, <2>1 DEF StartReceiver, Inv, TypeOK, AckInv, server, history
  <1>6. CASE CompleteReceiver
    <2>1. mixnet' \subseteq Message
      BY <1>6 DEF CompleteReceiver, Inv, TypeOK, Message
    <2>2. CASE OpenReassembledCiphertext(buyer)
      <3>1. /\ buyer' \in Page /\ disruptions' \in 0 .. MaxDisruptions
            /\ opened' \in BOOLEAN /\ (opened => opened') /\ (buyer'.acks > 0 => opened')
        BY <1>0, <2>2, OpenReassembled
      <3> QED BY <1>6, <2>1, <2>2, <3>1
              DEF CompleteReceiver, Inv, TypeOK, AckInv, server
    <2>3. CASE buyer' = [buyer EXCEPT !.file = "reassembled"]
               /\ UNCHANGED <<opened, disruptions>>
      <3>1. buyer' \in Page /\ buyer'.acks = buyer.acks
        BY <1>0, <2>3 DEF Page
      <3> QED BY <1>6, <2>1, <2>3, <3>1
              DEF CompleteReceiver, Inv, TypeOK, AckInv, server
    <2> QED BY <1>6, <2>2, <2>3 DEF CompleteReceiver
  <1>7. CASE AcknowledgeDelivery
    <2>1. [kind |-> "delivered", address |-> None, life |-> buyer.life] \in Request
      BY SendType
    <2>2. buyer' \in Page
      BY <1>0, <1>7 DEF AcknowledgeDelivery, Page
    <2>3. opened /\ opened' = opened
      BY <1>7 DEF AcknowledgeDelivery, Inv, AckInv, history
    <2> QED BY <1>7, <2>1, <2>2, <2>3
            DEF AcknowledgeDelivery, Send, Inv, TypeOK, AckInv, server, history
  <1>8. CASE \E life \in replies : ReceiveReply(life)
    <2>1. PICK life \in replies : ReceiveReply(life)
      BY <1>8
    <2>2. buyer' \in Page /\ (buyer'.acks = buyer.acks \/ buyer'.acks = 0)
      <3>1. CASE buyer' = buyer
        BY <1>0, <3>1
      <3>2. CASE buyer' = [buyer EXCEPT !.received = TRUE, !.acks = 0]
        <4>1. 0 \in 0 .. MaxAckAttempts
          OBVIOUS
        <4> QED BY <1>0, <3>2, <4>1 DEF Page
      <3> QED BY <2>1, <3>1, <3>2 DEF ReceiveReply
    <2> QED BY <2>1, <2>2 DEF ReceiveReply, Inv, TypeOK, AckInv, server, history
  <1> QED BY <1>1, <1>2, <1>3, <1>4, <1>5, <1>6, <1>7, <1>8 DEF BuyerStep

\* The server's steps do: it is told of a delivery only by an acknowledgement.
LEMMA ServerInv == ASSUME Inv, ServerStep PROVE Inv'
  <1>1. CASE \E r \in requests : ApplyHeartbeat(r)
    <2>1. PICK r \in requests : ApplyHeartbeat(r)
      BY <1>1
    <2>2. r.address \in Addresses
      BY <2>1 DEF ApplyHeartbeat, Inv, TypeOK, Request
    <2> QED BY <2>1, <2>2 DEF ApplyHeartbeat, Inv, TypeOK, AckInv, history
  <1>2. CASE \E r \in requests : ApplyClaim(r)
    <2>1. PICK r \in requests : ApplyClaim(r)
      BY <1>2
    <2> QED BY <2>1 DEF ApplyClaim, Inv, TypeOK, AckInv, history
  <1>3. CASE \E r \in requests : ApplyAcknowledgement(r)
    <2>1. PICK r \in requests : ApplyAcknowledgement(r)
      BY <1>3
    <2>2. r.life \in Lives
      BY DEF Inv, TypeOK, Request
    <2>3. opened
      BY <2>1 DEF ApplyAcknowledgement, Inv, AckInv
    <2> QED BY <2>1, <2>2, <2>3 DEF ApplyAcknowledgement, Inv, TypeOK, AckInv
  <1> QED BY <1>1, <1>2, <1>3 DEF ServerStep

\* The seller's steps do not touch what the invariant is about.
LEMMA SellerInv == ASSUME Inv, SellerStep PROVE Inv'
  <1>0. /\ seller \in SellerPage /\ address \in Addresses /\ product \in BOOLEAN
        /\ released \in BOOLEAN
    BY DEF Inv, TypeOK
  <1>1. SUFFICES ASSUME NEW m \in SellerPage, seller' = m,
                        mixnet' \subseteq Message, released' \in BOOLEAN,
                        disruptions' \in 0 .. MaxDisruptions,
                        UNCHANGED <<product, delivered, address, claimed, buyer, requests,
                                    replies, opened, told>>
                 PROVE  Inv'
    <2>1. seller' \in SellerPage /\ mixnet' \subseteq Message /\ released' \in BOOLEAN
          /\ disruptions' \in 0 .. MaxDisruptions
          /\ UNCHANGED <<product, delivered, address, claimed, buyer, requests, replies,
                         opened, told>>
      <3>1. CASE FilesScreenRelease
        <4>1. [seller EXCEPT !.scanned = ~product] \in SellerPage
          BY <1>0 DEF SellerPage
        <4>2. /\ [seller EXCEPT !.scanned = ~product].keySent = seller.keySent
              /\ [seller EXCEPT !.scanned = ~product].stream = seller.stream
          BY <1>0 DEF SellerPage
        <4> QED BY <3>1, <4>1, <4>2, ChallengeType
                DEF FilesScreenRelease, Detectors, Inv, TypeOK, server, history
      <3>2. CASE AutoRelease
        <4>1. [seller EXCEPT !.auto = TRUE] \in SellerPage
          BY <1>0 DEF SellerPage
        <4>2. /\ [seller EXCEPT !.auto = TRUE].keySent = seller.keySent
              /\ [seller EXCEPT !.auto = TRUE].stream = seller.stream
          BY <1>0 DEF SellerPage
        <4> QED BY <3>2, <4>1, <4>2, ChallengeType
                DEF AutoRelease, Detectors, Inv, TypeOK, server, history
      <3>3. CASE ManualRelease
        BY <1>0, <3>3, ChallengeType
           DEF ManualRelease, Detectors, Inv, TypeOK, server, history
      <3>4. CASE \E d \in Detectors : PostRelease(d)
        <4>1. PICK d \in Detectors : PostRelease(d)
          BY <3>4
        <4>2. seller.release[d] \in Addresses
          BY <1>0, <4>1 DEF PostRelease, SellerPage
        <4>3. SendKeyAndFile(seller, seller.release[d]) \in SellerPage
          BY <1>0, <4>2, PageTypes
        <4>4. [SendKeyAndFile(seller, seller.release[d])
                 EXCEPT !.created = "ready", !.auto = FALSE] \in SellerPage
          BY <4>3 DEF SellerPage
        <4>5. seller' \in SellerPage
          BY <1>0, <4>1, <4>4, PageTypes DEF PostRelease
        <4>6. mixnet' \subseteq Message /\ released' \in BOOLEAN
          <5>1. [type |-> "key", to |-> seller.release[d]] \in Message
            BY <4>2 DEF Message
          <5>2. mixnet \subseteq Message
            BY DEF Inv, TypeOK
          <5>3. CASE released
            BY <1>0, <4>1, <5>2, <5>3 DEF PostRelease
          <5>4. CASE ~released
            BY <4>1, <5>1, <5>2, <5>4 DEF PostRelease
          <5> QED BY <5>3, <5>4
        <4> QED BY <4>1, <4>5, <4>6 DEF PostRelease, Inv, TypeOK, history
      <3>5. CASE ScanReleased
        BY <1>0, <3>5 DEF ScanReleased, SellerPage, Inv, TypeOK, server, history
      <3>6. CASE PollCreatedOrder
        BY <1>0, <3>6, PageTypes DEF PollCreatedOrder, Inv, TypeOK, server, history
      <3>7. CASE OnRevealBuyerCode
        <4>1. ApplyOrderState(seller) \in SellerPage
          BY <1>0, PageTypes
        <4>2. [ApplyOrderState(seller) EXCEPT !.code = TRUE] \in SellerPage
          BY <4>1 DEF SellerPage
        <4> QED BY <3>7, <4>2 DEF OnRevealBuyerCode, Inv, TypeOK, server, history
      <3>8. CASE BackToFiles
        BY <1>0, <3>8 DEF BackToFiles, SellerPage, Inv, TypeOK, server, history
      <3>9. CASE FilesScreenResend \/ ManageScreenResend
        <4>1. ResendKey
          BY <3>9 DEF FilesScreenResend, ManageScreenResend
        <4>2. seller' \in SellerPage
          BY <1>0, <4>1, PageTypes DEF ResendKey
        <4>3. mixnet' \subseteq Message
          BY <1>0, <4>1 DEF ResendKey, Inv, TypeOK, Message
        <4> QED BY <4>1, <4>2, <4>3 DEF ResendKey, Inv, TypeOK, server, history
      <3>10. CASE \E msg \in mixnet : StreamAcknowledged(msg)
        <4>1. PICK msg \in mixnet : StreamAcknowledged(msg)
          BY <3>10
        <4>2. DeleteSellerCiphertext \subseteq {"none", "stored"}
          BY DEF DeleteSellerCiphertext
        <4>3. seller' \in SellerPage
          BY <1>0, <4>1, <4>2 DEF StreamAcknowledged, SellerPage
        <4> QED BY <4>1, <4>3 DEF StreamAcknowledged, Inv, TypeOK, server, history
      <3>11. CASE StreamTimesOut
        <4>1. seller' \in SellerPage
          BY <1>0, <3>11 DEF StreamTimesOut, EndStream, SellerPage
        <4> QED BY <3>11, <4>1 DEF StreamTimesOut, Inv, TypeOK, server, history
      <3> QED BY <3>1, <3>2, <3>3, <3>4, <3>5, <3>6, <3>7, <3>8, <3>9, <3>10, <3>11
              DEF SellerStep
    <2> QED BY <2>1
  <1> QED BY <1>1 DEF Inv, TypeOK, AckInv

\* Disruptions take acknowledgements away and never make one.
LEMMA DisruptionInv == ASSUME Inv, Disruption PROVE Inv'
  <1> USE HandshakeAssumption
  <1>0. /\ buyer.life \in Lives /\ buyer.address \in Addresses
        /\ buyer.received \in BOOLEAN /\ buyer.claimed \in BOOLEAN
        /\ buyer.key \in BOOLEAN /\ buyer.acks \in 0 .. MaxAckAttempts
        /\ buyer.file \in {"none", "receiving", "reassembled", "open", "failed"}
        /\ buyer \in Page /\ seller \in SellerPage
    BY DEF Inv, TypeOK, Page, SellerPage
  <1>1. Disrupt => disruptions' \in 0 .. MaxDisruptions
    BY DEF Disrupt, Inv, TypeOK
  <1>2. CASE ReloadBuyer
    <2>1. buyer' \in Page /\ buyer'.acks = 0
      BY <1>0, <1>2 DEF ReloadBuyer, Page, Lives, Inv, TypeOK
    <2> QED BY <1>1, <1>2, <2>1 DEF ReloadBuyer, Inv, TypeOK, AckInv, server, history
  <1>3. CASE ChangeAddress
    <2>1. buyer' \in Page /\ buyer'.acks = buyer.acks
      BY <1>0, <1>3 DEF ChangeAddress, Page
    <2> QED BY <1>1, <1>3, <2>1
            DEF ChangeAddress, Inv, TypeOK, AckInv, server, history
  <1>4. CASE \E r \in requests : LoseRequest(r)
    BY <1>1, <1>4 DEF LoseRequest, Inv, TypeOK, AckInv, server, history
  <1>5. CASE \E life \in replies : LoseReply(life)
    BY <1>1, <1>5 DEF LoseReply, Inv, TypeOK, AckInv, server, history
  <1>6. CASE StreamFails \/ ReloadSeller \/ OnOpenManage
    <2>1. CASE StreamFails
      <3>1. seller' \in SellerPage
        BY <1>0, <2>1 DEF StreamFails, EndStream, SellerPage
      <3> QED BY <1>1, <2>1, <3>1 DEF StreamFails, Inv, TypeOK, AckInv, server, history
    <2>2. CASE ReloadSeller
      <3>1. GetSellerCiphertext \in {"none", "stored"}
        BY DEF GetSellerCiphertext
      <3>2. seller' \in SellerPage
        BY <2>2, <3>1, LoadedType DEF ReloadSeller, SellerPage
      <3> QED BY <1>1, <2>2, <3>2 DEF ReloadSeller, Inv, TypeOK, AckInv, server, history
    <2>3. CASE OnOpenManage
      <3>1. seller' \in SellerPage
        BY <1>0, <2>3 DEF OnOpenManage, SellerPage
      <3> QED BY <1>1, <2>3, <3>1 DEF OnOpenManage, Inv, TypeOK, AckInv, server, history
    <2> QED BY <1>6, <2>1, <2>2, <2>3
  <1>8. CASE \E d \in Detectors : ReleaseFails(d)
    <2>1. PICK d \in Detectors : ReleaseFails(d)
      BY <1>8
    <2>2. seller' \in SellerPage
      BY <1>0, <2>1, PageTypes DEF ReleaseFails
    <2> QED BY <1>1, <2>1, <2>2 DEF ReleaseFails, Inv, TypeOK, AckInv, history
  <1>7. CASE \E m \in mixnet : LoseMessage(m)
    BY <1>1, <1>7 DEF LoseMessage, Inv, TypeOK, AckInv, server, history
  <1> QED BY <1>2, <1>3, <1>4, <1>5, <1>6, <1>7, <1>8 DEF Disruption

\* The invariant holds always.
THEOREM InvAlways == Spec => []Inv
  <1>1. Inv /\ [Next]_vars => Inv'
    <2> SUFFICES ASSUME Inv, [Next]_vars PROVE Inv'
      OBVIOUS
    <2>1. CASE UNCHANGED vars
      BY <2>1 DEF vars, server, history, Inv, TypeOK, AckInv
    <2> QED BY <2>1, BuyerInv, ServerInv, SellerInv, DisruptionInv DEF Next
  <1> QED BY <1>1, InitInv, PTL DEF Spec

\* No key leaves the page that was just loaded, or the one that made the link.
LEMMA InitKey == Init => KeyFollowsRelease
  <1>1. Init => seller.keySent = FALSE /\ seller.stream = None /\ buyer.key = FALSE
    <2> SUFFICES ASSUME Init
                 PROVE seller.keySent = FALSE /\ seller.stream = None /\ buyer.key = FALSE
      OBVIOUS
    <2>1. LoadedPage.keySent = FALSE /\ LoadedPage.stream = None
      BY DEF LoadedPage
    <2>2. ASSUME NEW c
          PROVE /\ [LoadedPage EXCEPT !.ciphertext = c, !.created = "pending"].keySent = FALSE
                /\ [LoadedPage EXCEPT !.ciphertext = c, !.created = "pending"].stream = None
      BY DEF LoadedPage
    <2>3. seller.keySent = FALSE /\ seller.stream = None
      BY <2>1, <2>2 DEF Init, OnCreateLink
    <2> QED BY <2>3 DEF Init
  <1> QED BY <1>1 DEF Init, KeyFollowsRelease, KeyIsOut

\* No step lets the key out before the release is recorded.
LEMMA KeyStep ==
    ASSUME Inv, KeyFollowsRelease, [Next]_vars
    PROVE  KeyFollowsRelease'
  <1>0. seller \in SellerPage /\ released \in BOOLEAN /\ buyer \in Page
    BY DEF Inv, TypeOK
  <1>1. CASE BuyerStep
    <2>1. CASE Heartbeat \/ Claim \/ Poll \/ StartReceiver \/ AcknowledgeDelivery
      <3>1. buyer'.key = buyer.key /\ UNCHANGED <<seller, mixnet, released>>
        BY <1>0, <2>1 DEF Heartbeat, Claim, Poll, StartReceiver, AcknowledgeDelivery, Page,
                          server
      <3> QED BY <3>1 DEF KeyFollowsRelease, KeyIsOut
    <2>2. CASE \E m \in mixnet : ReceiveKey(m)
      BY <1>0, <2>2 DEF ReceiveKey, OpenReassembledCiphertext, Open, KeyFollowsRelease, KeyIsOut, Page, server
    <2>3. CASE CompleteReceiver
      <3>1. buyer'.key = buyer.key
        BY <1>0, <2>3 DEF CompleteReceiver, OpenReassembledCiphertext, Open, Page
      <3>2. \A m \in mixnet' : m.type = "key" => m \in mixnet
        BY <2>3 DEF CompleteReceiver
      <3> QED BY <2>3, <3>1, <3>2 DEF CompleteReceiver, KeyFollowsRelease, KeyIsOut, server
    <2>4. CASE \E life \in replies : ReceiveReply(life)
      <3>1. buyer'.key = buyer.key /\ UNCHANGED <<seller, mixnet, released>>
        BY <1>0, <2>4 DEF ReceiveReply, Page, server
      <3> QED BY <3>1 DEF KeyFollowsRelease, KeyIsOut
    <2> QED BY <1>1, <2>1, <2>2, <2>3, <2>4 DEF BuyerStep
  <1>2. CASE ServerStep
    BY <1>2 DEF ServerStep, ApplyHeartbeat, ApplyClaim, ApplyAcknowledgement,
                      KeyFollowsRelease, KeyIsOut
  <1>3. CASE FilesScreenRelease \/ AutoRelease \/ ManualRelease
    <2>1. seller'.keySent = seller.keySent /\ seller'.stream = seller.stream
      <3>1. CASE FilesScreenRelease
        <4>1. /\ [seller EXCEPT !.scanned = ~product] \in SellerPage
              /\ [seller EXCEPT !.scanned = ~product].keySent = seller.keySent
              /\ [seller EXCEPT !.scanned = ~product].stream = seller.stream
          BY <1>0 DEF SellerPage, Inv, TypeOK
        <4> QED BY <3>1, <4>1, ChallengeType DEF FilesScreenRelease, Detectors
      <3>2. CASE AutoRelease
        <4>1. /\ [seller EXCEPT !.auto = TRUE] \in SellerPage
              /\ [seller EXCEPT !.auto = TRUE].keySent = seller.keySent
              /\ [seller EXCEPT !.auto = TRUE].stream = seller.stream
          BY <1>0 DEF SellerPage
        <4> QED BY <3>2, <4>1, ChallengeType DEF AutoRelease, Detectors
      <3>3. CASE ManualRelease
        BY <1>0, <3>3, ChallengeType DEF ManualRelease, Detectors
      <3> QED BY <1>3, <3>1, <3>2, <3>3
    <2> QED BY <1>3, <2>1
            DEF FilesScreenRelease, AutoRelease, ManualRelease,
                KeyFollowsRelease, KeyIsOut, server
  <1>4. CASE \E d \in Detectors : PostRelease(d)
    <2>1. PICK d \in Detectors : PostRelease(d)
      BY <1>4
    <2>2. CASE released
      BY <1>0, <2>1, <2>2, PageTypes DEF PostRelease, KeyFollowsRelease, KeyIsOut
    <2>3. CASE ~released
      BY <2>1, <2>3 DEF PostRelease, KeyFollowsRelease, KeyIsOut
    <2> QED BY <2>2, <2>3
  <1>5. CASE ScanReleased \/ PollCreatedOrder \/ OnRevealBuyerCode \/ BackToFiles
    <2>1. /\ ApplyOrderState(seller) \in SellerPage
          /\ ApplyOrderState(seller).keySent = seller.keySent
          /\ ApplyOrderState(seller).stream = seller.stream
      BY <1>0, PageTypes
    <2>2. seller'.keySent = seller.keySent /\ seller'.stream = seller.stream
      BY <1>0, <1>5, <2>1
         DEF ScanReleased, PollCreatedOrder, OnRevealBuyerCode, BackToFiles, SellerPage
    <2> QED BY <1>5, <2>2 DEF ScanReleased, PollCreatedOrder, OnRevealBuyerCode,
                                    BackToFiles, KeyFollowsRelease, KeyIsOut, server
  <1>6. CASE FilesScreenResend \/ ManageScreenResend
    BY <1>6 DEF FilesScreenResend, ManageScreenResend, ResendKey, MustResend, server,
                KeyFollowsRelease, KeyIsOut
  <1>7. CASE (\E m \in mixnet : StreamAcknowledged(m)) \/ StreamTimesOut
    <2>1. seller'.keySent = seller.keySent
          /\ (seller'.stream = seller.stream \/ seller'.stream = None)
      BY <1>0, <1>7 DEF StreamAcknowledged, StreamTimesOut, EndStream, SellerPage
    <2> QED BY <1>7, <2>1 DEF StreamAcknowledged, StreamTimesOut,
                                    KeyFollowsRelease, KeyIsOut, server
  <1>8. CASE \E d \in Detectors : ReleaseFails(d)
    <2>1. PICK d \in Detectors : ReleaseFails(d)
      BY <1>8
    <2>2. EndRelease(d, seller).keySent = seller.keySent
          /\ EndRelease(d, seller).stream = seller.stream
      BY <1>0, PageTypes
    <2>3. /\ seller'.keySent = seller.keySent /\ seller'.stream = seller.stream
          /\ UNCHANGED <<buyer, mixnet>>
      BY <2>1, <2>2 DEF ReleaseFails
    <2>4. CASE released'
      BY <2>4 DEF KeyFollowsRelease, KeyIsOut
    <2>5. CASE released' = released
      BY <2>3, <2>5 DEF KeyFollowsRelease, KeyIsOut
    <2> QED BY <2>1, <2>4, <2>5 DEF ReleaseFails
  <1>9. CASE ReloadBuyer \/ ChangeAddress
    <2>1. (buyer'.key => buyer.key) /\ UNCHANGED <<seller, mixnet, released>>
      <3>1. CASE ReloadBuyer
        <4>1. buyer'.key = FALSE
          BY <3>1 DEF ReloadBuyer
        <4> QED BY <3>1, <4>1 DEF ReloadBuyer, server
      <3>2. CASE ChangeAddress
        <4>1. PICK a \in Addresses : buyer' = [buyer EXCEPT !.address = a]
          BY <3>2 DEF ChangeAddress
        <4>2. buyer'.key = buyer.key
          BY <1>0, <4>1 DEF Page
        <4> QED BY <3>2, <4>2 DEF ChangeAddress, server
      <3> QED BY <1>9, <3>1, <3>2
    <2> QED BY <2>1 DEF KeyFollowsRelease, KeyIsOut
  <1>11. CASE StreamFails \/ ReloadSeller \/ OnOpenManage
    <2>1. (seller'.keySent => seller.keySent) /\ seller'.stream \in {seller.stream, None}
      <3>1. CASE StreamFails
        BY <1>0, <3>1 DEF StreamFails, EndStream, SellerPage
      <3>2. CASE ReloadSeller
        <4>1. seller'.keySent = FALSE /\ seller'.stream = None
          BY <3>2 DEF ReloadSeller, LoadedPage
        <4> QED BY <4>1
      <3>3. CASE OnOpenManage
        BY <1>0, <3>3 DEF OnOpenManage, SellerPage
      <3> QED BY <1>11, <3>1, <3>2, <3>3
    <2>2. UNCHANGED <<buyer, mixnet, released>>
      BY <1>11 DEF StreamFails, ReloadSeller, OnOpenManage, server
    <2> QED BY <2>1, <2>2 DEF KeyFollowsRelease, KeyIsOut
  <1>12. CASE \/ \E r \in requests : LoseRequest(r)
              \/ \E life \in replies : LoseReply(life)
              \/ \E m \in mixnet : LoseMessage(m)
    BY <1>12 DEF LoseRequest, LoseReply, LoseMessage, KeyFollowsRelease, KeyIsOut, server
  <1>10. CASE UNCHANGED vars
    BY <1>10 DEF vars, server, KeyFollowsRelease, KeyIsOut
  <1> QED BY <1>1, <1>2, <1>3, <1>4, <1>5, <1>6, <1>7, <1>8, <1>9, <1>10,
             <1>11, <1>12
          DEF Next, SellerStep, Disruption

\* The key stays with the seller until its release is recorded.
THEOREM KeyIsReleased == Spec => []KeyFollowsRelease
  <1>1. Inv /\ KeyFollowsRelease /\ [Next]_vars => KeyFollowsRelease'
    BY KeyStep
  <1> QED BY <1>1, InitKey, InvAlways, PTL DEF Spec

\* The pages, the session and the messages keep their types.
THEOREM TypeCorrect == Spec => []TypeOK
  <1>1. Inv => TypeOK
    BY DEF Inv
  <1> QED BY <1>1, InvAlways, PTL

\* The session is "delivered" only after the buyer has opened the file.
THEOREM DeliveredIsTrue == Spec => []DeliveredMeansOpened
  <1>1. Inv => DeliveredMeansOpened
    BY DEF Inv, AckInv, DeliveredMeansOpened
  <1> QED BY <1>1, InvAlways, PTL

-----------------------------------------------------------------------------
(* The handshake implements the abstract delivery *)

\* A step that leaves the history and the session alone moves the key at most, and only a
\* released one.
LEMMA QuietStep ==
    ASSUME KeyFollowsRelease, KeyFollowsRelease',
           UNCHANGED <<released, opened, delivered, told>>
    PROVE  Delivery!MoveKey \/ UNCHANGED Delivery!vars
  <1>1. KeyIsOut \in BOOLEAN /\ KeyIsOut' \in BOOLEAN
    BY DEF KeyIsOut
  <1>2. CASE released
    BY <1>1, <1>2 DEF Delivery!MoveKey
  <1>3. CASE ~released
    <2>1. ~KeyIsOut /\ ~KeyIsOut'
      BY <1>3 DEF KeyFollowsRelease
    <2> QED BY <1>1, <2>1 DEF Delivery!vars
  <1> QED BY <1>2, <1>3

\* The release is recorded.
LEMMA ReleaseRefines ==
    ASSUME Inv, KeyFollowsRelease, KeyFollowsRelease',
           NEW d \in Detectors, PostRelease(d) \/ ReleaseFails(d)
    PROVE  Delivery!Release \/ Delivery!MoveKey \/ UNCHANGED Delivery!vars
  <1>1. UNCHANGED <<opened, delivered, told>> /\ released' \in {released, TRUE}
    BY DEF PostRelease, ReleaseFails, history
  <1>2. released \in BOOLEAN /\ KeyIsOut' \in BOOLEAN
    BY DEF Inv, TypeOK, KeyIsOut
  <1>3. CASE released' = released
    BY <1>1, <1>3, QuietStep
  <1>4. CASE ~released /\ released' = TRUE
    BY <1>1, <1>2, <1>4 DEF Delivery!Release
  <1> QED BY <1>1, <1>2, <1>3, <1>4

\* A file is opened by a page that gets the key, or has it.
LEMMA OpenRefines ==
    ASSUME Inv, KeyFollowsRelease, KeyFollowsRelease',
           CompleteReceiver \/ \E m \in mixnet : ReceiveKey(m)
    PROVE  Delivery!Open \/ Delivery!MoveKey \/ UNCHANGED Delivery!vars
  <1>1. buyer \in Page
    BY DEF Inv, TypeOK
  <1>2. UNCHANGED <<released, delivered, told>>
    BY DEF CompleteReceiver, ReceiveKey, server
  <1>3. CASE UNCHANGED opened
    BY <1>2, <1>3, QuietStep
  <1>4. CASE CompleteReceiver /\ buyer.key /\ buyer' = Open(buyer) /\ opened' = TRUE
    <2>1. buyer'.key = TRUE
      BY <1>1, <1>4 DEF CompleteReceiver, OpenReassembledCiphertext, Open, Page
    <2>2. KeyIsOut /\ KeyIsOut'
      BY <1>4, <2>1 DEF KeyIsOut
    <2>3. KeyIsOut' = KeyIsOut
      BY <2>2 DEF KeyIsOut
    <2> QED BY <1>2, <1>4, <2>2, <2>3 DEF Delivery!Open
  <1>5. CASE /\ opened' = TRUE
             /\ \E m \in mixnet : ReceiveKey(m) /\ buyer' = Open([buyer EXCEPT !.key = TRUE])
    <2>1. buyer'.key = TRUE
      BY <1>1, <1>5 DEF Open, Page
    <2>2. KeyIsOut /\ KeyIsOut'
      BY <1>5, <2>1 DEF KeyIsOut, ReceiveKey
    <2>3. KeyIsOut' = KeyIsOut
      BY <2>2 DEF KeyIsOut
    <2> QED BY <1>2, <1>5, <2>2, <2>3 DEF Delivery!Open
  <1> QED BY <1>3, <1>4, <1>5 DEF CompleteReceiver, ReceiveKey, OpenReassembledCiphertext

\* The server confirms an acknowledgement, which means an opened file, or rebuilds the
\* session.
LEMMA ServerRefines ==
    ASSUME Inv, ServerStep
    PROVE  Delivery!Confirm \/ Delivery!TakeBack
  <1>1. UNCHANGED <<released, opened, buyer, seller, mixnet>>
    BY DEF ServerStep, ApplyHeartbeat, ApplyClaim, ApplyAcknowledgement, history
  <1>2. KeyIsOut' = KeyIsOut
    BY <1>1 DEF KeyIsOut
  <1>3. CASE \E r \in requests : ApplyHeartbeat(r) \/ ApplyClaim(r)
    BY <1>1, <1>2, <1>3 DEF ApplyHeartbeat, ApplyClaim, history, Delivery!TakeBack
  <1>4. CASE \E r \in requests : ApplyAcknowledgement(r)
    <2>1. opened /\ delivered' = TRUE /\ told' = TRUE
      BY <1>4 DEF ApplyAcknowledgement, Inv, AckInv
    <2> QED BY <1>1, <1>2, <2>1 DEF Delivery!Confirm
  <1> QED BY <1>3, <1>4 DEF ServerStep

\* Release, key, open file and confirmation come in this order, for any number of
\* addresses, disruptions and reloads (onReleaseSellerKey, acknowledgeDelivery,
\* markTransferDelivered).
THEOREM HandshakeImplementsDelivery == Spec => ImplementsDelivery
  <1>1. Init => Delivery!Init
    <2>1. Init => ~KeyIsOut
      BY InitKey DEF Init, KeyFollowsRelease
    <2> QED BY <2>1 DEF Init, Delivery!Init
  <1>2. ASSUME Inv, KeyFollowsRelease, KeyFollowsRelease', [Next]_vars
        PROVE  [Delivery!Next]_(Delivery!vars)
    <2>1. CASE ServerStep
      BY <1>2, <2>1, ServerRefines DEF Delivery!Next
    <2>2. CASE CompleteReceiver \/ \E m \in mixnet : ReceiveKey(m)
      BY <1>2, <2>2, OpenRefines DEF Delivery!Next
    <2>3. CASE \E d \in Detectors : PostRelease(d) \/ ReleaseFails(d)
      BY <1>2, <2>3, ReleaseRefines DEF Delivery!Next
    <2>4. CASE UNCHANGED <<released, opened, delivered, told>>
      BY <1>2, <2>4, QuietStep DEF Delivery!Next
    <2>5. \/ ServerStep
          \/ CompleteReceiver \/ \E m \in mixnet : ReceiveKey(m)
          \/ \E d \in Detectors : PostRelease(d) \/ ReleaseFails(d)
          \/ UNCHANGED <<released, opened, delivered, told>>
      <3>1. CASE BuyerStep
        BY <3>1 DEF BuyerStep, Heartbeat, Claim, Poll, StartReceiver, AcknowledgeDelivery,
                    ReceiveReply, server, history
      <3>2. CASE SellerStep
        BY <3>2 DEF SellerStep, FilesScreenRelease, AutoRelease, ManualRelease, ScanReleased,
                    PollCreatedOrder, OnRevealBuyerCode, BackToFiles, FilesScreenResend,
                    ManageScreenResend, ResendKey, StreamAcknowledged, StreamTimesOut,
                    server, history
      <3>3. CASE Disruption
        BY <3>3 DEF Disruption, ReloadBuyer, ChangeAddress, LoseRequest, LoseReply,
                    StreamFails, ReloadSeller, OnOpenManage, LoseMessage, server, history
      <3>4. CASE UNCHANGED vars
        BY <3>4 DEF vars, server, history
      <3> QED BY <1>2, <3>1, <3>2, <3>3, <3>4 DEF Next
    <2> QED BY <2>1, <2>2, <2>3, <2>4, <2>5
  <1> QED BY <1>1, <1>2, InvAlways, KeyIsReleased, PTL
         DEF Spec, ImplementsDelivery, Delivery!Spec

-----------------------------------------------------------------------------
(* The transfer of the file *)

\* The stations of an acknowledgement on its way to the seller.
TransferEvidence ==
    \/ Complete(receiver)
    \/ receiver.hashing > 0
    \/ leftHashing
    \/ Ack \in net
    \/ acked
    \/ received

TransferInv == TransferTypeOK /\ (TransferEvidence => assembled)

-----------------------------------------------------------------------------
\* Packets are told apart by their type, and only Ack is an acknowledgement.
LEMMA TransferPacketTypes ==
    /\ \A s \in Seqs : /\ Chunk(s) \in Packet
                                /\ Retransmit(s) \in Packet
    /\ {Offer, Done, Ack} \subseteq Packet
    /\ \A s : Chunk(s) # Ack /\ Retransmit(s) # Ack
    /\ Offer # Ack /\ Done # Ack
  BY DEF Packet, Chunk, Retransmit, Offer,
         Done, Ack

\* The sender sends packets, none of them an acknowledgement.
LEMMA TransferAnswerType ==
    ASSUME NEW s
    PROVE  /\ Answer(s) \subseteq Packet
           /\ Ack \notin Answer(s)
  BY TransferPacketTypes DEF Answer, WindowFrom

\* The receiver's request is a packet and no acknowledgement.
LEMMA TransferRequestType ==
    ASSUME NEW r
    PROVE  /\ RequestFirstGap(r) \subseteq Packet
           /\ Ack \notin RequestFirstGap(r)
  BY TransferPacketTypes DEF RequestFirstGap, FirstGap, Missing

\* A packet that arrives may be sent on by the exchange, and nothing else appears.
LEMMA TransferExchangeType ==
    ASSUME TransferTypeOK, NEW p,
           NEW P, P \subseteq Packet, Exchange(p, P)
    PROVE  /\ net' \subseteq Packet /\ net' \subseteq net \cup P
           /\ faults' \in 0 .. MaxFaults
  BY TransferAssumption DEF TransferTypeOK, Exchange, Fault

\* Starting hash computations keeps a receiver a receiver.
LEMMA TransferFinalizeType ==
    ASSUME NEW r \in Receiver
    PROVE  /\ Finalize(r) \in Receiver
           /\ Finalize(r).chunks = r.chunks
           /\ Finalize(r).hashing > 0 => r.hashing > 0 \/ Complete(r)
  BY TransferAssumption DEF Finalize, Receiver, Complete

\* A new receiver has nothing, as every file has a chunk.
LEMMA TransferNoReceiverType ==
    /\ NoReceiver \in Receiver
    /\ ~Complete(NoReceiver)
    /\ ~(NoReceiver.hashing > 0)
  BY TransferAssumption
     DEF NoReceiver, Receiver, Complete,
         Missing, Seqs

-----------------------------------------------------------------------------
\* Nothing is assembled, and nothing acknowledged, in the beginning.
LEMMA TransferInitInv == TransferInit => TransferInv
<1> SUFFICES ASSUME TransferInit PROVE TransferInv
  OBVIOUS
<1>1. TransferTypeOK
  <2>1. sender \in Sender
    BY TransferAssumption DEF TransferInit, Sender
  <2>2. faults \in 0 .. MaxFaults
    BY TransferAssumption DEF TransferInit
  <2> QED BY <2>1, <2>2, TransferNoReceiverType DEF TransferInit, TransferTypeOK
<1>2. ~TransferEvidence
  BY TransferNoReceiverType DEF TransferInit, TransferEvidence
<1> QED BY <1>1, <1>2 DEF TransferInv

\* The sender's steps add no acknowledgement to the mixnet, and learn of one only
\* from there.
LEMMA TransferSenderStepInv ==
    ASSUME TransferInv, SenderStep
    PROVE  TransferInv'
<1> USE TransferAssumption, TransferPacketTypes
<1>1. CASE StartStream
  BY <1>1
     DEF StartStream, TransferInv, TransferTypeOK, Sender,
         TransferEvidence, receiverVars, Complete, Missing
<1>2. CASE SendNext
  <2>1. sender.next < Total => sender.next \in Seqs
    BY <1>2
       DEF SendNext, TransferInv, TransferTypeOK, Sender,
           Seqs
  <2>2. sender' \in Sender
    BY <1>2 DEF SendNext, TransferInv, TransferTypeOK, Sender
  <2> DEFINE p == IF sender.next < Total THEN Chunk(sender.next) ELSE Done
  <2>3. p \in Packet /\ p # Ack
    BY <2>1
  <2>4. net' = net \cup {p}
    BY <1>2 DEF SendNext
  <2> HIDE DEF p
  <2>5. net' \subseteq Packet /\ (Ack \in net' => Ack \in net)
    BY <2>3, <2>4 DEF TransferInv, TransferTypeOK
  <2>6. UNCHANGED <<acked, receiver, leftHashing, assembled, received, faults>>
    BY <1>2 DEF SendNext, receiverVars
  <2>7. TransferTypeOK'
    BY <2>2, <2>5, <2>6 DEF TransferInv, TransferTypeOK
  <2>8. TransferEvidence' => TransferEvidence
    BY <2>5, <2>6 DEF TransferEvidence, Complete, Missing
  <2> QED BY <2>6, <2>7, <2>8 DEF TransferInv
<1>3. CASE ServeRetransmit
  BY <1>3, TransferAnswerType
        DEF ServeRetransmit, TransferInv, TransferTypeOK, Sender,
            TransferEvidence, receiverVars, Complete, Missing
<1>4. CASE HearAck
  <2>1. net' \subseteq net /\ faults' \in 0 .. MaxFaults
    BY <1>4, TransferExchangeType DEF HearAck, TransferInv
  <2>2. Ack \in net
    BY <1>4 DEF HearAck, Exchange
  <2> QED BY <1>4, <2>1, <2>2
       DEF HearAck, TransferInv, TransferTypeOK, Sender,
           TransferEvidence, receiverVars, Complete, Missing
<1>5. CASE TimeOut
  BY <1>5, TransferAnswerType
     DEF TimeOut, TransferInv, TransferTypeOK, Sender,
         TransferEvidence, receiverVars, Complete, Missing
<1>6. ASSUME NEW s \in Seqs, HearRetransmit(s) PROVE TransferInv'
  <2>1. net' \subseteq net /\ faults' \in 0 .. MaxFaults
    BY <1>6, TransferExchangeType DEF HearRetransmit, TransferInv
  <2> QED BY <1>6, <2>1
       DEF HearRetransmit, TransferInv, TransferTypeOK, Sender,
           TransferEvidence, receiverVars, Complete, Missing
<1> QED BY <1>1, <1>2, <1>3, <1>4, <1>5, <1>6 DEF SenderStep

\* The receiver hashes only what is complete, and acknowledges only what it hashed.
LEMMA TransferReceiverStepInv ==
    ASSUME TransferInv, ReceiverStep
    PROVE  TransferInv'
<1> USE TransferAssumption, TransferPacketTypes
<1>1. CASE HearOffer
  <2>1. net' \subseteq net /\ net' \subseteq Packet /\ faults' \in 0 .. MaxFaults
    BY <1>1, TransferExchangeType DEF HearOffer, TransferInv
  <2> QED BY <1>1, <2>1
       DEF HearOffer, TransferInv, TransferTypeOK, Receiver,
           TransferEvidence, Complete, Missing
<1>2. CASE HearDone
  <2> DEFINE r == [receiver EXCEPT !.status = "receiving", !.address = TRUE]
  <2>1. /\ net' \subseteq net \cup RequestFirstGap(r)
        /\ net' \subseteq Packet /\ faults' \in 0 .. MaxFaults
    BY <1>2, TransferExchangeType, TransferRequestType DEF HearDone, TransferInv
  <2>2. r \in Receiver /\ r.chunks = receiver.chunks /\ r.hashing = receiver.hashing
    BY DEF TransferInv, TransferTypeOK, Receiver
  <2>3. receiver' = Finalize(r)
    BY <1>2 DEF HearDone
  <2>4. Ack \in net' => Ack \in net
    BY <2>1, TransferRequestType
  <2> HIDE DEF r
  <2> QED BY <1>2, <2>1, <2>2, <2>3, <2>4, TransferFinalizeType
          DEF HearDone, TransferInv, TransferTypeOK, TransferEvidence,
              Complete, Missing
<1>3. CASE GapTimeout
  BY <1>3, TransferRequestType
     DEF GapTimeout, TransferInv, TransferTypeOK, TransferEvidence,
         receiverVars, Complete, Missing
<1>4. CASE FinishHash
  <2>0. assembled
    BY <1>4 DEF FinishHash, TransferInv, TransferEvidence
  <2>1. receiver' \in Receiver
    <3>1. receiver \in Receiver /\ receiver.hashing \in 0 .. MaxHashes
      BY DEF TransferInv, TransferTypeOK, Receiver
    <3>2. receiver.hashing - 1 \in 0 .. MaxHashes
      <4>1. MaxHashes \in Nat
        BY DEF TransferInv
      <4> QED BY <1>4, <3>1, <4>1 DEF FinishHash
    <3>3. receiver' = [receiver EXCEPT !.hashing = receiver.hashing - 1, !.status = "done"]
      BY <1>4 DEF FinishHash
    <3> QED BY <3>1, <3>2, <3>3 DEF Receiver
  <2>2. net' \subseteq Packet
    <3>1. Acknowledge(receiver) \subseteq Packet
      BY DEF Acknowledge
    <3> QED BY <1>4, <3>1 DEF FinishHash, TransferInv, TransferTypeOK
  <2>3. /\ UNCHANGED <<sender, acked, leftHashing, assembled, faults>>
        /\ received' = TRUE
    BY <1>4 DEF FinishHash
  <2>4. TransferTypeOK'
    BY <2>1, <2>2, <2>3 DEF TransferInv, TransferTypeOK
  <2> QED BY <2>0, <2>3, <2>4 DEF TransferInv
<1>5. CASE FinishLeftHash
  BY <1>5
     DEF FinishLeftHash, TransferInv, TransferTypeOK, TransferEvidence,
         Complete, Missing
<1>6. ASSUME NEW s \in Seqs, HearChunk(s) PROVE TransferInv'
  <2> DEFINE r == [receiver EXCEPT !.status = "receiving", !.chunks = @ \cup {s}]
  <2>1. net' \subseteq net /\ net' \subseteq Packet /\ faults' \in 0 .. MaxFaults
    BY <1>6, TransferExchangeType DEF HearChunk, TransferInv
  <2>2. r \in Receiver /\ r.hashing = receiver.hashing
    BY DEF TransferInv, TransferTypeOK, Receiver
  <2>3. receiver' = Finalize(r) /\ assembled' = (assembled \/ Complete(r))
    BY <1>6 DEF HearChunk
  <2> HIDE DEF r
  <2> QED BY <1>6, <2>1, <2>2, <2>3, TransferFinalizeType
          DEF HearChunk, TransferInv, TransferTypeOK, TransferEvidence,
              Complete, Missing
<1> QED BY <1>1, <1>2, <1>3, <1>4, <1>5, <1>6 DEF ReceiverStep

\* An abort turns one kind of evidence into another, and losses only remove some.
LEMMA TransferDisruptionInv ==
    ASSUME TransferInv, FaultStep
    PROVE  TransferInv'
<1> USE TransferAssumption, TransferPacketTypes
<1> DEFINE stopped == [sender EXCEPT !.pending = NoRequest]
           ended == [sender EXCEPT !.live = FALSE, !.pending = NoRequest]
<1>a. stopped \in Sender /\ ended \in Sender
  BY DEF TransferInv, TransferTypeOK, Sender
<1>b. Fault => faults' \in 0 .. MaxFaults
  BY DEF Fault, TransferInv, TransferTypeOK
<1>1. CASE FailRetransmit
  <2>1. /\ WindowFrom(sender.pending) \subseteq Packet
        /\ Ack \notin WindowFrom(sender.pending)
    BY DEF WindowFrom
  <2>2. net' \subseteq net \cup WindowFrom(sender.pending)
    BY <1>1 DEF FailRetransmit
  <2> QED BY <1>1, <1>a, <1>b, <2>1, <2>2
          DEF FailRetransmit, TransferInv, TransferTypeOK, TransferEvidence,
              receiverVars, Complete, Missing
<1>2. CASE FailStream
  BY <1>2, <1>a, <1>b, TransferAnswerType
        DEF FailStream, TransferInv, TransferTypeOK, TransferEvidence,
            receiverVars, Complete, Missing
<1>3. CASE ReloadSender
  BY <1>3, <1>a, <1>b
     DEF ReloadSender, TransferInv, TransferTypeOK, TransferEvidence,
         receiverVars, Complete, Missing
<1>4. CASE Abort
  BY <1>4, <1>b, TransferNoReceiverType
     DEF Abort, TransferInv, TransferTypeOK, TransferEvidence
<1>5. CASE ReloadReceiver
  BY <1>5, <1>b, TransferNoReceiverType
     DEF ReloadReceiver, TransferInv, TransferTypeOK, TransferEvidence
<1>6. ASSUME NEW p \in net, LosePacket(p) PROVE TransferInv'
  BY <1>6, <1>b
     DEF LosePacket, TransferInv, TransferTypeOK, TransferEvidence,
         receiverVars, Complete, Missing
<1> QED BY <1>1, <1>2, <1>3, <1>4, <1>5, <1>6 DEF FaultStep

\* A stuttering step keeps it.
LEMMA TransferStutterInv == ASSUME TransferInv, UNCHANGED transferVars PROVE TransferInv'
  BY DEF TransferInv, TransferTypeOK, TransferEvidence, transferVars, receiverVars,
         Complete, Missing

\* The invariant holds in every reachable state.
THEOREM TransferInvAlways == TransferSpec => []TransferInv
<1>1. TransferInv /\ [TransferNext]_transferVars => TransferInv'
  BY TransferSenderStepInv, TransferReceiverStepInv, TransferDisruptionInv, TransferStutterInv
     DEF TransferNext
<1> QED BY <1>1, TransferInitInv, PTL DEF TransferSpec

\* The variables of the transfer keep their types.
THEOREM TransferTypeCorrect == TransferSpec => []TransferTypeOK
<1>1. TransferInv => TransferTypeOK
  BY DEF TransferInv
<1> QED BY <1>1, TransferInvAlways, PTL

\* The sender is acknowledged only after some receiver of the buyer's page has had
\* every chunk, for any file, any window and any number of disruptions.
THEOREM AcknowledgementIsEarned == TransferSpec => []AckMeansAssembled
<1>1. TransferInv => AckMeansAssembled
  BY DEF TransferInv, TransferEvidence, AckMeansAssembled
<1> QED BY <1>1, TransferInvAlways, PTL
=============================================================================
