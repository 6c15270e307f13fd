-------------------------- MODULE DeliveryHandshake --------------------------
(***************************************************************************)
(* How the key and the file of a paid order get from the seller's page to  *)
(* the buyer's, and how the seller learns of it, when both are delivered   *)
(* over Nym (app/components/paid-private-file/paid-private-file-panel.tsx).*)
(*                                                                         *)
(* The seller's page releases the key when one of its detectors sees that  *)
(* the order is paid, then re-sends the key and streams the file to the    *)
(* address of the Nym session until the session is                         *)
(* "delivered".  The buyer's page keeps the address of the session current *)
(* (heartbeat), claims, opens the file when it has both the file and the   *)
(* key, and acknowledges.  The server applies each request under the order *)
(* lock (registerNymSessionForOrder, claimTransfer, markTransferDelivered: *)
(* their part on the session is repeated here, see TransferOrder).         *)
(*                                                                         *)
(* A file transfer is one stream that starts, completes or times out (its  *)
(* packets: NymFileTransfer).  Messages may be lost, late and out of       *)
(* order, requests and replies may be lost, either page may be reloaded,   *)
(* the buyer's address may change.  All these disruptions are counted.     *)
(* HTTPS fallback is off, as in the source.  The seller's page works on    *)
(* this one order, and it holds the release draft.  Its screen "manage"    *)
(* stands for every screen but the files: they have the same loops         *)
(* stopped, and the release panel.                                         *)
(***************************************************************************)
EXTENDS Naturals

CONSTANTS
    Addresses,       \* Nym addresses the buyer's client may get
    None,            \* no address
    MaxAckAttempts,  \* attempts of acknowledgeDelivery (8 in the source)
    MaxDisruptions,  \* bound: losses, failures, reloads and address changes
    MaxReloads       \* bound: reloads of the buyer's page

ASSUME HandshakeAssumption ==
    /\ None \notin Addresses
    /\ MaxAckAttempts \in Nat /\ MaxDisruptions \in Nat /\ MaxReloads \in Nat

Lives == 0 .. MaxReloads

\* Requests of the buyer's page.
Request == [kind : {"nym-session"}, address : Addresses, life : Lives]
      \cup [kind : {"claim", "delivered"}, address : {None}, life : Lives]
Message == [type : {"key"}, to : Addresses] \cup [type : {"ack"}, to : {None}]

Page == [life : Lives, address : Addresses, received : BOOLEAN,
         claimed : BOOLEAN, key : BOOLEAN,
         file : {"none", "receiving", "reassembled", "open", "failed"},
         acks : 0 .. MaxAckAttempts]

\* What may start onReleaseSellerKey: the files screen (its scan of single-use orders,
\* or the queue of purchases), the effect on createdOrder, the button of the manage screen.
Detectors == {"files", "auto", "manual"}

SellerPage ==
    [ciphertext : {"none", "memory", "stored"},     \* "stored": also in IndexedDB
     keySent : BOOLEAN, stream : Addresses \cup {None},
     screen : {"files", "manage"},
     created : {"none", "pending", "ready"},        \* createdOrder, its release status
     scanned : BOOLEAN, auto : BOOLEAN,             \* dashboardReleasedRef, autoReleaseRef
     busy : BOOLEAN, code : BOOLEAN,                \* busyAction; sellerBuyerCode shown
     release : [Detectors -> Addresses \cup {None}]] \* address that a release has read

VARIABLES
    product,      \* the order is a purchase of a product, not single-use
    delivered,    \* server: nymSession.status = "delivered"
    address,      \* server: nymSession.buyerNymAddress
    claimed,      \* server: order.status = "claimed"
    released,     \* server: order.release.keyEnvelope is set
    buyer,        \* the buyer's page, since it was last loaded
    seller,       \* the seller's page
    requests,     \* requests on their way to the server
    replies,      \* replies to acknowledgements on their way back, by the life of
                  \* the page that asked; the page does nothing with the others
                  \* that the next poll does not do
    mixnet,       \* messages in the mixnet; copies of one message are one
    opened,       \* history: some page of the buyer has opened the file
    told,         \* history: the server has confirmed an acknowledgement
    disruptions

server == <<delivered, address, claimed, released>>
history == <<opened, told>>
vars == <<product, server, buyer, seller, requests, replies, mixnet, history,
          disruptions>>

TypeOK ==
    /\ product \in BOOLEAN
    /\ delivered \in BOOLEAN /\ address \in Addresses /\ claimed \in BOOLEAN
    /\ released \in BOOLEAN
    /\ buyer \in Page
    /\ seller \in SellerPage
    /\ requests \subseteq Request
    /\ replies \subseteq Lives
    /\ mixnet \subseteq Message
    /\ opened \in BOOLEAN /\ told \in BOOLEAN
    /\ disruptions \in 0 .. MaxDisruptions

\* putSellerCiphertext: best effort.
PutSellerCiphertext == {"memory", "stored"}

\* The page as it is loaded: the ciphertext is in IndexedDB.
LoadedPage ==
    [ciphertext |-> "stored", keySent |-> FALSE, stream |-> None, screen |-> "files",
     created |-> "none", scanned |-> FALSE, auto |-> FALSE, busy |-> FALSE, code |-> FALSE,
     release |-> [d \in Detectors |-> None]]

\* The page that has created the link and stayed open until it was paid.
OnCreateLink ==
    {[LoadedPage EXCEPT !.ciphertext = c, !.created = "pending"] : c \in PutSellerCiphertext}

Init ==
    /\ product \in BOOLEAN
    /\ delivered = FALSE /\ claimed = FALSE /\ released = FALSE
    /\ address \in Addresses
    /\ buyer = [life |-> 0, address |-> address, received |-> FALSE,
                claimed |-> FALSE, key |-> FALSE, file |-> "none", acks |-> 0]
    /\ seller \in {LoadedPage} \cup (IF product THEN {} ELSE OnCreateLink)
    /\ requests = {} /\ replies = {} /\ mixnet = {}
    /\ opened = FALSE /\ told = FALSE
    /\ disruptions = 0

Disrupt == disruptions < MaxDisruptions /\ disruptions' = disruptions + 1

-----------------------------------------------------------------------------
(* The buyer's page. *)

\* buyerReceivedRef: the page has opened the file, or has once seen that it was
\* acknowledged, which only loading the page again undoes.
HasFile == buyer.file = "open" \/ buyer.received

\* A request of this kind that the page has sent is still on its way.
InFlight(kind) == \E r \in requests : r.kind = kind /\ r.life = buyer.life

Send(kind, to) ==
    requests' = requests \cup {[kind |-> kind, address |-> to, life |-> buyer.life]}

\* The heartbeat effect re-registers the address the client listens on.
Heartbeat ==
    /\ ~HasFile
    /\ ~InFlight("nym-session")
    /\ Send("nym-session", buyer.address)
    /\ UNCHANGED <<product, server, buyer, seller, replies, mixnet, history,
                   disruptions>>

\* The auto-claim effect (onUnlockFile) runs once, unless the order is claimed, when the
\* poll has shown that the key is released.
Claim ==
    /\ released
    /\ buyer.file # "open"
    /\ ~buyer.claimed
    /\ buyer' = [buyer EXCEPT !.claimed = TRUE]
    /\ Send("claim", None)
    /\ UNCHANGED <<product, server, seller, replies, mixnet, history, disruptions>>

\* The poll effect, as long as the file is not open.
Poll ==
    /\ buyer.file # "open"
    /\ buyer' = [buyer EXCEPT !.received = @ \/ delivered,
                              !.claimed = @ \/ claimed]
    /\ UNCHANGED <<product, server, seller, requests, replies, mixnet, history,
                   disruptions>>

\* Mutant of Open: one attempt too many.
MutOpen(page) == [page EXCEPT !.file = "open", !.acks = MaxAckAttempts + 1]

\* The file is opened, and acknowledgeDelivery begins.
Open(page) == [page EXCEPT !.file = "open", !.acks = MaxAckAttempts]

\* openReassembledCiphertext, with the key in hand.  If the file cannot be decrypted the
\* page waits on, and takes no other stream of this order (nymFileHandledRef).
OpenReassembledCiphertext(page) ==
    \/ buyer' = Open(page) /\ opened' = TRUE /\ UNCHANGED disruptions
    \/ Disrupt /\ buyer' = [page EXCEPT !.file = "failed"] /\ UNCHANGED opened

\* handleNymTextMessage: the key is kept, and a file that waited for it is opened.
\* A message to an address the client no longer has goes nowhere.
ReceiveKey(m) ==
    /\ m \in mixnet /\ m.type = "key"
    /\ mixnet' = mixnet \ {m}
    /\ IF m.to = buyer.address /\ ~HasFile
       THEN LET page == [buyer EXCEPT !.key = TRUE] IN
            IF buyer.file = "reassembled"
            THEN OpenReassembledCiphertext(page)
            ELSE buyer' = page /\ UNCHANGED <<opened, disruptions>>
       ELSE UNCHANGED <<buyer, opened, disruptions>>
    /\ UNCHANGED <<product, server, seller, requests, replies, told>>

\* routeBuyerFilePacket: the first packet of a stream starts a receiver.
StartReceiver ==
    /\ seller.stream = buyer.address
    /\ buyer.file = "none" /\ ~HasFile
    /\ buyer' = [buyer EXCEPT !.file = "receiving"]
    /\ UNCHANGED <<product, server, seller, requests, replies, mixnet, history,
                   disruptions>>

\* The receiver has all of the file, answers the sender, and the file is opened
\* (openReassembledCiphertext) or kept until the key comes.
CompleteReceiver ==
    /\ seller.stream = buyer.address
    /\ buyer.file = "receiving"
    /\ mixnet' = mixnet \cup {[type |-> "ack", to |-> None]}
    /\ IF buyer.key THEN OpenReassembledCiphertext(buyer)
       ELSE /\ buyer' = [buyer EXCEPT !.file = "reassembled"]
            /\ UNCHANGED <<opened, disruptions>>
    /\ UNCHANGED <<product, server, seller, requests, replies, told>>

\* Mutant of AcknowledgeDelivery: a key in hand is acknowledged, not an open file.
MutAcknowledgeDelivery ==
    /\ buyer.key
    /\ ~InFlight("delivered")
    /\ Send("delivered", None)
    /\ UNCHANGED <<product, server, buyer, seller, replies, mixnet, history,
                   disruptions>>

\* acknowledgeDelivery: one attempt after another.
AcknowledgeDelivery ==
    /\ buyer.acks > 0
    /\ ~InFlight("delivered") /\ buyer.life \notin replies
    /\ Send("delivered", None)
    /\ buyer' = [buyer EXCEPT !.acks = @ - 1]
    /\ UNCHANGED <<product, server, seller, replies, mixnet, history, disruptions>>

\* The server's "delivered" ends the attempts.  A reply to a page that was
\* reloaded goes nowhere.
ReceiveReply(life) ==
    /\ life \in replies
    /\ replies' = replies \ {life}
    /\ buyer' = IF life = buyer.life
                THEN [buyer EXCEPT !.received = TRUE, !.acks = 0]
                ELSE buyer
    /\ UNCHANGED <<product, server, seller, requests, mixnet, history, disruptions>>

\* loadOrder: the page starts again from what the server says.  What it sent is
\* still on its way.
ReloadBuyer ==
    /\ Disrupt
    /\ buyer.life < MaxReloads
    /\ buyer' = [life |-> buyer.life + 1, address |-> buyer.address,
                 received |-> delivered, claimed |-> claimed,
                 key |-> FALSE, file |-> "none", acks |-> 0]
    /\ UNCHANGED <<product, server, seller, requests, replies, mixnet, history>>

\* The SDK changes the client's gateway, and with it the address.
ChangeAddress ==
    /\ Disrupt
    /\ \E a \in Addresses \ {buyer.address} :
         buyer' = [buyer EXCEPT !.address = a]
    /\ UNCHANGED <<product, server, seller, requests, replies, mixnet, history>>

-----------------------------------------------------------------------------
(* The server. *)

\* registerNymSessionForOrder: the session is built afresh, whatever it was.
ApplyHeartbeat(r) ==
    /\ r \in requests /\ r.kind = "nym-session"
    /\ requests' = requests \ {r}
    /\ delivered' = FALSE
    /\ address' = r.address
    /\ UNCHANGED <<product, claimed, released, buyer, seller, replies, mixnet, history,
                   disruptions>>

\* claimTransfer: the session is queued again, whatever it was.
ApplyClaim(r) ==
    /\ r \in requests /\ r.kind = "claim"
    /\ requests' = requests \ {r}
    /\ delivered' = FALSE
    /\ claimed' = TRUE
    /\ UNCHANGED <<product, address, released, buyer, seller, replies, mixnet, history,
                   disruptions>>

\* markTransferDelivered, which always answers with a delivered order.
ApplyAcknowledgement(r) ==
    /\ r \in requests /\ r.kind = "delivered"
    /\ requests' = requests \ {r}
    /\ delivered' = TRUE
    /\ told' = TRUE
    /\ replies' = replies \cup {r.life}
    /\ UNCHANGED <<product, address, claimed, released, buyer, seller, mixnet, opened,
                   disruptions>>

\* A request or a reply is lost.
LoseRequest(r) ==
    /\ Disrupt
    /\ r \in requests
    /\ requests' = requests \ {r}
    /\ UNCHANGED <<product, server, buyer, seller, replies, mixnet, history>>

LoseReply(life) ==
    /\ Disrupt
    /\ life \in replies
    /\ replies' = replies \ {life}
    /\ UNCHANGED <<product, server, buyer, seller, requests, mixnet, history>>

-----------------------------------------------------------------------------
(* The seller's page releases the key. *)

\* applyOrderState: the order becomes createdOrder, and the effect on it is armed again
\* once there is nothing to release.
ApplyOrderState(page) ==
    [page EXCEPT !.created = IF released THEN "ready" ELSE "pending",
                 !.auto = @ /\ ~released]

\* onReleaseSellerKey up to the answer to its challenge, or its failure.
GetReleaseChallenge(d, page) ==
    \/ /\ seller' = IF released THEN [ApplyOrderState(page) EXCEPT !.busy = FALSE]
                     ELSE [ApplyOrderState(page) EXCEPT !.busy = TRUE, !.release[d] = address]
       /\ UNCHANGED disruptions
    \/ Disrupt /\ seller' = [page EXCEPT !.busy = FALSE]

\* The scan of the files screen takes up a single-use order once, before it knows how the
\* release ends; the queue of purchases tries as long as the order is not released.
FilesScreenRelease ==
    /\ seller.screen = "files"
    /\ ~released
    /\ seller.release["files"] = None
    /\ product \/ ~seller.scanned
    /\ GetReleaseChallenge("files", [seller EXCEPT !.scanned = ~product])
    /\ UNCHANGED <<product, server, buyer, requests, replies, mixnet, history>>

\* The scan leaves an order alone that is released.
ScanReleased ==
    /\ seller.screen = "files"
    /\ released /\ ~product /\ ~seller.scanned
    /\ seller' = [seller EXCEPT !.scanned = TRUE]
    /\ UNCHANGED <<product, server, buyer, requests, replies, mixnet, history, disruptions>>

\* The poll of createdOrder, as long as it waits for its release.
PollCreatedOrder ==
    /\ seller.created = "pending" /\ released
    /\ seller' = ApplyOrderState(seller)
    /\ UNCHANGED <<product, server, buyer, requests, replies, mixnet, history, disruptions>>

\* The effect on createdOrder.  It finds the release draft of a single-use order only.
AutoRelease ==
    /\ ~product
    /\ seller.created = "pending" /\ ~seller.auto /\ ~seller.busy
    /\ GetReleaseChallenge("auto", [seller EXCEPT !.auto = TRUE])
    /\ UNCHANGED <<product, server, buyer, requests, replies, mixnet, history>>

\* The manage screen shows the code of the buyer's key.
OnRevealBuyerCode ==
    /\ seller.screen = "manage" /\ ~seller.busy /\ ~released
    /\ seller' = [ApplyOrderState(seller) EXCEPT !.code = TRUE]
    /\ UNCHANGED <<product, server, buyer, requests, replies, mixnet, history, disruptions>>

\* Its button, once the seller has confirmed the code.
ManualRelease ==
    /\ seller.screen = "manage" /\ seller.code /\ ~seller.busy
    /\ GetReleaseChallenge("manual", seller)
    /\ UNCHANGED <<product, server, buyer, requests, replies, mixnet, history>>

\* The key, and the file unless it streams (maybeSendFileOverNym) or is not found
\* (sendFileOverNym).
SendKeyAndFile(page, to) ==
    [page EXCEPT !.keySent = TRUE,
                 !.stream = IF @ = None /\ page.ciphertext # "none" THEN to ELSE @]

\* The release ends, however it does.
EndRelease(d, page) == [page EXCEPT !.release[d] = None, !.busy = FALSE]

\* Mutant of PostRelease: the key is sent before the server has accepted its release.
MutPostRelease(d) ==
    LET to == seller.release[d] IN
    /\ to # None
    /\ mixnet' = mixnet \cup {[type |-> "key", to |-> to]}
    /\ seller' = EndRelease(d, SendKeyAndFile(seller, to))
    /\ released' \in {released, TRUE}
    /\ UNCHANGED <<product, delivered, address, claimed, buyer, requests, replies, history,
                   disruptions>>

\* The rest of onReleaseSellerKey: the server takes one release of an order
\* (releaseTransferKey), and the key is sent to the address of the challenge.
PostRelease(d) ==
    LET to == seller.release[d] IN
    /\ to # None
    /\ IF released
         THEN /\ seller' = EndRelease(d, seller)
              /\ UNCHANGED <<released, mixnet>>
         ELSE /\ released' = TRUE
              /\ mixnet' = mixnet \cup {[type |-> "key", to |-> to]}
              /\ seller' = EndRelease(d, [SendKeyAndFile(seller, to) EXCEPT
                                            !.created = "ready", !.auto = FALSE])
    /\ UNCHANGED <<product, delivered, address, claimed, buyer, requests, replies, history,
                   disruptions>>

\* The request, its answer or the message is lost; nothing tries again but the poll of
\* createdOrder, the queue of purchases and, once the key is released, the re-send loops.
ReleaseFails(d) ==
    /\ Disrupt
    /\ seller.release[d] # None
    /\ released' \in {released, TRUE}
    /\ seller' = EndRelease(d, seller)
    /\ UNCHANGED <<product, delivered, address, claimed, buyer, requests, replies, mixnet,
                   history>>

\* onOpenManage, and back.
OnOpenManage ==
    /\ Disrupt
    /\ seller.screen = "files"
    /\ seller' = [seller EXCEPT !.screen = "manage", !.code = FALSE]
    /\ UNCHANGED <<product, server, buyer, requests, replies, mixnet, history>>

BackToFiles ==
    /\ seller.screen = "manage"
    /\ seller' = [seller EXCEPT !.screen = "files", !.code = FALSE]
    /\ UNCHANGED <<product, server, buyer, requests, replies, mixnet, history, disruptions>>

-----------------------------------------------------------------------------
(* The seller's page delivers, over the mixnet. *)

\* Mutant of ResendKey: a key that was sent is not sent again.
MutResendKey ==
    /\ released /\ ~delivered
    /\ seller' = SendKeyAndFile(seller, address)
    /\ mixnet' = IF ~seller.keySent
                 THEN mixnet \cup {[type |-> "key", to |-> address]}
                 ELSE mixnet
    /\ UNCHANGED <<product, server, buyer, requests, replies, history, disruptions>>

\* The re-send loops go on until they read that the session is delivered.
MustResend == released /\ ~delivered

\* onResendKeyOverNym: the key is not re-sent while the file streams, and one stream per
\* order runs at a time.
ResendKey ==
    /\ MustResend
    /\ mixnet' = IF seller.stream = None \/ ~seller.keySent
                 THEN mixnet \cup {[type |-> "key", to |-> address]}
                 ELSE mixnet
    /\ seller' = SendKeyAndFile(seller, address)
    /\ UNCHANGED <<product, server, buyer, requests, replies, history, disruptions>>

\* A tick of the loop of the files screen, or of the queue.
FilesScreenResend == seller.screen = "files" /\ ResendKey

\* A tick of the loop of the manage screen, or its button.  The loop gives up after
\* RESEND_MAX_ATTEMPTS ticks: nothing is assumed about it.
ManageScreenResend == seller.screen = "manage" /\ ResendKey

\* deleteSellerCiphertext: best effort.  The ciphertext of a product is kept.
DeleteSellerCiphertext ==
    ({seller.ciphertext} \cap {"stored"}) \cup (IF product THEN {} ELSE {"none"})

\* The sender hears that the file was reassembled: the stream ends and, for a
\* single-use order, the ciphertext is deleted, in memory and in IndexedDB.
StreamAcknowledged(m) ==
    /\ m \in mixnet /\ m.type = "ack"
    /\ mixnet' = mixnet \ {m}
    /\ IF seller.stream = None THEN UNCHANGED seller
       ELSE \E c \in DeleteSellerCiphertext :
              seller' = [seller EXCEPT !.stream = None, !.ciphertext = c]
    /\ UNCHANGED <<product, server, buyer, requests, replies, history, disruptions>>

\* Nobody on the other side takes the stream: the sender gives up.
StreamIgnored ==
    \/ seller.stream # buyer.address
    \/ HasFile
    \/ buyer.file \in {"reassembled", "failed"}

EndStream == seller' = [seller EXCEPT !.stream = None]

StreamTimesOut ==
    /\ seller.stream # None
    /\ StreamIgnored
    /\ EndStream
    /\ UNCHANGED <<product, server, buyer, requests, replies, mixnet, history,
                   disruptions>>

\* A stream the buyer takes fails.
StreamFails ==
    /\ Disrupt
    /\ seller.stream # None
    /\ ~StreamIgnored
    /\ EndStream
    /\ UNCHANGED <<product, server, buyer, requests, replies, mixnet, history>>

\* getSellerCiphertext, getProductCiphertext.
GetSellerCiphertext == IF seller.ciphertext = "stored" THEN "stored" ELSE "none"

\* The seller's page is reloaded: the ciphertext comes back from IndexedDB.
ReloadSeller ==
    /\ Disrupt
    /\ seller' = [LoadedPage EXCEPT !.ciphertext = GetSellerCiphertext]
    /\ UNCHANGED <<product, server, buyer, requests, replies, mixnet, history>>

LoseMessage(m) ==
    /\ Disrupt
    /\ m \in mixnet
    /\ mixnet' = mixnet \ {m}
    /\ UNCHANGED <<product, server, buyer, seller, requests, replies, history>>

-----------------------------------------------------------------------------
BuyerStep ==
    \/ Heartbeat
    \/ Claim
    \/ Poll
    \/ \E m \in mixnet : ReceiveKey(m)
    \/ StartReceiver
    \/ CompleteReceiver
    \/ AcknowledgeDelivery
    \/ \E life \in replies : ReceiveReply(life)

ServerStep ==
    \/ \E r \in requests : ApplyHeartbeat(r)
    \/ \E r \in requests : ApplyClaim(r)
    \/ \E r \in requests : ApplyAcknowledgement(r)

SellerStep ==
    \/ FilesScreenRelease \/ AutoRelease \/ ManualRelease
    \/ \E d \in Detectors : PostRelease(d)
    \/ ScanReleased \/ PollCreatedOrder \/ OnRevealBuyerCode \/ BackToFiles
    \/ FilesScreenResend \/ ManageScreenResend
    \/ \E m \in mixnet : StreamAcknowledged(m)
    \/ StreamTimesOut

Disruption ==
    \/ ReloadBuyer
    \/ ChangeAddress
    \/ \E r \in requests : LoseRequest(r)
    \/ \E life \in replies : LoseReply(life)
    \/ StreamFails
    \/ ReloadSeller
    \/ OnOpenManage
    \/ \E d \in Detectors : ReleaseFails(d)
    \/ \E m \in mixnet : LoseMessage(m)

Next == BuyerStep \/ ServerStep \/ SellerStep \/ Disruption

Spec == Init /\ [][Next]_vars

\* Both pages stay open, with their intervals and effects running; requests,
\* replies, messages and streams that are not disrupted arrive.  Nothing is
\* assumed about disruptions, except that the bound ends them: fewer than the
\* attempts of acknowledgeDelivery.
Fairness ==
    /\ WF_vars(Heartbeat) /\ WF_vars(Claim) /\ WF_vars(Poll)
    /\ WF_vars(\E m \in mixnet : ReceiveKey(m))
    /\ WF_vars(StartReceiver) /\ WF_vars(CompleteReceiver)
    /\ WF_vars(AcknowledgeDelivery)
    /\ WF_vars(\E r \in requests : ApplyHeartbeat(r))
    /\ WF_vars(\E r \in requests : ApplyClaim(r))
    /\ WF_vars(\E r \in requests : ApplyAcknowledgement(r))
    /\ WF_vars(\E life \in replies : ReceiveReply(life))
    /\ WF_vars(FilesScreenRelease) /\ WF_vars(AutoRelease)
    /\ \A d \in Detectors : WF_vars(PostRelease(d))
    /\ WF_vars(FilesScreenResend)
    /\ WF_vars(\E m \in mixnet : StreamAcknowledged(m))
    /\ WF_vars(StreamTimesOut)

FairSpec == Spec /\ Fairness

-----------------------------------------------------------------------------
(* Properties. *)

\* The seller's "delivered" is true: it is shown only after the buyer has opened
\* the file, whatever was lost, repeated or late.
DeliveredMeansOpened == delivered => opened

\* The key is on its way or with the buyer, or the seller's page works as if it was.
KeyIsOut ==
    \/ \E m \in mixnet : m.type = "key"
    \/ seller.keySent \/ seller.stream # None
    \/ buyer.key

\* The key is with nobody but the seller before the server has recorded its release.
KeyFollowsRelease == KeyIsOut => released

\* The handshake implements the abstract delivery: release, key, open file and
\* confirmation come in this order, whichever page was reloaded, and whatever was lost or
\* late, in between.
Delivery == INSTANCE PaidDelivery WITH outside <- KeyIsOut

ImplementsDelivery == Delivery!Spec

\* Nothing the page does by itself brings the file to the buyer any more: the manage screen
\* is open; the ciphertext is gone before the buyer's page has it (a reload when IndexedDB
\* has no copy, a reload of the buyer's page after the acknowledgement of a single-use
\* file); the page could not decrypt what it received; or the one release that the scan of
\* the files screen tries has failed.
Stranded ==
    \/ seller.screen = "manage"
    \/ buyer.file = "failed"
    \/ seller.ciphertext = "none" /\ buyer.file \notin {"reassembled", "open"}
    \/ /\ ~released /\ ~product /\ seller.scanned
       /\ seller.release["files"] = None

\* Unless it stays stranded, an order is delivered and the seller is told, in spite of
\* losses, address changes, failed streams and reloads.  As an acknowledgement follows the
\* opening of the file, this is also the buyer's: the file arrives.
SellerIsTold == []<>~Stranded => <>told
=============================================================================
