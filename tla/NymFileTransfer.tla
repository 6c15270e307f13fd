--------------------------- MODULE NymFileTransfer ---------------------------
(***************************************************************************)
(* One file on its way from the seller's page to the buyer's over the      *)
(* mixnet: the sender and the receiver of lib/nym-file-transfer.ts and the *)
(* functions of the panel that start, feed and end them.                   *)
(*                                                                         *)
(* The sender streams an offer, every chunk and a done packet, and resends *)
(* a window of chunks when it is asked for one.  It gives up after its     *)
(* acknowledgement timeout, at any point of a long stream, and the re-send *)
(* loop starts the next.  The receiver keeps chunks in any order across    *)
(* streams, asks for the first gap when a done packet comes or after a     *)
(* silence, and acknowledges once the file is assembled and its hash       *)
(* computed (an await).                                                    *)
(*                                                                         *)
(* Packets are lost, repeated and reordered.  They are sent at any time    *)
(* and take any time: packets that a loop sends one after another and that *)
(* nothing in between can change are sent together.  Left out: bytes, the  *)
(* pacing of chunks, progress, metrics, and the hash comparison (every     *)
(* stream of an order carries the same ciphertext).                        *)
(*                                                                         *)
(* What every specification has (an initial predicate, a next-state        *)
(* relation, a type invariant) is named for the transfer, so that a module *)
(* can extend this one together with DeliveryHandshake.                    *)
(***************************************************************************)
EXTENDS Naturals

CONSTANTS
    Total,          \* chunks of the file
    Window,         \* retransmitWindow: chunks resent on a request
    NoRequest,      \* no request waits
    MaxHashes,      \* bound: hash computations of one receiver at a time
    MaxFaults       \* bound: lost and repeated packets, failures, reloads

ASSUME TransferAssumption ==
    /\ Total \in Nat \ {0} /\ Window \in Nat \ {0}
    /\ MaxHashes \in Nat \ {0} /\ MaxFaults \in Nat
    /\ NoRequest \notin Nat

Seqs == 0 .. Total - 1

Chunk(s) == [type |-> "chunk", seq |-> s]
Retransmit(s) == [type |-> "retransmit", seq |-> s]
Offer == [type |-> "offer", seq |-> 0]
Done == [type |-> "done", seq |-> 0]
Ack == [type |-> "ack", seq |-> 0]

\* Every packet carries the number of chunks.
Packet == {Chunk(s) : s \in Seqs} \cup {Retransmit(s) : s \in Seqs}
            \cup {Offer, Done, Ack}

\* next: the chunk streamAll sends next, Total before the done packet and
\* Total + 1 after it.  pending: pendingRetransmitSeq.
Sender == [live : BOOLEAN, next : 0 .. Total + 1, pending : Seqs \cup {NoRequest}]

\* address: senderAddress is known.  hashing: calls of finalizeIfComplete that
\* wait for the hash.
Receiver == [status : {"none", "receiving", "done"}, chunks : SUBSET Seqs,
             address : BOOLEAN, hashing : 0 .. MaxHashes]

VARIABLES
    sender,       \* the sender of the seller's page
    acked,        \* some sender was acknowledged
    receiver,     \* the receiver of the buyer's page
    leftHashing,  \* an aborted receiver that knew the address still hashes
    net,          \* packets in the mixnet; copies of one packet are one
    assembled,    \* history: some receiver has had every chunk
    received,     \* history: some receiver has handed over the file
    faults

receiverVars == <<receiver, leftHashing, assembled, received>>
transferVars == <<sender, acked, receiverVars, net, faults>>

TransferTypeOK ==
    /\ sender \in Sender
    /\ acked \in BOOLEAN
    /\ receiver \in Receiver
    /\ leftHashing \in BOOLEAN
    /\ net \subseteq Packet
    /\ assembled \in BOOLEAN /\ received \in BOOLEAN
    /\ faults \in 0 .. MaxFaults

NoReceiver == [status |-> "none", chunks |-> {}, address |-> FALSE, hashing |-> 0]

TransferInit ==
    /\ sender = [live |-> FALSE, next |-> 0, pending |-> NoRequest]
    /\ acked = FALSE
    /\ receiver = NoReceiver
    /\ leftHashing = FALSE
    /\ net = {}
    /\ assembled = FALSE /\ received = FALSE
    /\ faults = 0

Fault == faults < MaxFaults /\ faults' = faults + 1

\* Packet p arrives, and packets P are sent; a repeated packet stays in the net.
Exchange(p, P) ==
    /\ p \in net
    /\ \/ net' = (net \ {p}) \cup P /\ UNCHANGED faults
       \/ net' = net \cup P /\ Fault

-----------------------------------------------------------------------------
(* The sender. *)

\* What the retransmit loop sends for a request: a window, then a done packet.
WindowFrom(s) == {Chunk(t) : t \in {u \in Seqs : s <= u /\ u < s + Window}}
Answer(s) == IF s = NoRequest THEN {} ELSE WindowFrom(s) \cup {Done}

\* maybeSendFileOverNym, when no stream of the order is on.
StartStream ==
    /\ ~sender.live
    /\ sender' = [live |-> TRUE, next |-> 0, pending |-> NoRequest]
    /\ net' = net \cup {Offer}
    /\ UNCHANGED <<acked, receiverVars, faults>>

\* Mutant of SendNext: the stream does not end.
MutSendNext ==
    /\ sender.live
    /\ sender' = [sender EXCEPT !.next = @ + 1]
    /\ net' = net \cup {IF sender.next < Total THEN Chunk(sender.next) ELSE Done}
    /\ UNCHANGED <<acked, receiverVars, faults>>

\* streamAll: the next chunk, or the done packet after the last.
SendNext ==
    /\ sender.live
    /\ sender.next <= Total
    /\ sender' = [sender EXCEPT !.next = @ + 1]
    /\ net' = net \cup {IF sender.next < Total THEN Chunk(sender.next) ELSE Done}
    /\ UNCHANGED <<acked, receiverVars, faults>>

\* handlePacket of the sender: while a window is being sent the newest request
\* replaces the one that waits.
HearRetransmit(s) ==
    /\ sender.live
    /\ Exchange(Retransmit(s), {})
    /\ sender' = [sender EXCEPT !.pending = s]
    /\ UNCHANGED <<acked, receiverVars>>

\* The retransmit loop answers the request that waits.
ServeRetransmit ==
    /\ sender.live
    /\ sender.pending # NoRequest
    /\ sender' = [sender EXCEPT !.pending = NoRequest]
    /\ net' = net \cup Answer(sender.pending)
    /\ UNCHANGED <<acked, receiverVars, faults>>

\* A send of the retransmit loop fails after some chunks: the loop ends.
FailRetransmit ==
    /\ Fault
    /\ sender.live
    /\ sender.pending # NoRequest
    /\ sender' = [sender EXCEPT !.pending = NoRequest]
    /\ \E k \in 1 .. Window :
         net' = net \cup {p \in WindowFrom(sender.pending) :
                            p.seq < sender.pending + k - 1}
    /\ UNCHANGED <<acked, receiverVars>>

HearAck ==
    /\ sender.live
    /\ Exchange(Ack, {})
    /\ sender' = [sender EXCEPT !.live = FALSE, !.pending = NoRequest]
    /\ acked' = TRUE
    /\ UNCHANGED receiverVars

\* Mutant of TimeOut: the aborted stream says nothing.
MutTimeOut ==
    /\ sender.live
    /\ sender' = [sender EXCEPT !.live = FALSE, !.pending = NoRequest]
    /\ net' = net \cup Answer(sender.pending)
    /\ UNCHANGED <<acked, receiverVars, faults>>

\* The acknowledgement timeout: done() rejects and the stream is aborted.  streamAll
\* leaves its loop and sends its done packet, the retransmit loop ends its window.
TimeOut ==
    /\ sender.live
    /\ sender' = [sender EXCEPT !.live = FALSE, !.pending = NoRequest]
    /\ net' = net \cup Answer(sender.pending)
                  \cup (IF sender.next <= Total THEN {Done} ELSE {})
    /\ UNCHANGED <<acked, receiverVars, faults>>

\* A send of streamAll fails: the stream ends without a done packet.
FailStream ==
    /\ Fault
    /\ sender.live
    /\ sender.next <= Total
    /\ sender' = [sender EXCEPT !.live = FALSE, !.pending = NoRequest]
    /\ net' = net \cup Answer(sender.pending)
    /\ UNCHANGED <<acked, receiverVars>>

\* The seller's page is reloaded.
ReloadSender ==
    /\ Fault
    /\ sender' = [sender EXCEPT !.live = FALSE, !.pending = NoRequest]
    /\ UNCHANGED <<acked, receiverVars, net>>

-----------------------------------------------------------------------------
(* The receiver. *)

\* routeBuyerFilePacket: the first packet starts a receiver, and a page that has
\* the file takes no packets.
Listening == receiver.status # "done"

Missing(r) == Seqs \ r.chunks
Complete(r) == Missing(r) = {}
\* The first missing chunk, if any, in a set of its own.
FirstGap(r) == {s \in Missing(r) : \A t \in Missing(r) : s <= t}

\* requestFirstGap.
RequestFirstGap(r) ==
    IF r.address THEN {Retransmit(s) : s \in FirstGap(r)} ELSE {}

\* Mutant of Finalize: the end of a stream is taken for the end of the file.
MutFinalize(r) ==
    IF r.hashing < MaxHashes THEN [r EXCEPT !.hashing = @ + 1] ELSE r

\* finalizeIfComplete, up to the hash.
Finalize(r) ==
    IF Complete(r) /\ r.hashing < MaxHashes
    THEN [r EXCEPT !.hashing = @ + 1] ELSE r

HearOffer ==
    /\ Listening
    /\ Exchange(Offer, {})
    /\ receiver' = [receiver EXCEPT !.status = "receiving", !.address = TRUE]
    /\ UNCHANGED <<sender, acked, leftHashing, assembled, received>>

\* A chunk is kept, once, whatever stream it comes from.
HearChunk(s) ==
    /\ Listening
    /\ Exchange(Chunk(s), {})
    /\ LET r == [receiver EXCEPT !.status = "receiving", !.chunks = @ \cup {s}] IN
       /\ receiver' = Finalize(r)
       /\ assembled' = (assembled \/ Complete(r))
    /\ UNCHANGED <<sender, acked, leftHashing, received>>

\* A done packet is answered by a request for the first gap, at once.
HearDone ==
    /\ Listening
    /\ LET r == [receiver EXCEPT !.status = "receiving", !.address = TRUE] IN
       /\ Exchange(Done, RequestFirstGap(r))
       /\ receiver' = Finalize(r)
    /\ UNCHANGED <<sender, acked, leftHashing, assembled, received>>

\* The gap timer, which every packet winds up again.
GapTimeout ==
    /\ receiver.status = "receiving"
    /\ net' = net \cup RequestFirstGap(receiver)
    /\ UNCHANGED <<sender, acked, receiverVars, faults>>

\* The receiver can acknowledge only to an address it knows.
Acknowledge(r) == IF r.address THEN {Ack} ELSE {}

\* finalizeIfComplete after the hash: acknowledge, and settle unless settled.
FinishHash ==
    /\ receiver.hashing > 0
    /\ receiver' = [receiver EXCEPT !.hashing = @ - 1, !.status = "done"]
    /\ net' = net \cup Acknowledge(receiver)
    /\ received' = TRUE
    /\ UNCHANGED <<sender, acked, leftHashing, assembled, faults>>

\* ... of a receiver that was aborted meanwhile: it acknowledges all the same.
FinishLeftHash ==
    /\ leftHashing
    /\ leftHashing' = FALSE
    /\ net' = net \cup {Ack}
    /\ UNCHANGED <<sender, acked, receiver, assembled, received, faults>>

\* loadOrder aborts the receiver, or its overall timeout does.
Abort ==
    /\ Fault
    /\ receiver.status # "none"
    /\ leftHashing' = (leftHashing \/ (receiver.hashing > 0 /\ receiver.address))
    /\ receiver' = NoReceiver
    /\ UNCHANGED <<sender, acked, net, assembled, received>>

\* The buyer's page is reloaded.
ReloadReceiver ==
    /\ Fault
    /\ receiver' = NoReceiver
    /\ leftHashing' = FALSE
    /\ UNCHANGED <<sender, acked, net, assembled, received>>

-----------------------------------------------------------------------------
(* The mixnet. *)

\* Nobody listens for the packet where it arrives.
Ignored(p) ==
    IF p.type \in {"retransmit", "ack"} THEN ~sender.live ELSE ~Listening

\* A packet is lost in the mixnet.  A control packet that comes between two streams
\* is lost as well, and counted; the rest of what nobody listens for is not.
LosePacket(p) ==
    /\ p \in net
    /\ net' = net \ {p}
    /\ IF Ignored(p) /\ p.type # "retransmit" THEN UNCHANGED faults
       ELSE Fault
    /\ UNCHANGED <<sender, acked, receiverVars>>

-----------------------------------------------------------------------------
SenderStep ==
    \/ StartStream \/ SendNext \/ ServeRetransmit \/ HearAck \/ TimeOut
    \/ \E s \in Seqs : HearRetransmit(s)

ReceiverStep ==
    \/ HearOffer \/ HearDone \/ GapTimeout \/ FinishHash \/ FinishLeftHash
    \/ \E s \in Seqs : HearChunk(s)

FaultStep ==
    \/ FailRetransmit \/ FailStream \/ ReloadSender \/ Abort \/ ReloadReceiver
    \/ \E p \in net : LosePacket(p)

TransferNext == SenderStep \/ ReceiverStep \/ FaultStep

TransferSpec == TransferInit /\ [][TransferNext]_transferVars

\* Nothing is on its way to the receiver.
Silence == ~ \E p \in net : p.type \in {"offer", "chunk", "done"}

\* The re-send loop starts streams until one is acknowledged, timers fire, and
\* packets that are not lost arrive.  A stream may time out after any number of
\* chunks, again and again; but a request that waits in the mixnet is not kept
\* from every stream.  The gap timer fires only in a silence.
TransferFairness ==
    /\ WF_transferVars(~acked /\ StartStream)
    /\ WF_transferVars(SendNext) /\ WF_transferVars(ServeRetransmit) /\ WF_transferVars(TimeOut)
    /\ \A s \in Seqs : SF_transferVars(HearRetransmit(s)) /\ WF_transferVars(HearChunk(s))
    /\ WF_transferVars(HearOffer) /\ WF_transferVars(HearDone)
    /\ WF_transferVars(FinishHash)
    /\ WF_transferVars(Silence /\ GapTimeout)

TransferFairSpec == TransferSpec /\ TransferFairness

-----------------------------------------------------------------------------
(* Properties. *)

\* Whatever stream it answers and however late it comes, an acknowledgement says
\* that the buyer's page has had the whole file.
AckMeansAssembled == (acked \/ Ack \in net) => assembled

\* The file arrives, although no stream may last until its end: what a receiver
\* has of one stream counts in the next, and the rest is asked for window by
\* window.  A receiver that is left hashing may be acknowledged and forgotten.
FileArrives == <>(received \/ acked)
=============================================================================
