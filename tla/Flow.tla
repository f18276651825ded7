-------------------------------- MODULE Flow --------------------------------
(***************************************************************************)
(* The packet layer of SST (lib/flow.cc): sequence numbers, replay         *)
(* protection, acknowledgments, loss inference and the two timers, between *)
(* the two endpoints of one flow, over a network that loses, duplicates    *)
(* and reorders packets.                                                   *)
(*                                                                         *)
(* Each endpoint is a single-threaded event loop, so a handler runs to its *)
(* end before the next one starts.  The exception is the upcall            *)
(* flowReceive() in the middle of Flow::receive: the stream layer may      *)
(* transmit from inside it.  Receive stops at that upcall, with the packet *)
(* in rxpkt, and one of the Deliver actions is the rest of the handler.    *)
(*                                                                         *)
(* A packet in net[e] stays there for ever: delivering it once, again, or  *)
(* not at all is duplication, replay and loss.                             *)
(***************************************************************************)
EXTENDS FlowCC, FiniteSets

CONSTANTS
    A, B,           \* the two endpoints
    SeqMod,         \* sequence numbers on the wire, 2^seqBits = 2^24
    AckMod,         \* range of acknowledge()'s quint16 parameter, 2^16
    MaskBits,       \* maskBits, 32
    AckctMax,       \* ackctMax, 15
    MissThresh,     \* missthresh, 3
    AckAckPackets,  \* ACKACKPACKETS, 4
    MaxPacketSeq,   \* maxPacketSeq, the bound tx() asserts
    MaxDataA, MaxDataB,  \* bound: data packets each endpoint transmits
    Stoppable       \* endpoints whose upper layer may stop the flow

ASSUME FlowAssumption ==
    /\ A # B
    /\ MaskBits \in Nat \ {0}
    /\ SeqMod \in Nat /\ SeqMod % 2 = 0 /\ MaskBits <= SeqMod \div 2
    /\ AckMod \in Nat \ {0}
    /\ AckctMax \in Nat /\ AckctMax < MaskBits
    /\ MissThresh \in Nat \ {0} /\ MissThresh < MaskBits
    /\ AckAckPackets \in Nat \ {0}
    /\ MaxPacketSeq \in Nat
    /\ MaxDataA \in Nat /\ MaxDataB \in Nat
    /\ Stoppable \subseteq {A, B}

Endpoint == {A, B}

Peer(e) == IF e = A THEN B ELSE A

MaxData(e) == IF e = A THEN MaxDataA ELSE MaxDataB

VARIABLES
    \* transmit side
    active, txseq, txevtseq, pipe, txackseq, txackmask, txfltcnt, rtxtimer,
    linkstat, cc,
    \* receive side
    rxseq, rxmask, rxackseq, rxackct, rxunacked, acktimer,
    \* the handler in progress, if any
    rxpkt, rxfresh,
    \* packets sent towards each endpoint
    net,
    \* what the upper layer was told and what it answered (history)
    acked, missed, delivered, acknowledged, owed

txVars == <<txevtseq, txackseq, txackmask, linkstat>>
ackVars == <<rxackseq, rxackct, rxunacked, acktimer>>
rxVars == <<rxseq, rxmask>>
handlerVars == <<rxpkt, rxfresh>>
upcalls == <<acked, missed>>
answers == <<delivered, acknowledged, owed>>
flightVars == <<pipe, txfltcnt, rtxtimer>>
vars == <<active, txseq, txVars, flightVars, cc, ackVars, rxVars, handlerVars,
          net, upcalls, answers>>

-----------------------------------------------------------------------------
(* Packets.  seq is the full sequence number, which travels only as seq    *)
(* modulo SeqMod but is bound into the packet's authenticator; ackseq is   *)
(* the field of the header as transmitted.                                 *)
Packet ==
    [seq : Nat, ackseq : 0 .. SeqMod - 1, ackct : 0 .. AckctMax, data : BOOLEAN]

Pkt(seq, ackseq, ackct, data) ==
    [seq |-> seq, ackseq |-> ackseq % SeqMod, ackct |-> ackct, data |-> data]

(* No handler in progress; sequence number 0 is the fictitious packet that *)
(* both sides take as received.                                            *)
NoPacket == Pkt(0, 0, 0, FALSE)

Idle(e) == rxpkt[e] = NoPacket

(* The signed difference between a wire sequence number and a full one. *)
SeqDiff(wire, full) ==
    LET d == (wire - full) % SeqMod
    IN  IF d < SeqMod \div 2 THEN d ELSE d - SeqMod

(* A 32-bit mask as the set of its one bits, and "mask << n". *)
Bits == 0 .. MaskBits - 1

ShiftWide(mask, n) == {b + n : b \in mask}     \* fault: bits beyond the mask

Shift(mask, n) == {b + n : b \in mask} \cap Bits

(* FlowArmor::rxdec, taken as ideal: the authenticator covers the full     *)
(* sequence number, so that only the packet sent with it passes.           *)
RxDecWire(pktseq, p) ==         \* fault: only the wire part is authenticated
    pktseq % SeqMod = p.seq % SeqMod

RxDec(pktseq, p) == pktseq = p.seq

-----------------------------------------------------------------------------
(* Flow::receive, first part: which packets get past replay protection and *)
(* authentication, and what the replay window becomes.                     *)
PktDiff(e, p) == SeqDiff(p.seq % SeqMod, rxseq[e])

PktSeq(e, p) == rxseq[e] + PktDiff(e, p)

Replayed(e, p) ==
    LET d == PktDiff(e, p) IN d <= 0 /\ (d <= -MaskBits \/ (-d) \in rxmask[e])

Authentic(e, p) == ~Replayed(e, p) /\ RxDec(PktSeq(e, p), p)

RxMaskAfter(e, p) ==
    LET d == PktDiff(e, p)
    IN  IF d > 0 THEN Shift(rxmask[e], d) \cup {0} ELSE rxmask[e] \cup {-d}

(* Flow::receive, second part: what the acknowledgment in p says.          *)
AckDiff(e, p) == SeqDiff(p.ackseq, txackseq[e])

AckSeq(e, p) == txackseq[e] + AckDiff(e, p)

AckPlausible(e, p) == AckSeq(e, p) \in 0 .. txseq[e] - 1

Advances(e, p) == AckDiff(e, p) > 0

TxAckSeqAfter(e, p) == IF Advances(e, p) THEN AckSeq(e, p) ELSE txackseq[e]

NewInOrderAll(e, p) ==          \* fault: ackct is not looked at
    IF Advances(e, p) THEN AtMost(AckDiff(e, p), MaskBits) ELSE 0

NewInOrder(e, p) ==
    IF Advances(e, p) THEN AtMost(AckDiff(e, p), p.ackct + 1) ELSE 0

(* Sequence numbers the in-order loop reports as acked ... *)
InOrder(e, p) ==
    IF Advances(e, p)
      THEN AckSeq(e, p) - NewInOrder(e, p) + 1 .. AckSeq(e, p) ELSE {}

(* ... and the ones far enough behind to be taken as lost. *)
InferredLostShort(e, p) ==      \* fault: the loss loop ends one early
    LET a == AckSeq(e, p)
    IN  IF Advances(e, p)
          THEN a - AtMost(a, MissThresh + AckDiff(e, p) - 1) ..
               a - AtMost(a, AtLeast(MissThresh, NewInOrder(e, p))) - 1
          ELSE {}

InferredLost(e, p) ==
    LET a == AckSeq(e, p)
    IN  IF Advances(e, p)
          THEN a - AtMost(a, MissThresh + AckDiff(e, p) - 1) ..
               a - AtMost(a, AtLeast(MissThresh, NewInOrder(e, p)))
          ELSE {}

TxEvtSeqAfter(e, p) ==
    IF Advances(e, p) /\ AckSeq(e, p) > MaskBits
      THEN AtLeast(txevtseq[e], AckSeq(e, p) - MaskBits + 1)
      ELSE txevtseq[e]

MaskInOrder(e, p) ==
    IF Advances(e, p)
      THEN Shift(txackmask[e], AckDiff(e, p)) \cup (0 .. NewInOrder(e, p) - 1)
      ELSE txackmask[e]

(* Straggling acknowledgments: the test looks at the lowest ackct bits of  *)
(* the mask, the loop sets the bits that the acknowledgment names.         *)
Straggling(e, p) == ~(0 .. p.ackct - 1 \subseteq MaskInOrder(e, p))

StragglerBitsAll(e, p) ==       \* fault: no stop at maskBits
    LET back == IF Advances(e, p) THEN 0 ELSE -AckDiff(e, p)
    IN  IF Straggling(e, p)
          THEN (back .. back + p.ackct) \ MaskInOrder(e, p)
          ELSE {}

StragglerBits(e, p) ==
    LET back == IF Advances(e, p) THEN 0 ELSE -AckDiff(e, p)
    IN  IF Straggling(e, p)
          THEN ((back .. back + p.ackct) \cap Bits) \ MaskInOrder(e, p)
          ELSE {}

Stragglers(e, p) == {TxAckSeqAfter(e, p) - b : b \in StragglerBits(e, p)}

NewPackets(e, p) == NewInOrder(e, p) + Cardinality(StragglerBits(e, p))

(* The upcalls acked() and missed(), in the order of the loops: only       *)
(* packets still counted as in flight are reported.                        *)
LostAgain(e, p) == InferredLost(e, p) \ InOrder(e, p)   \* fault: no test of pipe

LostNow(e, p) == (pipe[e] \ InOrder(e, p)) \cap InferredLost(e, p)

AckedAgain(e, p) == InOrder(e, p) \cup Stragglers(e, p)  \* fault: no test of pipe

AckedNow(e, p) ==
    (pipe[e] \cap InOrder(e, p))
    \cup ((pipe[e] \ LostNow(e, p)) \cap Stragglers(e, p))

(* Progress restarts the retransmission timer, or stops it when nothing is *)
(* in flight; the stragglers are not yet counted off at this point.        *)
RtxTimerStopped(e, p) ==        \* fault: progress always stops the timer
    ~Advances(e, p) /\ rtxtimer[e]

RtxTimerAfter(e, p) ==
    IF Advances(e, p)
      THEN txfltcnt[e] > Cardinality(
               (pipe[e] \cap InOrder(e, p)) \cup LostNow(e, p))
      ELSE rtxtimer[e]

CcAfter(e, p, m) ==
    LET cut == CcMissed(cc[e], LostNow(e, p), txseq[e], m)
        grown == CcSlowStart(cut, NewPackets(e, p), m)
    IN  CcClamp(CcRoundTrip(grown, AckSeq(e, p), txseq[e], m))

-----------------------------------------------------------------------------
(* Flow::Flow and Flow::start at both ends. *)
Init ==
    /\ active = [e \in Endpoint |-> TRUE]
    /\ txseq = [e \in Endpoint |-> 1]
    /\ txevtseq = [e \in Endpoint |-> 0]
    /\ pipe = [e \in Endpoint |-> {}]
    /\ txackseq = [e \in Endpoint |-> 0]
    /\ txackmask = [e \in Endpoint |-> {0}]
    /\ txfltcnt = [e \in Endpoint |-> 0]
    /\ rtxtimer = [e \in Endpoint |-> TRUE]
    /\ linkstat = [e \in Endpoint |-> "LinkUp"]
    /\ \E mode \in CCModes : cc = [e \in Endpoint |-> CcReset(mode)]
    /\ rxseq = [e \in Endpoint |-> 0]
    /\ rxmask = [e \in Endpoint |-> {0}]
    /\ rxackseq = [e \in Endpoint |-> 0]
    /\ rxackct = [e \in Endpoint |-> 0]
    /\ rxunacked = [e \in Endpoint |-> 0]
    /\ acktimer = [e \in Endpoint |-> FALSE]
    /\ rxpkt = [e \in Endpoint |-> NoPacket]
    /\ rxfresh = [e \in Endpoint |-> FALSE]
    /\ net = [e \in Endpoint |-> {}]
    /\ acked = [e \in Endpoint |-> {}]
    /\ missed = [e \in Endpoint |-> {}]
    /\ delivered = [e \in Endpoint |-> {}]
    /\ acknowledged = [e \in Endpoint |-> {}]
    /\ owed = [e \in Endpoint |-> {}]

(* Flow::tx without the in-flight accounting: n packets leave e. *)
Send(e, pkts, n) ==
    /\ active[e]
    /\ txseq[e] + n <= MaxPacketSeq
    /\ txseq' = [txseq EXCEPT ![e] = @ + n]
    /\ net' = [net EXCEPT ![Peer(e)] = @ \cup pkts]

(* Flow::txack: the i-th acknowledgment-only packet of a handler. *)
AckPkt(e, i, ackseq, ackct) == Pkt(txseq[e] + i, ackseq, ackct, FALSE)

(* Flow::flushack: sends an acknowledgment only if one is being delayed. *)
FlushCount(e) == IF rxunacked[e] > 0 THEN 1 ELSE 0

FlushPkts(e) ==
    IF rxunacked[e] > 0 THEN {AckPkt(e, 0, rxackseq[e], rxackct[e])} ELSE {}

DataSent(e) == {p.seq : p \in {q \in net[Peer(e)] : q.data}}

(* Flow::flowTransmit, called by the upper layer, also from inside the     *)
(* flowReceive() upcall.                                                   *)
FlowTransmit(e) ==
    /\ Cardinality(DataSent(e)) < MaxData(e)
    /\ Send(e, {Pkt(txseq[e], rxackseq[e], rxackct[e], TRUE)}, 1)
    /\ pipe' = [pipe EXCEPT ![e] = @ \cup {txseq[e]}]
    /\ txfltcnt' = [txfltcnt EXCEPT ![e] = @ + 1]
    /\ rtxtimer' = [rtxtimer EXCEPT ![e] = TRUE]
    /\ rxunacked' = [rxunacked EXCEPT ![e] = 0]
    /\ acktimer' = [acktimer EXCEPT ![e] = @ /\ rxunacked[e] = 0]
    /\ UNCHANGED <<active, txVars, cc, rxackseq, rxackct, rxVars, handlerVars,
                   upcalls, answers>>

(* Flow::mayTransmit, asked by the upper layer. *)
MayTransmit(e) ==
    /\ active[e]
    /\ cc' = [cc EXCEPT ![e] = CcMayTransmit(@, txfltcnt[e])]
    /\ UNCHANGED <<active, txseq, txVars, flightVars, ackVars, rxVars,
                   handlerVars, net, upcalls, answers>>

(* Flow::receive of an authentic packet whose acknowledgment is for a      *)
(* packet not transmitted yet: it counts as received and goes no further.  *)
ReceiveImplausible(e, p) ==
    /\ active[e] /\ Idle(e)
    /\ Authentic(e, p) /\ ~AckPlausible(e, p)
    /\ rxseq' = [rxseq EXCEPT ![e] = AtLeast(@, PktSeq(e, p))]
    /\ rxmask' = [rxmask EXCEPT ![e] = RxMaskAfter(e, p)]
    /\ UNCHANGED <<active, txseq, txVars, flightVars, cc, ackVars, handlerVars,
                   net, upcalls, answers>>

(* Flow::receive up to the flowReceive() upcall. *)
Receive(e, p) ==
    /\ active[e] /\ Idle(e)
    /\ Authentic(e, p) /\ AckPlausible(e, p)
    /\ rxseq' = [rxseq EXCEPT ![e] = AtLeast(@, PktSeq(e, p))]
    /\ rxmask' = [rxmask EXCEPT ![e] = RxMaskAfter(e, p)]
    /\ txackseq' = [txackseq EXCEPT ![e] = TxAckSeqAfter(e, p)]
    /\ txackmask' = [txackmask EXCEPT
                        ![e] = MaskInOrder(e, p) \cup StragglerBits(e, p)]
    /\ txevtseq' = [txevtseq EXCEPT ![e] = TxEvtSeqAfter(e, p)]
    /\ pipe' = [pipe EXCEPT ![e] = @ \ (AckedNow(e, p) \cup LostNow(e, p))]
    /\ txfltcnt' = [txfltcnt EXCEPT
            ![e] = @ - Cardinality(AckedNow(e, p)) - Cardinality(LostNow(e, p))]
    /\ rtxtimer' = [rtxtimer EXCEPT ![e] = RtxTimerAfter(e, p)]
    /\ linkstat' = [linkstat EXCEPT
            ![e] = IF Advances(e, p) THEN "LinkUp" ELSE @]
    /\ \E m \in Measurements(cc[e], NewPackets(e, p)) :
          cc' = [cc EXCEPT ![e] = CcAfter(e, p, m)]
    /\ acked' = [acked EXCEPT ![e] = @ \cup AckedNow(e, p)]
    /\ missed' = [missed EXCEPT ![e] = @ \cup LostNow(e, p)]
    /\ rxpkt' = [rxpkt EXCEPT ![e] = p]
    /\ rxfresh' = [rxfresh EXCEPT ![e] = NewPackets(e, p) > 0]
    /\ UNCHANGED <<active, txseq, ackVars, net, answers>>

-----------------------------------------------------------------------------
(* The rest of Flow::receive, with Flow::acknowledge.  flowReceive() has   *)
(* the packet acknowledged with sendack set, without it ("quietly", which  *)
(* is all an acknowledgment-only packet gets), or refuses it.              *)
SendAckChoices(e) == {FALSE, rxpkt[e].data}

(* acknowledge() takes the sequence number as a quint16. *)
AckArg(e) == rxpkt[e].seq % AckMod

ArgDiff(e) == AckArg(e) - rxackseq[e]

Finish(e) ==
    /\ rxpkt' = [rxpkt EXCEPT ![e] = NoPacket]
    /\ rxfresh' = [rxfresh EXCEPT ![e] = FALSE]
    /\ cc' = [cc EXCEPT
            ![e] = IF rxfresh[e] THEN CcMayTransmit(@, txfltcnt[e]) ELSE @]
    /\ delivered' = [delivered EXCEPT ![e] = @ \cup {rxpkt[e].seq}]
    /\ UNCHANGED <<active, txVars, flightVars, rxVars, upcalls>>

Acknowledged(e, sendack) ==
    /\ active[e] /\ ~Idle(e)
    /\ acknowledged' = [acknowledged EXCEPT ![e] = @ \cup {rxpkt[e].seq}]
    /\ owed' = [owed EXCEPT
            ![e] = IF sendack THEN @ \cup {rxpkt[e].seq} ELSE @]

DeliverRefused(e) ==
    /\ active[e] /\ ~Idle(e)
    /\ Finish(e)
    /\ UNCHANGED <<txseq, net, ackVars, acknowledged, owed>>

AckTimerSecond(e, sendack) ==   \* fault: only a second packet starts the timer
    acktimer[e] \/ (sendack /\ rxunacked[e] > 0)

AckTimerAfter(e, sendack) == acktimer[e] \/ sendack

(* The next packet in order: delay the acknowledgment, unless there are    *)
(* enough undelivered ones.                                                *)
DeliverInOrder(e, sendack) ==
    LET count == rxunacked[e] + 1
        ct == AtMost(rxackct[e] + 1, AckctMax)
    IN
    /\ Acknowledged(e, sendack)
    /\ ArgDiff(e) = 1
    /\ rxackseq' = [rxackseq EXCEPT ![e] = AckArg(e)]
    /\ rxackct' = [rxackct EXCEPT ![e] = ct]
    /\ \/ /\ count < AckAckPackets
          /\ rxunacked' = [rxunacked EXCEPT ![e] = count]
          /\ acktimer' = [acktimer EXCEPT ![e] = AckTimerAfter(e, sendack)]
          /\ UNCHANGED <<txseq, net>>
       \/ /\ count >= AckAckPackets
          /\ Send(e, {AckPkt(e, 0, AckArg(e), ct)}, 1)
          /\ rxunacked' = [rxunacked EXCEPT ![e] = 0]
          /\ acktimer' = [acktimer EXCEPT ![e] = FALSE]
    /\ Finish(e)

(* A packet beyond a gap: flush, then acknowledge it at once. *)
DeliverAfterGap(e, sendack) ==
    /\ Acknowledged(e, sendack)
    /\ ArgDiff(e) > 1
    /\ Send(e, FlushPkts(e) \cup
               (IF sendack THEN {AckPkt(e, FlushCount(e), AckArg(e), 0)} ELSE {}),
            FlushCount(e) + (IF sendack THEN 1 ELSE 0))
    /\ rxackseq' = [rxackseq EXCEPT ![e] = AckArg(e)]
    /\ rxackct' = [rxackct EXCEPT ![e] = 0]
    /\ rxunacked' = [rxunacked EXCEPT ![e] = 0]
    /\ acktimer' = [acktimer EXCEPT ![e] = FALSE]
    /\ Finish(e)

(* A packet from before rxackseq: flush, then acknowledge it by itself. *)
DeliverLate(e, sendack) ==
    /\ Acknowledged(e, sendack)
    /\ ArgDiff(e) < 0
    /\ Send(e, FlushPkts(e) \cup
               (IF sendack THEN {AckPkt(e, FlushCount(e), AckArg(e), 0)} ELSE {}),
            FlushCount(e) + (IF sendack THEN 1 ELSE 0))
    /\ rxunacked' = [rxunacked EXCEPT ![e] = 0]
    /\ acktimer' = [acktimer EXCEPT ![e] = FALSE]
    /\ UNCHANGED <<rxackseq, rxackct>>
    /\ Finish(e)

(* acknowledge() falls through all its cases: only a truncated sequence    *)
(* number can equal rxackseq.                                              *)
DeliverSame(e, sendack) ==
    /\ Acknowledged(e, sendack)
    /\ ArgDiff(e) = 0
    /\ UNCHANGED <<txseq, net, ackVars>>
    /\ Finish(e)

Deliver(e) ==
    \/ DeliverRefused(e)
    \/ \E sendack \in SendAckChoices(e) :
          \/ DeliverInOrder(e, sendack)
          \/ DeliverAfterGap(e, sendack)
          \/ DeliverLate(e, sendack)
          \/ DeliverSame(e, sendack)

-----------------------------------------------------------------------------
(* Flow::ackTimeout. *)
AckTimeout(e) ==
    /\ acktimer[e] /\ Idle(e)
    /\ Send(e, FlushPkts(e), FlushCount(e))
    /\ rxunacked' = [rxunacked EXCEPT ![e] = 0]
    /\ acktimer' = [acktimer EXCEPT ![e] = FALSE]
    /\ UNCHANGED <<active, txVars, flightVars, cc, rxackseq, rxackct, rxVars,
                   handlerVars, upcalls, answers>>

(* Flow::rtxTimeout: every packet in flight is given up, the timer is      *)
(* restarted.  failed is the argument the timer passes once it has run for *)
(* failMax in a row.                                                       *)
RtxTimeout(e, failed) ==
    /\ active[e] /\ rtxtimer[e] /\ Idle(e)
    /\ cc' = [cc EXCEPT ![e] = CcTimeout(@, txfltcnt[e])]
    /\ txfltcnt' = [txfltcnt EXCEPT ![e] = @ - Cardinality(pipe[e])]
    /\ pipe' = [pipe EXCEPT ![e] = {}]
    /\ missed' = [missed EXCEPT ![e] = @ \cup pipe[e]]
    /\ linkstat' = [linkstat EXCEPT
            ![e] = IF failed THEN "LinkDown" ELSE "LinkStalled"]
    /\ UNCHANGED <<active, txseq, txevtseq, txackseq, txackmask, rtxtimer,
                   ackVars, rxVars, handlerVars, net, acked, answers>>

(* Flow::stop. *)
Stop(e) ==
    /\ e \in Stoppable /\ active[e] /\ Idle(e)
    /\ active' = [active EXCEPT ![e] = FALSE]
    /\ rtxtimer' = [rtxtimer EXCEPT ![e] = FALSE]
    /\ acktimer' = [acktimer EXCEPT ![e] = FALSE]
    /\ linkstat' = [linkstat EXCEPT ![e] = "LinkDown"]
    /\ UNCHANGED <<txseq, txevtseq, txackseq, txackmask, pipe, txfltcnt, cc,
                   rxackseq, rxackct, rxunacked, rxVars, handlerVars, net,
                   upcalls, answers>>

Next ==
    \E e \in Endpoint :
        \/ FlowTransmit(e)
        \/ MayTransmit(e)
        \/ \E p \in net[e] : Receive(e, p) \/ ReceiveImplausible(e, p)
        \/ Deliver(e)
        \/ AckTimeout(e)
        \/ \E failed \in BOOLEAN : RtxTimeout(e, failed)
        \/ Stop(e)

Spec == Init /\ [][Next]_vars

(* Timers fire and the event loop finishes the handler it is in; nobody    *)
(* has to transmit, and the network has to deliver nothing.                *)
Fairness ==
    \A e \in Endpoint :
        /\ WF_vars(Deliver(e))
        /\ WF_vars(AckTimeout(e))
        /\ WF_vars(\E failed \in BOOLEAN : RtxTimeout(e, failed))

FairSpec == Spec /\ Fairness

-----------------------------------------------------------------------------
(* Type correctness of the state of a flow. *)
TypeOK ==
    /\ active \in [Endpoint -> BOOLEAN]
    /\ txseq \in [Endpoint -> Nat \ {0}]
    /\ txevtseq \in [Endpoint -> Nat]
    /\ pipe \in [Endpoint -> SUBSET Nat]
    /\ txackseq \in [Endpoint -> Nat]
    /\ txackmask \in [Endpoint -> SUBSET Bits]
    /\ txfltcnt \in [Endpoint -> Nat]
    /\ rtxtimer \in [Endpoint -> BOOLEAN]
    /\ linkstat \in [Endpoint -> {"LinkUp", "LinkStalled", "LinkDown"}]
    /\ cc \in [Endpoint -> CCState]
    /\ rxseq \in [Endpoint -> Nat]
    /\ rxmask \in [Endpoint -> SUBSET Bits]
    /\ rxackseq \in [Endpoint -> Nat]
    /\ rxackct \in [Endpoint -> 0 .. AckctMax]
    /\ rxunacked \in [Endpoint -> 0 .. AckAckPackets]
    /\ acktimer \in [Endpoint -> BOOLEAN]
    /\ rxpkt \in [Endpoint -> Packet]
    /\ rxfresh \in [Endpoint -> BOOLEAN]
    /\ net \in [Endpoint -> SUBSET Packet]
    /\ acked \in [Endpoint -> SUBSET Nat]
    /\ missed \in [Endpoint -> SUBSET Nat]
    /\ delivered \in [Endpoint -> SUBSET Nat]
    /\ acknowledged \in [Endpoint -> SUBSET Nat]
    /\ owed \in [Endpoint -> SUBSET Nat]

(* Replay protection: however the network repeats and reorders packets,    *)
(* and although only SeqMod sequence numbers exist on the wire, the packet *)
(* that Flow::receive is about to pass to flowReceive() was never passed   *)
(* to it before.                                                           *)
AtMostOnce ==
    \A e \in Endpoint : ~Idle(e) => rxpkt[e].seq \notin delivered[e]

(* In-flight accounting: txfltcnt, from which mayTransmit() computes the   *)
(* room in the window, is the number of transmission records marked as     *)
(* being in the pipe, through every loop of receive() and rtxTimeout().    *)
InFlightAccounting ==
    \A e \in Endpoint :
        IsFiniteSet(pipe[e]) /\ txfltcnt[e] = Cardinality(pipe[e])

(* One verdict: a data packet that has been transmitted is in flight,      *)
(* reported acked() or reported missed(), and never two of these, so that  *)
(* the stream layer neither loses track of a packet nor hears of it twice. *)
OneVerdict ==
    \A e \in Endpoint :
        /\ DataSent(e) = pipe[e] \cup acked[e] \cup missed[e]
        /\ pipe[e] \cap (acked[e] \cup missed[e]) = {}
        /\ acked[e] \cap missed[e] = {}

(* The assertion !txevts.head().pipe of the expiry loop: no transmission   *)
(* record is discarded while its packet counts as in flight.               *)
SettledBeforeExpiry ==
    \A e \in Endpoint : pipe[e] \subseteq txevtseq[e] .. txseq[e] - 1

(* Whatever packet arrives next, the loops of receive() index txevts only  *)
(* with sequence numbers that it still holds records for.                  *)
RecordsInRange ==
    \A e \in Endpoint : active[e] /\ Idle(e) =>
        \A p \in net[e] : Authentic(e, p) /\ AckPlausible(e, p) =>
            /\ InOrder(e, p) \cup InferredLost(e, p)
                   \subseteq txevtseq[e] .. txseq[e] - 1
            /\ Stragglers(e, p) \subseteq TxEvtSeqAfter(e, p) .. txseq[e] - 1

(* Acknowledgments are sound: acked() is called only for packets whose     *)
(* receiver's upper layer had them acknowledged.                           *)
AckSound ==
    \A e \in Endpoint : acked[e] \subseteq acknowledged[Peer(e)]

(* The acknowledgment in packet q names sequence number s. *)
Names(q, s) == (q.ackseq - s) % SeqMod <= q.ackct

(* No acknowledgment is forgotten: a packet acknowledged with sendack set  *)
(* has been named in a packet sent since, or the delayed-ack timer is      *)
(* running and the acknowledgment it will send names it.                   *)
AckNotForgotten ==
    \A e \in Endpoint : active[e] =>
        \A s \in owed[e] :
            \/ \E q \in net[Peer(e)] : Names(q, s)
            \/ /\ acktimer[e] /\ rxunacked[e] > 0
               /\ s \in rxackseq[e] - rxackct[e] .. rxackseq[e]

(* While data is in flight on a running flow, the retransmission timer is  *)
(* running, so that its loss cannot go unnoticed.                          *)
RetransmitArmed ==
    \A e \in Endpoint : active[e] /\ txfltcnt[e] > 0 => rtxtimer[e]

(* Every data packet transmitted on a flow that is not stopped gets its    *)
(* verdict in the end: acked() if an acknowledgment arrives, missed() from *)
(* a later acknowledgment or the retransmission timer otherwise.           *)
EventualVerdict ==
    \A e \in Endpoint : \A s \in 1 .. MaxPacketSeq :
        s \in pipe[e] ~> (s \notin pipe[e] \/ ~active[e])

(* An acknowledgment that flowReceive() asked for leaves in the end, by    *)
(* itself or on a data packet.                                             *)
EventualAck ==
    \A e \in Endpoint : \A s \in 1 .. MaxPacketSeq :
        s \in owed[e] ~> (\/ \E q \in net[Peer(e)] : Names(q, s)
                          \/ ~active[e])

(* A sender whose congestion window is full is not blocked for ever: the   *)
(* window reopens, whatever is lost and however the window was cut.        *)
WindowReopens ==
    \A e \in Endpoint :
        ~WindowOpen(cc[e], txfltcnt[e])
            ~> (WindowOpen(cc[e], txfltcnt[e]) \/ ~active[e])
=============================================================================
