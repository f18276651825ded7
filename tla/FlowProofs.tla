----------------------------- MODULE FlowProofs -----------------------------
(***************************************************************************)
(* Theorems about Flow, for every value of its constants.                  *)
(***************************************************************************)
EXTENDS Flow, FiniteSetTheorems, TLAPS

(* What the assumptions say of the constants, in the form the proofs use. *)
LEMMA ConstantFacts ==
    /\ MaskBits \in Nat /\ MaskBits >= 1
    /\ SeqMod \in Nat /\ SeqMod >= 2 /\ SeqMod % 2 = 0
    /\ SeqMod \div 2 \in Nat /\ 2 * (SeqMod \div 2) = SeqMod
    /\ MaskBits <= SeqMod \div 2
    /\ AckMod \in Nat /\ AckMod >= 1
    /\ AckctMax \in Nat /\ AckctMax < MaskBits
    /\ MissThresh \in Nat /\ MissThresh >= 1 /\ MissThresh < MaskBits
    /\ AckAckPackets \in Nat /\ AckAckPackets >= 1
    /\ CwndMin \in Nat /\ CwndMin >= 1 /\ CwndMax \in Nat /\ CwndMin <= CwndMax
    /\ MaxPacketSeq \in Nat
  BY FlowAssumption, CCAssumption

(* The wire carries sequence numbers below SeqMod. *)
LEMMA ModRange ==
    ASSUME NEW n \in Int
    PROVE  n % SeqMod \in 0 .. SeqMod - 1
  BY ConstantFacts

(* The sign extension in Flow::receive yields at most half the sequence    *)
(* space in either direction.                                              *)
LEMMA SeqDiffType ==
    ASSUME NEW wire \in Int, NEW full \in Int
    PROVE  /\ SeqDiff(wire, full) \in Int
           /\ SeqDiff(wire, full) >= -(SeqMod \div 2)
           /\ SeqDiff(wire, full) < SeqMod \div 2
<1>1. wire - full \in Int
  OBVIOUS
<1>2. (wire - full) % SeqMod \in 0 .. SeqMod - 1
  BY <1>1, ModRange
<1> QED
  BY <1>2, ConstantFacts DEF SeqDiff

(* Within half the sequence space the difference is the true one. *)
LEMMA SeqDiffExact ==
    ASSUME NEW wire \in Int, NEW full \in Int,
           wire - full >= -(SeqMod \div 2), wire - full < SeqMod \div 2
    PROVE  SeqDiff(wire, full) = wire - full
<1> DEFINE d == wire - full
<1>1. CASE d >= 0
  <2>1. d % SeqMod = d
    BY <1>1, ConstantFacts
  <2> QED
    BY <2>1, <1>1, ConstantFacts DEF SeqDiff
<1>2. CASE d < 0
  <2>1. d % SeqMod = d + SeqMod
    BY <1>2, ConstantFacts
  <2> QED
    BY <2>1, <1>2, ConstantFacts DEF SeqDiff
<1> QED
  BY <1>1, <1>2

(* Shifting a mask loses the bits beyond its width. *)
LEMMA ShiftType ==
    ASSUME NEW mask, NEW n
    PROVE  Shift(mask, n) \subseteq Bits
  BY DEF Shift

(* A flow has two ends. *)
LEMMA PeerFacts ==
    \A e \in Endpoint : Peer(e) \in Endpoint /\ Peer(e) # e /\ Peer(Peer(e)) = e
  BY FlowAssumption DEF Endpoint, Peer

-----------------------------------------------------------------------------
(* Type correctness.  That the unsigned txfltcnt does not wrap below zero  *)
(* is not inductive by itself: it needs the accounting of the packets in   *)
(* flight, which in turn needs that tx() hands out fresh sequence numbers. *)
PipeBelow == \A e \in Endpoint : \A s \in pipe[e] : s < txseq[e]

FlightInv == TypeOK /\ InFlightAccounting /\ PipeBelow

(* The header that tx() writes is well formed. *)
LEMMA PktType ==
    ASSUME NEW seq \in Nat, NEW ackseq \in Nat, NEW ackct \in 0 .. AckctMax,
           NEW data \in BOOLEAN
    PROVE  /\ Pkt(seq, ackseq, ackct, data) \in Packet
           /\ Pkt(seq, ackseq, ackct, data).seq = seq
           /\ Pkt(seq, ackseq, ackct, data).ackseq = ackseq % SeqMod
           /\ Pkt(seq, ackseq, ackct, data).ackct = ackct
           /\ Pkt(seq, ackseq, ackct, data).data = data
<1>1. ackseq % SeqMod \in 0 .. SeqMod - 1
  BY ModRange
<1> QED
  BY <1>1 DEF Pkt, Packet

(* The congestion window arithmetic stays in the naturals ... *)
LEMMA CCTypes ==
    ASSUME NEW c \in CCState, NEW n \in Nat
    PROVE  /\ CcMayTransmit(c, n) \in CCState
           /\ CcClamp(c) \in CCState
           /\ CcTimeout(c, n) \in CCState
<1>1. c.cwnd \in Nat /\ c.ssthresh \in Nat /\ n \div 2 \in Nat
  BY DEF CCState
<1>2. CcMayTransmit(c, n) \in CCState
  BY <1>1 DEF CcMayTransmit, CCState
<1>3. CcClamp(c) \in CCState
  BY <1>1, ConstantFacts DEF CcClamp, CCState, AtMost
<1>4. CcTimeout(c, n) \in CCState
  BY <1>1, ConstantFacts DEF CcTimeout, CCState, AtLeast
<1> QED
  BY <1>2, <1>3, <1>4

(* ... in every mode, whatever is measured. *)
LEMMA CCMeasured ==
    ASSUME NEW c \in CCState, NEW n \in Nat, NEW m \in Nat, NEW lost,
           NEW x \in Measurement
    PROVE  /\ CcMissed(c, lost, n, x) \in CCState
           /\ CcSlowStart(c, n, x) \in CCState
           /\ CcRoundTrip(c, n, m, x) \in CCState
<1>1. /\ c.cwnd \in Nat /\ c.ssthresh \in Nat /\ c.cwndlim \in BOOLEAN
      /\ c.recovseq \in Nat /\ c.markseq \in Nat /\ c.cwndinc \in {-1, 1}
      /\ x.ontime \in Nat /\ x.expected \in Nat
  BY DEF CCState, Measurement
<1>2. n \div 2 \in Nat /\ c.cwnd \div 2 \in Nat
  BY <1>1
<1>3. /\ \A w \in Nat : [c EXCEPT !.cwnd = w] \in CCState
      /\ \A w \in Nat : [c EXCEPT !.cwnd = w, !.cwndlim = FALSE] \in CCState
      /\ \A w, t \in Nat : [c EXCEPT !.cwnd = w, !.ssthresh = t] \in CCState
      /\ \A w \in Nat : \A i \in {-1, 1} :
            [c EXCEPT !.cwnd = w, !.cwndinc = i] \in CCState
      /\ \A b \in BOOLEAN : [c EXCEPT !.sstoggle = b] \in CCState
  BY DEF CCState
<1>5. CcMissed(c, lost, n, x) \in CCState
  <2>1. CcHalve(c, lost, n) \in CCState
    BY <1>1, <1>2, ConstantFacts DEF CcHalve, CCState, AtLeast
  <2>2. CcExpect(c, lost, x) \in CCState
    BY <1>1, <1>3, ConstantFacts DEF CcExpect, AtLeast
  <2> QED
    BY <2>1, <2>2 DEF CcMissed
<1>6. CcSlowStart(c, n, x) \in CCState
  <2>1. ASSUME NEW g \in CCState
        PROVE  CcStandard(g, n) \in CCState
    BY <2>1 DEF CcStandard, CCState, AtMost
  <2>2. [c EXCEPT !.cwnd = @ + x.ontime] \in CCState
    <3>1. c.cwnd + x.ontime \in Nat
      BY <1>1
    <3>2. [c EXCEPT !.cwnd = c.cwnd + x.ontime] \in CCState
      <4> DEFINE w == c.cwnd + x.ontime
      <4> HIDE DEF w
      <4> QED BY <3>1, <1>3 DEF w
    <3> QED
      BY <3>2
  <2> QED
    BY <1>3, <2>1, <2>2 DEF CcSlowStart
<1>7. CcRoundTrip(c, n, m, x) \in CCState
  <2>1. CcAdditive(c) \in CCState
    <3> DEFINE w == IF c.cwndlim THEN c.cwnd + 1 ELSE c.cwnd
    <3>1. w \in Nat
      BY <1>1
    <3>2. [c EXCEPT !.cwnd = w, !.cwndlim = FALSE] \in CCState
      <4> HIDE DEF w
      <4> QED BY <3>1, <1>3
    <3> QED
      BY <3>2 DEF CcAdditive
  <2>2. CcDelay(c, x) \in CCState
    <3> DEFINE turn == \/ x.trend = "worse"
                       \/ c.cwndinc > 0 /\ c.cwnd >= CwndMax
                       \/ c.cwndinc < 0 /\ c.cwnd <= CwndMin
               wnd == IF ~turn THEN c.cwnd + c.cwndinc
                      ELSE IF c.cwndinc > 0 THEN c.cwnd ELSE c.cwnd + 1
               w == AtMost(AtLeast(wnd, CwndMin), CwndMax)
               i == IF turn THEN -c.cwndinc ELSE c.cwndinc
    <3>1. wnd \in Int
      <4> HIDE DEF turn
      <4> QED BY <1>1
    <3>2. w \in Nat
      <4> HIDE DEF wnd
      <4> QED BY <3>1, ConstantFacts DEF AtMost, AtLeast
    <3>3. i \in {-1, 1}
      <4> HIDE DEF turn
      <4> QED BY <1>1
    <3>4. [c EXCEPT !.cwnd = w, !.cwndinc = i] \in CCState
      <4> HIDE DEF w, i
      <4> QED BY <3>2, <3>3, <1>3
    <3> QED
      BY <3>4 DEF CcDelay
  <2>3. CcVegas(c, x) \in CCState
    <3>1. CASE x.trend = "better" /\ c.cwnd < CwndMax /\ c.cwndlim
      BY <1>1, <3>1 DEF CcVegas, CCState
    <3>2. CASE /\ ~(x.trend = "better" /\ c.cwnd < CwndMax /\ c.cwndlim)
               /\ x.trend = "worse" /\ c.cwnd > CwndMin
      <4>1. c.cwnd - 1 \in Nat /\ AtMost(c.ssthresh, c.cwnd - 1) \in Nat
        BY <1>1, <3>2, ConstantFacts DEF AtMost
      <4> QED
        BY <1>1, <3>2, <4>1 DEF CcVegas, CCState
    <3> QED
      BY <3>1, <3>2 DEF CcVegas
  <2>4. CcGrow(c, x) \in CCState
    BY <2>1, <2>2, <2>3 DEF CcGrow
  <2>5. \A g \in CCState : [g EXCEPT !.markseq = m] \in CCState
    BY DEF CCState
  <2> QED
    BY <2>4, <2>5 DEF CcRoundTrip
<1> QED
  BY <1>5, <1>6, <1>7

(* What Flow::receive computes from an authentic packet is well typed. *)
LEMMA RxTypes ==
    ASSUME FlightInv, NEW e \in Endpoint, NEW p \in net[e], Authentic(e, p)
    PROVE  /\ p \in Packet
           /\ PktDiff(e, p) \in Int
           /\ PktSeq(e, p) = p.seq
           /\ AtLeast(rxseq[e], PktSeq(e, p)) \in Nat
           /\ RxMaskAfter(e, p) \subseteq Bits
<1>1. p \in Packet /\ rxseq[e] \in Nat /\ rxmask[e] \subseteq Bits
  BY DEF FlightInv, TypeOK
<1>2. p.seq \in Nat /\ p.seq % SeqMod \in Int
  BY <1>1, ModRange DEF Packet
<1>3. PktDiff(e, p) \in Int
  BY <1>1, <1>2, SeqDiffType DEF PktDiff
<1>4. PktSeq(e, p) = p.seq
  BY DEF Authentic, RxDec
<1>5. AtLeast(rxseq[e], PktSeq(e, p)) \in Nat
  BY <1>1, <1>2, <1>4 DEF AtLeast
<1>6. RxMaskAfter(e, p) \subseteq Bits
  <2>1. CASE PktDiff(e, p) > 0
    <3>1. 0 \in Bits
      BY ConstantFacts DEF Bits
    <3> QED
      BY <2>1, <3>1, ShiftType DEF RxMaskAfter
  <2>2. CASE ~(PktDiff(e, p) > 0)
    <3>1. -PktDiff(e, p) \in Bits
      BY <2>2, <1>3, ConstantFacts DEF Bits, Authentic, Replayed
    <3> QED
      BY <2>2, <3>1, <1>1 DEF RxMaskAfter
  <2> QED
    BY <2>1, <2>2
<1> QED
  BY <1>1, <1>3, <1>4, <1>5, <1>6

(* What Flow::receive computes from a plausible acknowledgment is well     *)
(* typed, and the newly acknowledged packets fit the advance.              *)
LEMMA AckTypes ==
    ASSUME FlightInv, NEW e \in Endpoint, NEW p \in net[e], AckPlausible(e, p)
    PROVE  /\ AckDiff(e, p) \in Int
           /\ AckSeq(e, p) \in Nat /\ AckSeq(e, p) < txseq[e]
           /\ AckSeq(e, p) = txackseq[e] + AckDiff(e, p)
           /\ p.ackct \in 0 .. AckctMax
           /\ NewInOrder(e, p) \in 0 .. AckctMax + 1
           /\ Advances(e, p) => NewInOrder(e, p) >= 1
           /\ NewInOrder(e, p) <= AtLeast(AckDiff(e, p), 0)
           /\ TxAckSeqAfter(e, p) \in Nat
           /\ TxEvtSeqAfter(e, p) \in Nat
           /\ MaskInOrder(e, p) \subseteq Bits
           /\ StragglerBits(e, p) \subseteq Bits
           /\ NewPackets(e, p) \in Nat
<1>1. /\ p \in Packet /\ txackseq[e] \in Nat /\ txseq[e] \in Nat
      /\ txevtseq[e] \in Nat /\ txackmask[e] \subseteq Bits
  BY DEF FlightInv, TypeOK
<1>2. p.ackseq \in Int /\ p.ackct \in 0 .. AckctMax
  BY <1>1 DEF Packet
<1>3. AckDiff(e, p) \in Int
  BY <1>1, <1>2, SeqDiffType DEF AckDiff
<1>4. /\ AckSeq(e, p) \in Nat /\ AckSeq(e, p) < txseq[e]
      /\ AckSeq(e, p) = txackseq[e] + AckDiff(e, p)
  BY <1>1, <1>3 DEF AckPlausible, AckSeq
<1>5. /\ NewInOrder(e, p) \in 0 .. AckctMax + 1
      /\ Advances(e, p) => NewInOrder(e, p) >= 1
      /\ NewInOrder(e, p) <= AtLeast(AckDiff(e, p), 0)
  BY <1>2, <1>3, ConstantFacts DEF NewInOrder, Advances, AtMost, AtLeast
<1>6. TxAckSeqAfter(e, p) \in Nat
  BY <1>1, <1>4 DEF TxAckSeqAfter
<1>7. TxEvtSeqAfter(e, p) \in Nat
  BY <1>1, <1>4, ConstantFacts DEF TxEvtSeqAfter, AtLeast
<1>8. MaskInOrder(e, p) \subseteq Bits
  <2>1. 0 .. NewInOrder(e, p) - 1 \subseteq Bits
    BY <1>5, ConstantFacts DEF Bits
  <2> QED
    BY <2>1, <1>1, ShiftType DEF MaskInOrder
<1>9. StragglerBits(e, p) \subseteq Bits
  BY DEF StragglerBits
<1>10. NewPackets(e, p) \in Nat
  <2>1. IsFiniteSet(Bits)
    <3>1. 0 \in Int /\ MaskBits - 1 \in Int
      BY ConstantFacts
    <3> QED
      BY <3>1, FS_Interval DEF Bits
  <2>2. Cardinality(StragglerBits(e, p)) \in Nat
    BY <2>1, <1>9, FS_Subset, FS_CardinalityType
  <2> QED
    BY <2>2, <1>5, ConstantFacts DEF NewPackets
<1> QED
  BY <1>2, <1>3, <1>4, <1>5, <1>6, <1>7, <1>8, <1>9, <1>10

(* Counting off some of the packets in flight. *)
LEMMA RemoveSubset ==
    ASSUME NEW S, NEW T \in SUBSET S, IsFiniteSet(S)
    PROVE  /\ IsFiniteSet(T) /\ IsFiniteSet(S \ T)
           /\ Cardinality(S) \in Nat /\ Cardinality(T) \in Nat
           /\ Cardinality(S \ T) = Cardinality(S) - Cardinality(T)
<1>1. S \cap T = T
  OBVIOUS
<1>2. IsFiniteSet(T)
  BY FS_Subset
<1>3. Cardinality(S) \in Nat /\ Cardinality(T) \in Nat
  BY <1>2, FS_CardinalityType
<1>4. IsFiniteSet(S \ T) /\ Cardinality(S \ T) = Cardinality(S) - Cardinality(S \cap T)
  BY FS_Difference
<1> QED
  BY <1>1, <1>2, <1>3, <1>4

(* The packets counted off by receive() are in flight, and no packet is    *)
(* counted off twice.                                                      *)
LEMMA CountedOff ==
    ASSUME FlightInv, NEW e \in Endpoint, NEW p
    PROVE  /\ AckedNow(e, p) \subseteq pipe[e]
           /\ LostNow(e, p) \subseteq pipe[e]
           /\ AckedNow(e, p) \cap LostNow(e, p) = {}
           /\ IsFiniteSet(AckedNow(e, p)) /\ IsFiniteSet(LostNow(e, p))
           /\ Cardinality(AckedNow(e, p)) \in Nat
           /\ Cardinality(LostNow(e, p)) \in Nat
           /\ IsFiniteSet(pipe[e] \ (AckedNow(e, p) \cup LostNow(e, p)))
           /\ Cardinality(pipe[e] \ (AckedNow(e, p) \cup LostNow(e, p)))
                = Cardinality(pipe[e]) - Cardinality(AckedNow(e, p))
                                       - Cardinality(LostNow(e, p))
<1>1. /\ AckedNow(e, p) \subseteq pipe[e] /\ LostNow(e, p) \subseteq pipe[e]
      /\ AckedNow(e, p) \cap LostNow(e, p) = {}
  BY DEF AckedNow, LostNow
<1>2. IsFiniteSet(pipe[e])
  BY DEF FlightInv, InFlightAccounting
<1>3. /\ IsFiniteSet(LostNow(e, p)) /\ Cardinality(LostNow(e, p)) \in Nat
  BY <1>1, <1>2, RemoveSubset
<1> DEFINE rest == pipe[e] \ AckedNow(e, p)
<1>4. /\ IsFiniteSet(AckedNow(e, p)) /\ IsFiniteSet(rest)
      /\ Cardinality(pipe[e]) \in Nat /\ Cardinality(AckedNow(e, p)) \in Nat
      /\ Cardinality(rest) = Cardinality(pipe[e]) - Cardinality(AckedNow(e, p))
  BY <1>1, <1>2, RemoveSubset
<1>5. /\ IsFiniteSet(rest \ LostNow(e, p))
      /\ Cardinality(rest \ LostNow(e, p))
            = Cardinality(rest) - Cardinality(LostNow(e, p))
  <2>1. LostNow(e, p) \in SUBSET rest
    BY <1>1
  <2> HIDE DEF rest
  <2> QED
    BY <2>1, <1>4, RemoveSubset
<1>6. rest \ LostNow(e, p) = pipe[e] \ (AckedNow(e, p) \cup LostNow(e, p))
  OBVIOUS
<1> HIDE DEF rest
<1> QED
  BY <1>1, <1>3, <1>4, <1>5, <1>6

(* The placeholder for "no handler in progress" is a packet. *)
LEMMA NoPacketType == NoPacket \in Packet /\ NoPacket.seq = 0
<1>1. 0 \in 0 .. AckctMax /\ 0 % SeqMod \in 0 .. SeqMod - 1
  BY ConstantFacts, ModRange
<1> QED
  BY <1>1 DEF NoPacket, Pkt, Packet

(* What flushack() and txack() send is well formed. *)
LEMMA FlushTypes ==
    ASSUME FlightInv, NEW e \in Endpoint, NEW n \in Nat
    PROVE  /\ FlushCount(e) \in Nat
           /\ FlushPkts(e) \subseteq Packet
           /\ \A i \in Nat : AckPkt(e, i, n, 0) \in Packet
           /\ \A ct \in 0 .. AckctMax : AckPkt(e, 0, n, ct) \in Packet
<1>1. /\ txseq[e] \in Nat /\ rxackseq[e] \in Nat /\ rxackct[e] \in 0 .. AckctMax
      /\ \A i \in Nat : txseq[e] + i \in Nat
  BY DEF FlightInv, TypeOK
<1>2. FlushPkts(e) \subseteq Packet
  <2>1. \A i \in Nat : \A m \in Nat : \A ct \in 0 .. AckctMax :
            AckPkt(e, i, m, ct) \in Packet
    BY <1>1, PktType DEF AckPkt
  <2>2. AckPkt(e, 0, rxackseq[e], rxackct[e]) \in Packet
    BY <1>1, <2>1
  <2> QED
    BY <2>2 DEF FlushPkts
<1>3. FlushCount(e) \in Nat
  BY DEF FlushCount
<1>4. \A i \in Nat : AckPkt(e, i, n, 0) \in Packet
  <2>1. 0 \in 0 .. AckctMax
    BY ConstantFacts
  <2> QED
    BY <1>1, <2>1, PktType DEF AckPkt
<1>5. \A ct \in 0 .. AckctMax : AckPkt(e, 0, n, ct) \in Packet
  BY <1>1, PktType DEF AckPkt
<1> QED
  BY <1>2, <1>3, <1>4, <1>5

(* Flow::tx keeps the types of what it changes. *)
LEMMA SendTypes ==
    ASSUME FlightInv, NEW e \in Endpoint, NEW pkts \in SUBSET Packet,
           NEW n \in Nat, Send(e, pkts, n)
    PROVE  /\ txseq' \in [Endpoint -> Nat \ {0}]
           /\ net' \in [Endpoint -> SUBSET Packet]
  BY PeerFacts DEF Send, FlightInv, TypeOK

(* The end of Flow::receive keeps the types of what it changes. *)
LEMMA FinishTypes ==
    ASSUME FlightInv, NEW e \in Endpoint, Finish(e)
    PROVE  /\ active' = active /\ txevtseq' = txevtseq /\ pipe' = pipe
           /\ txackseq' = txackseq /\ txackmask' = txackmask
           /\ txfltcnt' = txfltcnt /\ rtxtimer' = rtxtimer
           /\ linkstat' = linkstat /\ rxseq' = rxseq /\ rxmask' = rxmask
           /\ acked' = acked /\ missed' = missed
           /\ cc' \in [Endpoint -> CCState]
           /\ rxpkt' \in [Endpoint -> Packet]
           /\ rxfresh' \in [Endpoint -> BOOLEAN]
           /\ delivered' \in [Endpoint -> SUBSET Nat]
<1>1. /\ cc[e] \in CCState /\ rxpkt[e] \in Packet /\ rxpkt[e].seq \in Nat
      /\ txfltcnt[e] \in Nat
  BY DEF FlightInv, TypeOK, Packet
<1>2. CcMayTransmit(cc[e], txfltcnt[e]) \in CCState
  BY <1>1, CCTypes
<1> QED
  BY <1>1, <1>2, NoPacketType
     DEF Finish, FlightInv, TypeOK, txVars, flightVars, rxVars, upcalls

(* The arguments of Flow::acknowledge are well typed. *)
LEMMA AcknowledgedTypes ==
    ASSUME FlightInv, NEW e \in Endpoint, NEW sendack, Acknowledged(e, sendack)
    PROVE  /\ acknowledged' \in [Endpoint -> SUBSET Nat]
           /\ owed' \in [Endpoint -> SUBSET Nat]
           /\ AckArg(e) \in Nat
<1>1. rxpkt[e].seq \in Nat
  BY DEF FlightInv, TypeOK, Packet
<1>2. AckArg(e) \in Nat
  BY <1>1, ConstantFacts DEF AckArg
<1> QED
  BY <1>1, <1>2 DEF Acknowledged, FlightInv, TypeOK

(* Flow::Flow and Flow::start establish the invariant. *)
LEMMA FlightInit == Init => FlightInv
<1> SUFFICES ASSUME Init PROVE FlightInv
  OBVIOUS
<1>1. 0 \in Bits /\ 0 \in 0 .. AckctMax /\ 0 \in 0 .. AckAckPackets
  BY ConstantFacts DEF Bits
<1>2. \A mode \in CCModes : CcReset(mode) \in CCState
  BY ConstantFacts, CCAssumption DEF CcReset, CCState
<1>3. TypeOK
  BY <1>1, <1>2, NoPacketType DEF Init, TypeOK
<1>4. InFlightAccounting
  BY FS_EmptySet DEF Init, InFlightAccounting
<1>5. PipeBelow
  BY DEF Init, PipeBelow
<1> QED
  BY <1>3, <1>4, <1>5 DEF FlightInv

(* Flow::flowTransmit counts one more packet, with a fresh number. *)
LEMMA FlightTransmit ==
    ASSUME FlightInv, NEW e \in Endpoint, FlowTransmit(e)
    PROVE  FlightInv'
<1>1. /\ txseq[e] \in Nat /\ rxackseq[e] \in Nat /\ rxackct[e] \in 0 .. AckctMax
      /\ IsFiniteSet(pipe[e]) /\ txfltcnt[e] = Cardinality(pipe[e])
  BY DEF FlightInv, TypeOK, InFlightAccounting
<1>2. {Pkt(txseq[e], rxackseq[e], rxackct[e], TRUE)} \subseteq Packet
  BY <1>1, ModRange DEF Pkt, Packet
<1>3. txseq' \in [Endpoint -> Nat \ {0}] /\ net' \in [Endpoint -> SUBSET Packet]
  BY <1>2, SendTypes DEF FlowTransmit
<1>4. TypeOK'
  <2> DEFINE t == acktimer[e] /\ rxunacked[e] = 0
  <2>1. t \in BOOLEAN
    OBVIOUS
  <2>2. acktimer' = [acktimer EXCEPT ![e] = t]
    BY DEF FlowTransmit
  <2>3. acktimer' \in [Endpoint -> BOOLEAN]
    <3> HIDE DEF t
    <3> QED BY <2>1, <2>2 DEF FlightInv, TypeOK
  <2> QED
    BY <1>1, <1>3, <2>3, ConstantFacts
       DEF FlightInv, TypeOK, FlowTransmit, txVars, rxVars, handlerVars,
           upcalls, answers
<1>5. IsFiniteSet(pipe[e] \cup {txseq[e]})
      /\ Cardinality(pipe[e] \cup {txseq[e]}) = Cardinality(pipe[e]) + 1
  <2>1. txseq[e] \notin pipe[e]
    BY <1>1 DEF FlightInv, PipeBelow
  <2> QED
    BY <1>1, <2>1, FS_AddElement
<1>6. InFlightAccounting'
  BY <1>1, <1>5 DEF FlightInv, TypeOK, InFlightAccounting, FlowTransmit
<1>7. PipeBelow'
  BY DEF FlightInv, TypeOK, PipeBelow, FlowTransmit, Send
<1> QED
  BY <1>4, <1>6, <1>7 DEF FlightInv

(* Flow::receive counts off each packet it reports, once. *)
LEMMA FlightReceive ==
    ASSUME FlightInv, NEW e \in Endpoint, NEW p \in net[e], Receive(e, p)
    PROVE  FlightInv'
<1>1. Authentic(e, p) /\ AckPlausible(e, p)
  BY DEF Receive
<1>2. /\ p \in Packet /\ AtLeast(rxseq[e], PktSeq(e, p)) \in Nat
      /\ RxMaskAfter(e, p) \subseteq Bits
  BY <1>1, RxTypes
<1>3. /\ TxAckSeqAfter(e, p) \in Nat /\ TxEvtSeqAfter(e, p) \in Nat
      /\ MaskInOrder(e, p) \cup StragglerBits(e, p) \subseteq Bits
      /\ NewPackets(e, p) \in Nat /\ AckSeq(e, p) \in Nat
  BY <1>1, AckTypes
<1>4. ASSUME NEW m \in Measurements(cc[e], NewPackets(e, p))
      PROVE  CcAfter(e, p, m) \in CCState
  <2> DEFINE cut == CcMissed(cc[e], LostNow(e, p), txseq[e], m)
             grown == CcSlowStart(cut, NewPackets(e, p), m)
             trip == CcRoundTrip(grown, AckSeq(e, p), txseq[e], m)
  <2>1. cc[e] \in CCState /\ txseq[e] \in Nat
    BY DEF FlightInv, TypeOK
  <2>6. m \in Measurement
    BY <1>3, <2>1 DEF Measurements, Measurement, CCState
  <2>2. cut \in CCState
    BY <2>1, <2>6, CCMeasured
  <2>3. grown \in CCState
    <3> HIDE DEF cut
    <3> QED BY <2>2, <2>6, <1>3, CCMeasured
  <2>4. trip \in CCState
    <3> HIDE DEF grown
    <3> QED BY <2>1, <2>3, <2>6, <1>3, CCMeasured
  <2>5. CcClamp(trip) \in CCState
    <3> HIDE DEF trip
    <3> QED BY <2>1, <2>4, CCTypes
  <2> QED
    BY <2>5 DEF CcAfter
<1>5. /\ AckedNow(e, p) \subseteq Nat /\ LostNow(e, p) \subseteq Nat
      /\ RtxTimerAfter(e, p) \in BOOLEAN
  <2>1. AckedNow(e, p) \subseteq Nat /\ LostNow(e, p) \subseteq Nat
    BY CountedOff DEF FlightInv, TypeOK
  <2>2. rtxtimer[e] \in BOOLEAN
    BY DEF FlightInv, TypeOK
  <2>3. RtxTimerAfter(e, p) \in BOOLEAN
    <3> DEFINE n == Cardinality((pipe[e] \cap InOrder(e, p)) \cup LostNow(e, p))
    <3>1. (txfltcnt[e] > n) \in BOOLEAN
      OBVIOUS
    <3>2. CASE Advances(e, p)
      BY <3>1, <3>2 DEF RtxTimerAfter
    <3>3. CASE ~Advances(e, p)
      BY <2>2, <3>3 DEF RtxTimerAfter
    <3> QED
      BY <3>2, <3>3
  <2> QED
    BY <2>1, <2>3
<1> DEFINE rest == pipe[e] \ (AckedNow(e, p) \cup LostNow(e, p))
           left == txfltcnt[e] - Cardinality(AckedNow(e, p)) - Cardinality(LostNow(e, p))
<1>6. IsFiniteSet(rest) /\ Cardinality(rest) = left /\ left \in Nat
  <2>1. txfltcnt[e] = Cardinality(pipe[e])
    BY DEF FlightInv, InFlightAccounting
  <2>2. IsFiniteSet(rest)
    BY CountedOff
  <2>3. Cardinality(rest) \in Nat
    BY <2>2, FS_CardinalityType
  <2> QED
    BY <2>1, <2>2, <2>3, CountedOff
<1>7. TypeOK'
  BY <1>2, <1>3, <1>4, <1>5, <1>6 DEF FlightInv, TypeOK, Receive, ackVars, answers
<1>8. InFlightAccounting'
  BY <1>6 DEF FlightInv, TypeOK, InFlightAccounting, Receive
<1>9. PipeBelow'
  BY DEF FlightInv, TypeOK, PipeBelow, Receive
<1> QED
  BY <1>7, <1>8, <1>9 DEF FlightInv

(* Handlers that leave the packets in flight alone keep their accounting. *)
LEMMA FlightUntouched ==
    ASSUME FlightInv, pipe' = pipe, txfltcnt' = txfltcnt,
           \A e \in Endpoint : txseq'[e] >= txseq[e], TypeOK'
    PROVE  FlightInv'
<1>1. InFlightAccounting'
  BY DEF FlightInv, InFlightAccounting
<1>2. PipeBelow'
  <2> SUFFICES ASSUME NEW e \in Endpoint, NEW s \in pipe[e] PROVE s < txseq'[e]
    BY DEF PipeBelow
  <2> QED
    BY DEF FlightInv, TypeOK, PipeBelow
<1> QED
  BY <1>1, <1>2 DEF FlightInv

(* Sending never takes a sequence number back. *)
LEMMA SendGrows ==
    ASSUME FlightInv, NEW e \in Endpoint, NEW pkts, NEW n \in Nat, Send(e, pkts, n)
    PROVE  \A f \in Endpoint : txseq'[f] >= txseq[f]
  BY DEF FlightInv, TypeOK, Send

(* Flow::mayTransmit only touches the congestion state. *)
LEMMA FlightMayTransmit ==
    ASSUME FlightInv, NEW e \in Endpoint, MayTransmit(e)
    PROVE  FlightInv'
<1>1. CcMayTransmit(cc[e], txfltcnt[e]) \in CCState
  BY CCTypes DEF FlightInv, TypeOK
<1>2. TypeOK'
  BY <1>1 DEF FlightInv, TypeOK, MayTransmit, txVars, flightVars, ackVars,
              rxVars, handlerVars, upcalls, answers
<1>3. pipe' = pipe /\ txfltcnt' = txfltcnt /\ txseq' = txseq
  BY DEF MayTransmit, flightVars
<1>4. \A f \in Endpoint : txseq'[f] >= txseq[f]
  BY <1>3 DEF FlightInv, TypeOK
<1> QED
  BY <1>2, <1>3, <1>4, FlightUntouched

(* Flow::receive of an implausible acknowledgment only touches the replay  *)
(* window.                                                                 *)
LEMMA FlightImplausible ==
    ASSUME FlightInv, NEW e \in Endpoint, NEW p \in net[e], ReceiveImplausible(e, p)
    PROVE  FlightInv'
<1>1. /\ AtLeast(rxseq[e], PktSeq(e, p)) \in Nat
      /\ RxMaskAfter(e, p) \subseteq Bits
  BY RxTypes DEF ReceiveImplausible
<1>2. TypeOK'
  BY <1>1 DEF FlightInv, TypeOK, ReceiveImplausible, txVars, flightVars,
              ackVars, handlerVars, upcalls, answers
<1>3. pipe' = pipe /\ txfltcnt' = txfltcnt /\ txseq' = txseq
  BY DEF ReceiveImplausible, flightVars
<1>4. \A f \in Endpoint : txseq'[f] >= txseq[f]
  BY <1>3 DEF FlightInv, TypeOK
<1> QED
  BY <1>2, <1>3, <1>4, FlightUntouched

(* The end of Flow::receive, common to all the outcomes of the upcall:     *)
(* what remains is what acknowledge() does to the acknowledgment state.    *)
LEMMA FlightFinish ==
    ASSUME FlightInv, NEW e \in Endpoint, Finish(e),
           txseq' \in [Endpoint -> Nat \ {0}], net' \in [Endpoint -> SUBSET Packet],
           \A f \in Endpoint : txseq'[f] >= txseq[f],
           rxackseq' \in [Endpoint -> Nat],
           rxackct' \in [Endpoint -> 0 .. AckctMax],
           rxunacked' \in [Endpoint -> 0 .. AckAckPackets],
           acktimer' \in [Endpoint -> BOOLEAN],
           acknowledged' \in [Endpoint -> SUBSET Nat],
           owed' \in [Endpoint -> SUBSET Nat]
    PROVE  FlightInv'
<1>1. TypeOK'
  BY FinishTypes DEF FlightInv, TypeOK
<1>2. pipe' = pipe /\ txfltcnt' = txfltcnt
  BY FinishTypes
<1> QED
  BY <1>1, <1>2, FlightUntouched

(* flowReceive() refuses the packet: acknowledge() is not called. *)
LEMMA FlightRefused ==
    ASSUME FlightInv, NEW e \in Endpoint, DeliverRefused(e)
    PROVE  FlightInv'
<1>1. /\ Finish(e) /\ txseq' = txseq /\ net' = net
      /\ rxackseq' = rxackseq /\ rxackct' = rxackct /\ rxunacked' = rxunacked
      /\ acktimer' = acktimer /\ acknowledged' = acknowledged /\ owed' = owed
  BY DEF DeliverRefused, ackVars
<1>2. /\ txseq \in [Endpoint -> Nat \ {0}] /\ net \in [Endpoint -> SUBSET Packet]
      /\ rxackseq \in [Endpoint -> Nat] /\ rxackct \in [Endpoint -> 0 .. AckctMax]
      /\ rxunacked \in [Endpoint -> 0 .. AckAckPackets]
      /\ acktimer \in [Endpoint -> BOOLEAN]
      /\ acknowledged \in [Endpoint -> SUBSET Nat] /\ owed \in [Endpoint -> SUBSET Nat]
  BY DEF FlightInv, TypeOK
<1>3. \A f \in Endpoint : txseq[f] >= txseq[f]
  BY <1>2
<1> QED
  BY <1>1, <1>2, <1>3, FlightFinish

(* acknowledge() of the sequence number it already is at does nothing. *)
LEMMA FlightSame ==
    ASSUME FlightInv, NEW e \in Endpoint, NEW sendack, DeliverSame(e, sendack)
    PROVE  FlightInv'
<1>1. /\ Finish(e) /\ txseq' = txseq /\ net' = net
      /\ rxackseq' = rxackseq /\ rxackct' = rxackct /\ rxunacked' = rxunacked
      /\ acktimer' = acktimer /\ Acknowledged(e, sendack)
  BY DEF DeliverSame, ackVars
<1>2. /\ txseq \in [Endpoint -> Nat \ {0}] /\ net \in [Endpoint -> SUBSET Packet]
      /\ rxackseq \in [Endpoint -> Nat] /\ rxackct \in [Endpoint -> 0 .. AckctMax]
      /\ rxunacked \in [Endpoint -> 0 .. AckAckPackets]
      /\ acktimer \in [Endpoint -> BOOLEAN]
  BY DEF FlightInv, TypeOK
<1>3. \A f \in Endpoint : txseq[f] >= txseq[f]
  BY <1>2
<1>4. acknowledged' \in [Endpoint -> SUBSET Nat] /\ owed' \in [Endpoint -> SUBSET Nat]
  BY <1>1, AcknowledgedTypes
<1> QED
  BY <1>1, <1>2, <1>3, <1>4, FlightFinish

(* The packets that flushack() and txack() send are well formed. *)
LEMMA OutOfOrderAcks ==
    ASSUME FlightInv, NEW e \in Endpoint, NEW sendack, AckArg(e) \in Nat
    PROVE  /\ FlushPkts(e) \cup
                 (IF sendack THEN {AckPkt(e, FlushCount(e), AckArg(e), 0)} ELSE {})
               \in SUBSET Packet
           /\ FlushCount(e) + (IF sendack THEN 1 ELSE 0) \in Nat
<1>1. /\ FlushCount(e) \in Nat /\ FlushPkts(e) \subseteq Packet
      /\ \A i \in Nat : AckPkt(e, i, AckArg(e), 0) \in Packet
  BY FlushTypes
<1>2. AckPkt(e, FlushCount(e), AckArg(e), 0) \in Packet
  BY <1>1
<1> QED
  BY <1>1, <1>2

(* acknowledge() of the next packet in order. *)
LEMMA FlightInOrder ==
    ASSUME FlightInv, NEW e \in Endpoint, NEW sendack \in BOOLEAN,
           DeliverInOrder(e, sendack)
    PROVE  FlightInv'
<1> DEFINE ct == AtMost(rxackct[e] + 1, AckctMax)
           count == rxunacked[e] + 1
<1>1. /\ Finish(e) /\ Acknowledged(e, sendack)
      /\ rxackseq' = [rxackseq EXCEPT ![e] = AckArg(e)]
      /\ rxackct' = [rxackct EXCEPT ![e] = ct]
  BY DEF DeliverInOrder
<1>2. /\ acknowledged' \in [Endpoint -> SUBSET Nat]
      /\ owed' \in [Endpoint -> SUBSET Nat] /\ AckArg(e) \in Nat
  BY <1>1, AcknowledgedTypes
<1>3. /\ txseq \in [Endpoint -> Nat \ {0}] /\ net \in [Endpoint -> SUBSET Packet]
      /\ rxackseq \in [Endpoint -> Nat] /\ rxackct \in [Endpoint -> 0 .. AckctMax]
      /\ rxunacked \in [Endpoint -> 0 .. AckAckPackets]
      /\ acktimer \in [Endpoint -> BOOLEAN]
  BY DEF FlightInv, TypeOK
<1>4. ct \in 0 .. AckctMax
  BY <1>3, ConstantFacts DEF AtMost
<1>5. /\ rxackseq' \in [Endpoint -> Nat] /\ rxackct' \in [Endpoint -> 0 .. AckctMax]
  <2> HIDE DEF ct
  <2> QED BY <1>1, <1>2, <1>3, <1>4
<1>6. CASE /\ count < AckAckPackets
           /\ rxunacked' = [rxunacked EXCEPT ![e] = count]
           /\ acktimer' = [acktimer EXCEPT ![e] = AckTimerAfter(e, sendack)]
           /\ UNCHANGED <<txseq, net>>
  <2>1. rxunacked' \in [Endpoint -> 0 .. AckAckPackets]
    BY <1>3, <1>6, ConstantFacts
  <2>2. acktimer' \in [Endpoint -> BOOLEAN]
    <3> DEFINE t == acktimer[e] \/ sendack
    <3>1. t \in BOOLEAN /\ acktimer' = [acktimer EXCEPT ![e] = t]
      BY <1>6 DEF AckTimerAfter
    <3> HIDE DEF t
    <3> QED BY <3>1, <1>3
  <2>3. /\ txseq' \in [Endpoint -> Nat \ {0}] /\ net' \in [Endpoint -> SUBSET Packet]
        /\ \A f \in Endpoint : txseq'[f] >= txseq[f]
    BY <1>3, <1>6
  <2> QED
    BY <1>1, <1>2, <1>5, <2>1, <2>2, <2>3, FlightFinish
<1>7. CASE /\ count >= AckAckPackets
           /\ Send(e, {AckPkt(e, 0, AckArg(e), ct)}, 1)
           /\ rxunacked' = [rxunacked EXCEPT ![e] = 0]
           /\ acktimer' = [acktimer EXCEPT ![e] = FALSE]
  <2>1. {AckPkt(e, 0, AckArg(e), ct)} \in SUBSET Packet
    <3> HIDE DEF ct
    <3> QED BY <1>2, <1>4, FlushTypes
  <2>2. /\ txseq' \in [Endpoint -> Nat \ {0}] /\ net' \in [Endpoint -> SUBSET Packet]
    <3> HIDE DEF ct
    <3> QED BY <1>7, <2>1, SendTypes
  <2>3. \A f \in Endpoint : txseq'[f] >= txseq[f]
    BY <1>7, SendGrows
  <2>4. rxunacked' \in [Endpoint -> 0 .. AckAckPackets]
    BY <1>3, <1>7, ConstantFacts
  <2>5. acktimer' \in [Endpoint -> BOOLEAN]
    BY <1>3, <1>7
  <2> QED
    BY <1>1, <1>2, <1>5, <2>2, <2>3, <2>4, <2>5, FlightFinish
<1> QED
  BY <1>6, <1>7 DEF DeliverInOrder

(* acknowledge() of a packet beyond a gap, or from before rxackseq. *)
LEMMA FlightOutOfOrder ==
    ASSUME FlightInv, NEW e \in Endpoint, NEW sendack \in BOOLEAN,
           DeliverAfterGap(e, sendack) \/ DeliverLate(e, sendack)
    PROVE  FlightInv'
<1> DEFINE pkts == FlushPkts(e) \cup
              (IF sendack THEN {AckPkt(e, FlushCount(e), AckArg(e), 0)} ELSE {})
           n == FlushCount(e) + (IF sendack THEN 1 ELSE 0)
<1>1. /\ Finish(e) /\ Acknowledged(e, sendack) /\ Send(e, pkts, n)
      /\ rxunacked' = [rxunacked EXCEPT ![e] = 0]
      /\ acktimer' = [acktimer EXCEPT ![e] = FALSE]
      /\ \/ /\ rxackseq' = [rxackseq EXCEPT ![e] = AckArg(e)]
            /\ rxackct' = [rxackct EXCEPT ![e] = 0]
         \/ UNCHANGED <<rxackseq, rxackct>>
  BY DEF DeliverAfterGap, DeliverLate
<1>2. /\ acknowledged' \in [Endpoint -> SUBSET Nat]
      /\ owed' \in [Endpoint -> SUBSET Nat] /\ AckArg(e) \in Nat
  BY <1>1, AcknowledgedTypes
<1>3. /\ rxackseq \in [Endpoint -> Nat] /\ rxackct \in [Endpoint -> 0 .. AckctMax]
      /\ rxunacked \in [Endpoint -> 0 .. AckAckPackets]
      /\ acktimer \in [Endpoint -> BOOLEAN]
  BY DEF FlightInv, TypeOK
<1>4. pkts \in SUBSET Packet /\ n \in Nat
  BY <1>2, OutOfOrderAcks
<1>5. /\ txseq' \in [Endpoint -> Nat \ {0}] /\ net' \in [Endpoint -> SUBSET Packet]
      /\ \A f \in Endpoint : txseq'[f] >= txseq[f]
  <2> HIDE DEF pkts, n
  <2> QED BY <1>1, <1>4, SendTypes, SendGrows
<1>6. /\ rxackseq' \in [Endpoint -> Nat] /\ rxackct' \in [Endpoint -> 0 .. AckctMax]
      /\ rxunacked' \in [Endpoint -> 0 .. AckAckPackets]
      /\ acktimer' \in [Endpoint -> BOOLEAN]
  BY <1>1, <1>2, <1>3, ConstantFacts
<1> QED
  BY <1>1, <1>2, <1>5, <1>6, FlightFinish

(* Flow::ackTimeout sends at most one packet. *)
LEMMA FlightAckTimeout ==
    ASSUME FlightInv, NEW e \in Endpoint, AckTimeout(e)
    PROVE  FlightInv'
<1>1. FlushPkts(e) \in SUBSET Packet /\ FlushCount(e) \in Nat
  <2>1. 0 \in Nat
    OBVIOUS
  <2> QED
    BY <2>1, FlushTypes
<1>2. Send(e, FlushPkts(e), FlushCount(e))
  BY DEF AckTimeout
<1>3. /\ txseq' \in [Endpoint -> Nat \ {0}] /\ net' \in [Endpoint -> SUBSET Packet]
      /\ \A f \in Endpoint : txseq'[f] >= txseq[f]
  <2>1. /\ txseq' \in [Endpoint -> Nat \ {0}]
        /\ net' \in [Endpoint -> SUBSET Packet]
    BY <1>1, <1>2, SendTypes
  <2>2. \A f \in Endpoint : txseq'[f] >= txseq[f]
    BY <1>1, <1>2, SendGrows
  <2> QED
    BY <2>1, <2>2
<1>4. TypeOK'
  <2>1. /\ rxunacked' = [rxunacked EXCEPT ![e] = 0]
        /\ acktimer' = [acktimer EXCEPT ![e] = FALSE]
        /\ UNCHANGED <<active, txVars, flightVars, cc, rxackseq, rxackct,
                       rxVars, handlerVars, upcalls, answers>>
    BY DEF AckTimeout
  <2> QED
    BY <1>3, <2>1, ConstantFacts
       DEF FlightInv, TypeOK, txVars, flightVars, rxVars, handlerVars,
           upcalls, answers
<1>5. pipe' = pipe /\ txfltcnt' = txfltcnt
  BY DEF AckTimeout, flightVars
<1> QED
  BY <1>3, <1>4, <1>5, FlightUntouched

(* Flow::rtxTimeout counts off every packet in flight. *)
LEMMA FlightRtxTimeout ==
    ASSUME FlightInv, NEW e \in Endpoint, NEW failed, RtxTimeout(e, failed)
    PROVE  FlightInv'
<1>1. /\ txfltcnt[e] = Cardinality(pipe[e]) /\ txfltcnt[e] \in Nat
      /\ cc[e] \in CCState /\ pipe[e] \subseteq Nat
  BY DEF FlightInv, TypeOK, InFlightAccounting
<1>2. CcTimeout(cc[e], txfltcnt[e]) \in CCState
  BY <1>1, CCTypes
<1>3. txfltcnt[e] - Cardinality(pipe[e]) = 0
  BY <1>1
<1>4. TypeOK'
  BY <1>1, <1>2, <1>3
     DEF FlightInv, TypeOK, RtxTimeout, ackVars, rxVars, handlerVars, answers
<1>5. InFlightAccounting'
  BY <1>3, FS_EmptySet DEF FlightInv, TypeOK, InFlightAccounting, RtxTimeout
<1>6. PipeBelow'
  BY DEF FlightInv, TypeOK, PipeBelow, RtxTimeout
<1> QED
  BY <1>4, <1>5, <1>6 DEF FlightInv

(* Flow::stop leaves the packets in flight as they are. *)
LEMMA FlightStop ==
    ASSUME FlightInv, NEW e \in Endpoint, Stop(e)
    PROVE  FlightInv'
<1>1. TypeOK'
  BY DEF FlightInv, TypeOK, Stop, rxVars, handlerVars, upcalls, answers
<1>2. pipe' = pipe /\ txfltcnt' = txfltcnt /\ txseq' = txseq
  BY DEF Stop
<1>3. \A f \in Endpoint : txseq'[f] >= txseq[f]
  BY <1>2 DEF FlightInv, TypeOK
<1> QED
  BY <1>1, <1>2, <1>3, FlightUntouched

(* sendack, the outcome of flowReceive(), is Boolean. *)
LEMMA SendAckType ==
    ASSUME FlightInv, NEW e \in Endpoint, NEW sendack \in SendAckChoices(e)
    PROVE  sendack \in BOOLEAN
<1>1. rxpkt[e].data \in BOOLEAN
  BY DEF FlightInv, TypeOK, Packet
<1> QED
  BY <1>1, Zenon DEF SendAckChoices

(* Every handler keeps the types and the in-flight accounting. *)
LEMMA FlightNext ==
    ASSUME FlightInv, [Next]_vars
    PROVE  FlightInv'
<1>1. CASE UNCHANGED vars
  <2>1. TypeOK'
    BY <1>1 DEF FlightInv, TypeOK, vars, txVars, flightVars, ackVars, rxVars,
                handlerVars, upcalls, answers
  <2>2. pipe' = pipe /\ txfltcnt' = txfltcnt /\ txseq' = txseq
    BY <1>1 DEF vars, flightVars
  <2>3. \A f \in Endpoint : txseq'[f] >= txseq[f]
    BY <2>2 DEF FlightInv, TypeOK
  <2> QED
    BY <2>1, <2>2, <2>3, FlightUntouched
<1>2. ASSUME NEW e \in Endpoint, FlowTransmit(e) PROVE FlightInv'
  BY <1>2, FlightTransmit
<1>3. ASSUME NEW e \in Endpoint, MayTransmit(e) PROVE FlightInv'
  BY <1>3, FlightMayTransmit
<1>4. ASSUME NEW e \in Endpoint, NEW p \in net[e],
             Receive(e, p) \/ ReceiveImplausible(e, p)
      PROVE  FlightInv'
  BY <1>4, FlightReceive, FlightImplausible
<1>5. ASSUME NEW e \in Endpoint, Deliver(e) PROVE FlightInv'
  <2>1. ASSUME NEW sendack \in SendAckChoices(e),
               \/ DeliverInOrder(e, sendack) \/ DeliverAfterGap(e, sendack)
               \/ DeliverLate(e, sendack) \/ DeliverSame(e, sendack)
        PROVE  FlightInv'
    <3>1. sendack \in BOOLEAN
      BY SendAckType
    <3> QED
      BY <2>1, <3>1, FlightInOrder, FlightOutOfOrder, FlightSame
  <2> QED
    BY <1>5, <2>1, FlightRefused DEF Deliver
<1>6. ASSUME NEW e \in Endpoint, AckTimeout(e) PROVE FlightInv'
  BY <1>6, FlightAckTimeout
<1>7. ASSUME NEW e \in Endpoint, NEW failed \in BOOLEAN, RtxTimeout(e, failed)
      PROVE  FlightInv'
  BY <1>7, FlightRtxTimeout
<1>8. ASSUME NEW e \in Endpoint, Stop(e) PROVE FlightInv'
  BY <1>8, FlightStop
<1> QED
  BY <1>1, <1>2, <1>3, <1>4, <1>5, <1>6, <1>7, <1>8 DEF Next

(* The types and the in-flight accounting hold on every flow. *)
THEOREM FlightCorrect == Spec => []FlightInv
<1>1. Init => FlightInv
  BY FlightInit
<1>2. FlightInv /\ [Next]_vars => FlightInv'
  BY FlightNext
<1> QED
  BY <1>1, <1>2, PTL DEF Spec

(* Type correctness, for every size of mask, window and sequence space; in *)
(* particular the unsigned txfltcnt is never decremented below zero.       *)
THEOREM TypeCorrect == Spec => []TypeOK
<1>1. FlightInv => TypeOK
  BY DEF FlightInv
<1> QED
  BY <1>1, FlightCorrect, PTL

(* txfltcnt, from which mayTransmit() computes the room in the window, is  *)
(* always the number of packets in flight.                                 *)
THEOREM FlightAccounted == Spec => []InFlightAccounting
<1>1. FlightInv => InFlightAccounting
  BY DEF FlightInv
<1> QED
  BY <1>1, FlightCorrect, PTL

-----------------------------------------------------------------------------
(* Replay protection.  The strengthening says what the pair (rxseq,        *)
(* rxmask) remembers: a packet that was ever accepted is at or before      *)
(* rxseq and either marked in rxmask or too old for it.                    *)
Seen(e, s) ==
    /\ s <= rxseq[e]
    /\ s <= rxseq[e] - MaskBits \/ rxseq[e] - s \in rxmask[e]

ReplayInv ==
    /\ \A e \in Endpoint :
          \A s \in delivered[e] \cup {0, rxpkt[e].seq} : Seen(e, s)
    /\ AtMostOnce

(* Recording an authentic packet keeps what the replay window remembers,   *)
(* adds the packet, and the packet was not remembered before.              *)
LEMMA WindowRemembers ==
    ASSUME FlightInv, NEW e \in Endpoint, NEW p \in net[e], Authentic(e, p),
           rxseq' = [rxseq EXCEPT ![e] = AtLeast(@, PktSeq(e, p))],
           rxmask' = [rxmask EXCEPT ![e] = RxMaskAfter(e, p)]
    PROVE  /\ \A f \in Endpoint : \A s \in Nat : Seen(f, s) => Seen(f, s)'
           /\ Seen(e, p.seq)'
           /\ ~Seen(e, p.seq)
<1> DEFINE d == PktDiff(e, p)
<1>1. /\ d \in Int /\ PktSeq(e, p) = p.seq /\ p \in Packet
  BY RxTypes
<1>2. /\ p.seq \in Nat /\ p.seq = rxseq[e] + d
      /\ rxseq[e] \in Nat /\ rxmask[e] \subseteq Bits
  BY <1>1 DEF Packet, PktSeq, FlightInv, TypeOK
<1>3. ~Replayed(e, p)
  BY DEF Authentic
<1>4. /\ rxseq' \in [Endpoint -> Nat] /\ rxseq'[e] = AtLeast(rxseq[e], p.seq)
      /\ rxmask'[e] = RxMaskAfter(e, p)
      /\ \A f \in Endpoint : f # e => rxseq'[f] = rxseq[f] /\ rxmask'[f] = rxmask[f]
  BY <1>1, <1>2 DEF FlightInv, TypeOK, AtLeast
<1>5. ~Seen(e, p.seq)
  <2>1. rxseq[e] - p.seq = -d
    BY <1>1, <1>2
  <2> QED
    BY <1>1, <1>2, <1>3, <2>1, ConstantFacts DEF Seen, Replayed
<1>6. CASE d > 0
  <2>1. rxseq'[e] = rxseq[e] + d /\ rxmask'[e] = Shift(rxmask[e], d) \cup {0}
    BY <1>1, <1>2, <1>4, <1>6 DEF AtLeast, RxMaskAfter
  <2>2. Seen(e, p.seq)'
    BY <1>2, <2>1 DEF Seen
  <2>3. ASSUME NEW s \in Nat, Seen(e, s) PROVE Seen(e, s)'
    <3>1. CASE s <= rxseq[e] - MaskBits
      BY <3>1, <2>1, <1>1, <1>2, <1>6, ConstantFacts DEF Seen
    <3>2. CASE rxseq[e] - s \in rxmask[e] /\ s > rxseq'[e] - MaskBits
      <4>1. (rxseq[e] - s) + d \in Bits
        BY <3>2, <2>1, <2>3, <1>1, <1>2, <1>6, ConstantFacts DEF Bits, Seen
      <4>2. rxseq'[e] - s = (rxseq[e] - s) + d
        BY <2>1, <1>1, <1>2
      <4>3. rxseq'[e] - s \in rxmask'[e]
        BY <4>1, <4>2, <3>2, <2>1 DEF Shift
      <4> QED
        BY <4>3, <2>1, <2>3, <1>1, <1>2, <1>6 DEF Seen
    <3> QED
      BY <3>1, <3>2, <2>1, <2>3, <1>1, <1>2, <1>6, ConstantFacts DEF Seen
  <2> QED
    BY <1>4, <1>5, <2>2, <2>3 DEF Seen
<1>7. CASE ~(d > 0)
  <2>1. rxseq'[e] = rxseq[e] /\ rxmask'[e] = rxmask[e] \cup {-d}
    BY <1>1, <1>2, <1>4, <1>7 DEF AtLeast, RxMaskAfter
  <2>2. Seen(e, p.seq)'
    <3>1. rxseq'[e] - p.seq = -d
      BY <1>1, <1>2, <2>1
    <3> QED
      BY <1>1, <1>2, <1>7, <2>1, <3>1 DEF Seen
  <2> QED
    BY <1>4, <1>5, <2>1, <2>2 DEF Seen
<1> QED
  BY <1>6, <1>7

(* A handler that neither records nor delivers a packet changes nothing    *)
(* that replay protection is about.                                        *)
LEMMA ReplayUntouched ==
    ASSUME ReplayInv, UNCHANGED <<rxseq, rxmask, rxpkt, delivered>>
    PROVE  ReplayInv'
  BY DEF ReplayInv, Seen, AtMostOnce, Idle

(* The end of Flow::receive: the packet counts as delivered. *)
LEMMA ReplayFinish ==
    ASSUME FlightInv, ReplayInv, NEW e \in Endpoint, Finish(e)
    PROVE  ReplayInv'
<1>1. /\ rxseq' = rxseq /\ rxmask' = rxmask
      /\ rxpkt' = [rxpkt EXCEPT ![e] = NoPacket]
      /\ delivered' = [delivered EXCEPT ![e] = @ \cup {rxpkt[e].seq}]
  BY DEF Finish, rxVars
<1>2. /\ rxpkt \in [Endpoint -> Packet] /\ delivered \in [Endpoint -> SUBSET Nat]
  BY DEF FlightInv, TypeOK
<1>3. \A f \in Endpoint :
          delivered'[f] \cup {0, rxpkt'[f].seq}
              \subseteq delivered[f] \cup {0, rxpkt[f].seq}
  BY <1>1, <1>2, NoPacketType
<1>4. \A f \in Endpoint :
          \A s \in delivered'[f] \cup {0, rxpkt'[f].seq} : Seen(f, s)'
  BY <1>1, <1>3 DEF ReplayInv, Seen
<1>5. AtMostOnce'
  <2> SUFFICES ASSUME NEW f \in Endpoint, rxpkt'[f] # NoPacket
               PROVE  rxpkt'[f].seq \notin delivered'[f]
    BY DEF AtMostOnce, Idle
  <2>1. f # e
    BY <1>1, <1>2
  <2>2. rxpkt'[f] = rxpkt[f] /\ delivered'[f] = delivered[f]
    BY <1>1, <1>2, <2>1
  <2> QED
    BY <2>2 DEF ReplayInv, AtMostOnce, Idle
<1> QED
  BY <1>4, <1>5 DEF ReplayInv

(* Flow::receive up to the upcall: the packet is new. *)
LEMMA ReplayReceive ==
    ASSUME FlightInv, ReplayInv, NEW e \in Endpoint, NEW p \in net[e], Receive(e, p)
    PROVE  ReplayInv'
<1>1. /\ Authentic(e, p)
      /\ rxseq' = [rxseq EXCEPT ![e] = AtLeast(@, PktSeq(e, p))]
      /\ rxmask' = [rxmask EXCEPT ![e] = RxMaskAfter(e, p)]
      /\ rxpkt' = [rxpkt EXCEPT ![e] = p] /\ delivered' = delivered
  BY DEF Receive, answers
<1>2. /\ \A f \in Endpoint : \A s \in Nat : Seen(f, s) => Seen(f, s)'
      /\ Seen(e, p.seq)' /\ ~Seen(e, p.seq)
  BY <1>1, WindowRemembers
<1>3. /\ rxpkt \in [Endpoint -> Packet] /\ delivered \in [Endpoint -> SUBSET Nat]
  BY DEF FlightInv, TypeOK
<1>4. ASSUME NEW f \in Endpoint, NEW s \in delivered'[f] \cup {0, rxpkt'[f].seq}
      PROVE  Seen(f, s)'
  <2>1. CASE s \in delivered[f] \cup {0, rxpkt[f].seq}
    <3>1. s \in Nat
      BY <2>1, <1>3 DEF Packet
    <3>2. Seen(f, s)
      BY <2>1 DEF ReplayInv
    <3> QED
      BY <3>1, <3>2, <1>2
  <2>2. CASE f = e /\ s = p.seq
    BY <2>2, <1>2
  <2> QED
    BY <2>1, <2>2, <1>1, <1>3, <1>4
<1>5. AtMostOnce'
  <2> SUFFICES ASSUME NEW f \in Endpoint, rxpkt'[f] # NoPacket
               PROVE  rxpkt'[f].seq \notin delivered[f]
    BY <1>1 DEF AtMostOnce, Idle
  <2>1. CASE f = e
    BY <2>1, <1>1, <1>2, <1>3 DEF ReplayInv
  <2>2. CASE f # e
    BY <2>2, <1>1, <1>3 DEF ReplayInv, AtMostOnce, Idle
  <2> QED
    BY <2>1, <2>2
<1> QED
  BY <1>4, <1>5 DEF ReplayInv

(* Flow::receive of an implausible acknowledgment records the packet. *)
LEMMA ReplayImplausible ==
    ASSUME FlightInv, ReplayInv, NEW e \in Endpoint, NEW p \in net[e],
           ReceiveImplausible(e, p)
    PROVE  ReplayInv'
<1>1. /\ Authentic(e, p)
      /\ rxseq' = [rxseq EXCEPT ![e] = AtLeast(@, PktSeq(e, p))]
      /\ rxmask' = [rxmask EXCEPT ![e] = RxMaskAfter(e, p)]
      /\ rxpkt' = rxpkt /\ delivered' = delivered
  BY DEF ReceiveImplausible, handlerVars, answers
<1>2. \A f \in Endpoint : \A s \in Nat : Seen(f, s) => Seen(f, s)'
  BY <1>1, WindowRemembers
<1>3. \A f \in Endpoint : delivered[f] \cup {0, rxpkt[f].seq} \subseteq Nat
  BY DEF FlightInv, TypeOK, Packet
<1>4. \A f \in Endpoint :
          \A s \in delivered'[f] \cup {0, rxpkt'[f].seq} : Seen(f, s)'
  BY <1>1, <1>2, <1>3 DEF ReplayInv
<1>5. AtMostOnce'
  BY <1>1 DEF ReplayInv, AtMostOnce, Idle
<1> QED
  BY <1>4, <1>5 DEF ReplayInv

(* Every handler keeps replay protection. *)
LEMMA ReplayNext ==
    ASSUME FlightInv, ReplayInv, [Next]_vars
    PROVE  ReplayInv'
<1>1. CASE UNCHANGED vars
  BY <1>1, ReplayUntouched DEF vars, rxVars, handlerVars, answers
<1>2. ASSUME NEW e \in Endpoint,
             \/ FlowTransmit(e) \/ MayTransmit(e) \/ AckTimeout(e) \/ Stop(e)
             \/ \E failed \in BOOLEAN : RtxTimeout(e, failed)
      PROVE  ReplayInv'
  <2>1. UNCHANGED <<rxseq, rxmask, rxpkt, delivered>>
    BY <1>2 DEF FlowTransmit, MayTransmit, AckTimeout, Stop, RtxTimeout,
                rxVars, handlerVars, answers
  <2> QED
    BY <2>1, ReplayUntouched
<1>3. ASSUME NEW e \in Endpoint, NEW p \in net[e],
             Receive(e, p) \/ ReceiveImplausible(e, p)
      PROVE  ReplayInv'
  BY <1>3, ReplayReceive, ReplayImplausible
<1>4. ASSUME NEW e \in Endpoint, Deliver(e) PROVE ReplayInv'
  <2>1. Finish(e)
    BY <1>4 DEF Deliver, DeliverRefused, DeliverInOrder, DeliverAfterGap,
                DeliverLate, DeliverSame
  <2> QED
    BY <2>1, ReplayFinish
<1> QED
  BY <1>1, <1>2, <1>3, <1>4 DEF Next

(* Nothing has been delivered at the start, and packet 0 counts as seen. *)
LEMMA ReplayInit == Init => ReplayInv
<1> SUFFICES ASSUME Init PROVE ReplayInv
  OBVIOUS
<1>1. \A e \in Endpoint :
          rxseq[e] = 0 /\ rxmask[e] = {0} /\ rxpkt[e] = NoPacket /\ delivered[e] = {}
  BY DEF Init
<1>2. \A e \in Endpoint : Seen(e, 0)
  BY <1>1 DEF Seen
<1> QED
  BY <1>1, <1>2, NoPacketType DEF ReplayInv, AtMostOnce, Idle

(* Replay protection holds for every size of the sequence space and of the *)
(* mask that FlowAssumption allows: no packet reaches flowReceive() twice. *)
THEOREM ReplayProtected == Spec => []AtMostOnce
<1>1. Init => ReplayInv
  BY ReplayInit
<1>2. FlightInv /\ ReplayInv /\ [Next]_vars => ReplayInv'
  BY ReplayNext
<1>3. ReplayInv => AtMostOnce
  BY DEF ReplayInv
<1> QED
  BY <1>1, <1>2, <1>3, FlightCorrect, PTL DEF Spec

-----------------------------------------------------------------------------
(* One verdict per data packet.  The strengthening: the sequence numbers   *)
(* on the network are the ones tx() has already handed out.                *)
SentBelow == \A e \in Endpoint : \A q \in net[Peer(e)] : q.seq < txseq[e]

VerdictInv == SentBelow /\ OneVerdict

(* Sending acknowledgment-only packets adds no data packet. *)
LEMMA SendAcks ==
    ASSUME FlightInv, SentBelow, NEW e \in Endpoint, NEW pkts \in SUBSET Packet,
           NEW n \in Nat, Send(e, pkts, n),
           \A q \in pkts : q.data = FALSE /\ q.seq < txseq[e] + n
    PROVE  SentBelow' /\ \A f \in Endpoint : DataSent(f)' = DataSent(f)
<1>1. /\ txseq \in [Endpoint -> Nat] /\ net \in [Endpoint -> SUBSET Packet]
      /\ txseq' = [txseq EXCEPT ![e] = @ + n]
      /\ net' = [net EXCEPT ![Peer(e)] = @ \cup pkts]
  BY DEF FlightInv, TypeOK, Send
<1>2. /\ net'[Peer(e)] = net[Peer(e)] \cup pkts /\ txseq'[e] = txseq[e] + n
      /\ \A f \in Endpoint : f # e => /\ net'[Peer(f)] = net[Peer(f)]
                                      /\ txseq'[f] = txseq[f]
  <2>1. \A f \in Endpoint : f # e => Peer(f) # Peer(e)
    BY PeerFacts
  <2> QED
    BY <1>1, <2>1, PeerFacts
<1>3. SentBelow'
  <2> SUFFICES ASSUME NEW f \in Endpoint, NEW q \in net'[Peer(f)]
               PROVE  q.seq < txseq'[f]
    BY DEF SentBelow
  <2>1. CASE f = e
    <3>1. CASE q \in pkts
      BY <2>1, <3>1, <1>2
    <3>2. CASE q \in net[Peer(e)]
      <4>1. q.seq \in Nat /\ txseq[e] \in Nat
        BY <3>2, <1>1, PeerFacts DEF Packet
      <4> QED
        BY <2>1, <3>2, <4>1, <1>2 DEF SentBelow
    <3> QED
      BY <2>1, <3>1, <3>2, <1>2
  <2>2. CASE f # e
    BY <2>2, <1>2 DEF SentBelow
  <2> QED
    BY <2>1, <2>2
<1>4. ASSUME NEW f \in Endpoint PROVE DataSent(f)' = DataSent(f)
  <2>1. {q \in net'[Peer(f)] : q.data} = {q \in net[Peer(f)] : q.data}
    BY <1>2
  <2> QED
    BY <2>1 DEF DataSent
<1> QED
  BY <1>3, <1>4

(* Handlers that send no data and settle no packet keep the verdicts. *)
LEMMA VerdictUntouched ==
    ASSUME VerdictInv, UNCHANGED <<pipe, acked, missed>>, SentBelow',
           \A f \in Endpoint : DataSent(f)' = DataSent(f)
    PROVE  VerdictInv'
  BY DEF VerdictInv, OneVerdict

(* Handlers that neither send nor settle anything keep the verdicts. *)
LEMMA VerdictNoSend ==
    ASSUME VerdictInv, UNCHANGED <<pipe, acked, missed, txseq, net>>
    PROVE  VerdictInv'
  BY DEF VerdictInv, OneVerdict, SentBelow, DataSent

(* Flow::flowTransmit: the new data packet is in flight, and no verdict    *)
(* has been given on its sequence number.                                  *)
LEMMA VerdictTransmit ==
    ASSUME FlightInv, VerdictInv, NEW e \in Endpoint, FlowTransmit(e)
    PROVE  VerdictInv'
<1> DEFINE new == Pkt(txseq[e], rxackseq[e], rxackct[e], TRUE)
<1>1. new.seq = txseq[e] /\ new.data = TRUE
  BY DEF Pkt
<1>2. /\ txseq \in [Endpoint -> Nat] /\ net \in [Endpoint -> SUBSET Packet]
      /\ pipe \in [Endpoint -> SUBSET Nat]
      /\ txseq' = [txseq EXCEPT ![e] = @ + 1]
      /\ net' = [net EXCEPT ![Peer(e)] = @ \cup {new}]
      /\ pipe' = [pipe EXCEPT ![e] = @ \cup {txseq[e]}]
      /\ acked' = acked /\ missed' = missed
  BY DEF FlightInv, TypeOK, FlowTransmit, Send, upcalls
<1> HIDE DEF new
<1>3. /\ net'[Peer(e)] = net[Peer(e)] \cup {new} /\ txseq'[e] = txseq[e] + 1
      /\ pipe'[e] = pipe[e] \cup {txseq[e]}
      /\ \A f \in Endpoint : f # e => /\ net'[Peer(f)] = net[Peer(f)]
                                      /\ txseq'[f] = txseq[f] /\ pipe'[f] = pipe[f]
  <2>1. \A f \in Endpoint : f # e => Peer(f) # Peer(e)
    BY PeerFacts
  <2> QED
    BY <1>2, <2>1, PeerFacts
<1>4. SentBelow'
  <2> SUFFICES ASSUME NEW f \in Endpoint, NEW q \in net'[Peer(f)]
               PROVE  q.seq < txseq'[f]
    BY DEF SentBelow
  <2>1. CASE f = e /\ q = new
    BY <2>1, <1>1, <1>2, <1>3
  <2>2. CASE f = e /\ q \in net[Peer(e)]
    <3>1. q.seq \in Nat /\ txseq[e] \in Nat
      BY <2>2, <1>2, PeerFacts DEF Packet
    <3> QED
      BY <2>2, <3>1, <1>3 DEF VerdictInv, SentBelow
  <2>3. CASE f # e
    BY <2>3, <1>3 DEF VerdictInv, SentBelow
  <2> QED
    BY <2>1, <2>2, <2>3, <1>3
<1>5. \A f \in Endpoint : f # e => DataSent(f)' = DataSent(f)
  BY <1>3 DEF DataSent
<1>6. DataSent(e)' = DataSent(e) \cup {txseq[e]}
  <2>1. {q \in net'[Peer(e)] : q.data} = {q \in net[Peer(e)] : q.data} \cup {new}
    BY <1>1, <1>3
  <2> QED
    BY <2>1, <1>1 DEF DataSent
<1>7. txseq[e] \notin DataSent(e)
  <2>1. \A q \in net[Peer(e)] : q.seq < txseq[e] /\ q.seq \in Nat
    BY <1>2, PeerFacts DEF VerdictInv, SentBelow, Packet
  <2>2. \A q \in net[Peer(e)] : q.seq # txseq[e]
    BY <2>1, <1>2
  <2> QED
    BY <2>2 DEF DataSent
<1>8. OneVerdict'
  <2> SUFFICES ASSUME NEW f \in Endpoint
               PROVE  /\ DataSent(f)' = pipe'[f] \cup acked'[f] \cup missed'[f]
                      /\ pipe'[f] \cap (acked'[f] \cup missed'[f]) = {}
                      /\ acked'[f] \cap missed'[f] = {}
    BY DEF OneVerdict
  <2>1. /\ DataSent(f) = pipe[f] \cup acked[f] \cup missed[f]
        /\ pipe[f] \cap (acked[f] \cup missed[f]) = {}
        /\ acked[f] \cap missed[f] = {}
    BY DEF VerdictInv, OneVerdict
  <2>2. CASE f = e
    BY <2>1, <2>2, <1>2, <1>3, <1>6, <1>7
  <2>3. CASE f # e
    BY <2>1, <2>3, <1>2, <1>3, <1>5
  <2> QED
    BY <2>2, <2>3
<1> QED
  BY <1>4, <1>8 DEF VerdictInv

(* Flow::receive moves packets from the pipe to one verdict. *)
LEMMA VerdictReceive ==
    ASSUME FlightInv, VerdictInv, NEW e \in Endpoint, NEW p \in net[e], Receive(e, p)
    PROVE  VerdictInv'
<1>1. /\ AckedNow(e, p) \subseteq pipe[e] /\ LostNow(e, p) \subseteq pipe[e]
      /\ AckedNow(e, p) \cap LostNow(e, p) = {}
  BY CountedOff
<1>2. /\ pipe' = [pipe EXCEPT ![e] = @ \ (AckedNow(e, p) \cup LostNow(e, p))]
      /\ acked' = [acked EXCEPT ![e] = @ \cup AckedNow(e, p)]
      /\ missed' = [missed EXCEPT ![e] = @ \cup LostNow(e, p)]
      /\ txseq' = txseq /\ net' = net
      /\ pipe \in [Endpoint -> SUBSET Nat] /\ acked \in [Endpoint -> SUBSET Nat]
      /\ missed \in [Endpoint -> SUBSET Nat]
  BY DEF Receive, FlightInv, TypeOK
<1>3. SentBelow' /\ \A f \in Endpoint : DataSent(f)' = DataSent(f)
  BY <1>2 DEF VerdictInv, SentBelow, DataSent
<1>4. OneVerdict'
  BY <1>1, <1>2, <1>3 DEF VerdictInv, OneVerdict
<1> QED
  BY <1>3, <1>4 DEF VerdictInv

(* Flow::rtxTimeout: everything in flight is missed. *)
LEMMA VerdictRtxTimeout ==
    ASSUME FlightInv, VerdictInv, NEW e \in Endpoint, NEW failed, RtxTimeout(e, failed)
    PROVE  VerdictInv'
<1>1. /\ pipe' = [pipe EXCEPT ![e] = {}]
      /\ missed' = [missed EXCEPT ![e] = @ \cup pipe[e]]
      /\ acked' = acked /\ txseq' = txseq /\ net' = net
      /\ pipe \in [Endpoint -> SUBSET Nat] /\ missed \in [Endpoint -> SUBSET Nat]
  BY DEF RtxTimeout, FlightInv, TypeOK
<1>2. SentBelow' /\ \A f \in Endpoint : DataSent(f)' = DataSent(f)
  BY <1>1 DEF VerdictInv, SentBelow, DataSent
<1>3. OneVerdict'
  BY <1>1, <1>2 DEF VerdictInv, OneVerdict
<1> QED
  BY <1>2, <1>3 DEF VerdictInv

(* flushack() alone, as ackTimeout() calls it. *)
LEMMA VerdictAckTimeout ==
    ASSUME FlightInv, VerdictInv, NEW e \in Endpoint, AckTimeout(e)
    PROVE  VerdictInv'
<1>1. /\ Send(e, FlushPkts(e), FlushCount(e))
      /\ UNCHANGED <<pipe, acked, missed>>
  BY DEF AckTimeout, flightVars, upcalls
<1>2. FlushPkts(e) \in SUBSET Packet /\ FlushCount(e) \in Nat
  <2>1. 0 \in Nat
    OBVIOUS
  <2> QED
    BY <2>1, FlushTypes
<1>3. \A q \in FlushPkts(e) : q.data = FALSE /\ q.seq < txseq[e] + FlushCount(e)
  <2>1. txseq[e] \in Nat /\ 0 \in Nat
    BY DEF FlightInv, TypeOK
  <2>2. /\ AckPkt(e, 0, rxackseq[e], rxackct[e]).data = FALSE
        /\ AckPkt(e, 0, rxackseq[e], rxackct[e]).seq = txseq[e] + 0
    BY DEF AckPkt, Pkt
  <2> QED
    BY <2>1, <2>2 DEF FlushPkts, FlushCount
<1>4. SentBelow' /\ \A f \in Endpoint : DataSent(f)' = DataSent(f)
  BY <1>1, <1>2, <1>3, SendAcks DEF VerdictInv
<1> QED
  BY <1>1, <1>4, VerdictUntouched

(* acknowledge(), with the acknowledgments it sends at once. *)
LEMMA VerdictDeliver ==
    ASSUME FlightInv, VerdictInv, NEW e \in Endpoint, Deliver(e)
    PROVE  VerdictInv'
<1>1. UNCHANGED <<pipe, acked, missed>>
  BY DEF Deliver, DeliverRefused, DeliverInOrder, DeliverAfterGap, DeliverLate,
         DeliverSame, Finish, flightVars, upcalls
<1>2. txseq[e] \in Nat /\ rxackct[e] \in 0 .. AckctMax
  BY DEF FlightInv, TypeOK
<1>3. CASE UNCHANGED <<txseq, net>>
  BY <1>1, <1>3, VerdictNoSend
<1>4. ASSUME NEW sendack \in SendAckChoices(e), DeliverInOrder(e, sendack),
             ~UNCHANGED <<txseq, net>>
      PROVE  VerdictInv'
  <2> DEFINE ct == AtMost(rxackct[e] + 1, AckctMax)
             ack == AckPkt(e, 0, AckArg(e), ct)
  <2>1. Acknowledged(e, sendack) /\ Send(e, {ack}, 1)
    BY <1>4 DEF DeliverInOrder
  <2>2. ack \in Packet
    <3>1. AckArg(e) \in Nat
      BY <2>1, AcknowledgedTypes
    <3>2. ct \in 0 .. AckctMax
      BY <1>2, ConstantFacts DEF AtMost
    <3> HIDE DEF ct
    <3> QED BY <3>1, <3>2, FlushTypes
  <2>3. ack.data = FALSE /\ ack.seq < txseq[e] + 1
    <3>1. ack.data = FALSE /\ ack.seq = txseq[e] + 0
      BY DEF AckPkt, Pkt
    <3> HIDE DEF ack
    <3> QED BY <3>1, <1>2
  <2> HIDE DEF ack
  <2>4. SentBelow' /\ \A f \in Endpoint : DataSent(f)' = DataSent(f)
    <3>1. {ack} \in SUBSET Packet /\ \A q \in {ack} : q.data = FALSE /\ q.seq < txseq[e] + 1
      BY <2>2, <2>3
    <3> QED BY <2>1, <3>1, SendAcks DEF VerdictInv
  <2> QED
    BY <1>1, <2>4, VerdictUntouched
<1>5. ASSUME NEW sendack \in SendAckChoices(e),
             DeliverAfterGap(e, sendack) \/ DeliverLate(e, sendack)
      PROVE  VerdictInv'
  <2> DEFINE late == AckPkt(e, FlushCount(e), AckArg(e), 0)
             pkts == FlushPkts(e) \cup (IF sendack THEN {late} ELSE {})
             n == FlushCount(e) + (IF sendack THEN 1 ELSE 0)
  <2>1. Acknowledged(e, sendack) /\ Send(e, pkts, n)
    BY <1>5 DEF DeliverAfterGap, DeliverLate
  <2>2. AckArg(e) \in Nat
    BY <2>1, AcknowledgedTypes
  <2>3. pkts \in SUBSET Packet /\ n \in Nat
    BY <2>2, OutOfOrderAcks
  <2>4. FlushCount(e) \in {0, 1} /\ (FlushPkts(e) # {} => FlushCount(e) = 1)
    BY DEF FlushCount, FlushPkts
  <2>5. late.data = FALSE /\ late.seq = txseq[e] + FlushCount(e)
    BY DEF AckPkt, Pkt
  <2>6. \A q \in FlushPkts(e) : q.data = FALSE /\ q.seq = txseq[e]
    BY <1>2 DEF FlushPkts, AckPkt, Pkt
  <2> HIDE DEF late
  <2>7. \A q \in pkts : q.data = FALSE /\ q.seq < txseq[e] + n
    <3>1. CASE sendack
      BY <3>1, <1>2, <2>4, <2>5, <2>6
    <3>2. CASE ~sendack
      BY <3>2, <1>2, <2>4, <2>5, <2>6
    <3> QED
      BY <3>1, <3>2
  <2> HIDE DEF pkts, n
  <2>8. SentBelow' /\ \A f \in Endpoint : DataSent(f)' = DataSent(f)
    BY <2>1, <2>3, <2>7, SendAcks DEF VerdictInv
  <2> QED
    BY <1>1, <2>8, VerdictUntouched
<1> QED
  BY <1>3, <1>4, <1>5 DEF Deliver, DeliverRefused, DeliverSame

(* Every handler keeps the verdicts. *)
LEMMA VerdictNext ==
    ASSUME FlightInv, VerdictInv, [Next]_vars
    PROVE  VerdictInv'
<1>1. CASE UNCHANGED vars
  BY <1>1, VerdictNoSend DEF vars, flightVars, upcalls
<1>2. ASSUME NEW e \in Endpoint, MayTransmit(e) \/ Stop(e) PROVE VerdictInv'
  <2>1. UNCHANGED <<pipe, acked, missed, txseq, net>>
    BY <1>2 DEF MayTransmit, Stop, flightVars, upcalls
  <2> QED
    BY <2>1, VerdictNoSend
<1>3. ASSUME NEW e \in Endpoint, NEW p \in net[e],
             Receive(e, p) \/ ReceiveImplausible(e, p)
      PROVE  VerdictInv'
  <2>1. CASE ReceiveImplausible(e, p)
    <3>1. UNCHANGED <<pipe, acked, missed, txseq, net>>
      BY <2>1 DEF ReceiveImplausible, flightVars, upcalls
    <3> QED
      BY <3>1, VerdictNoSend
  <2> QED
    BY <1>3, <2>1, VerdictReceive
<1>4. ASSUME NEW e \in Endpoint, NEW failed \in BOOLEAN, RtxTimeout(e, failed)
      PROVE  VerdictInv'
  BY <1>4, VerdictRtxTimeout
<1>5. ASSUME NEW e \in Endpoint, FlowTransmit(e) \/ AckTimeout(e) \/ Deliver(e)
      PROVE  VerdictInv'
  BY <1>5, VerdictTransmit, VerdictAckTimeout, VerdictDeliver
<1> QED
  BY <1>1, <1>2, <1>3, <1>4, <1>5 DEF Next

(* Nothing has been sent at the start. *)
LEMMA VerdictInit == Init => VerdictInv
  BY PeerFacts DEF Init, VerdictInv, SentBelow, OneVerdict, DataSent

(* Every data packet is in flight, acked or missed, and only one of these, *)
(* for every window size and every loss, duplication and reordering.       *)
THEOREM OneVerdictEach == Spec => []OneVerdict
<1>1. Init => VerdictInv
  BY VerdictInit
<1>2. FlightInv /\ VerdictInv /\ [Next]_vars => VerdictInv'
  BY VerdictNext
<1>3. VerdictInv => OneVerdict
  BY DEF VerdictInv
<1> QED
  BY <1>1, <1>2, <1>3, FlightCorrect, PTL DEF Spec

-----------------------------------------------------------------------------
(* The window of transmission records.  Loss inference keeps the pipe      *)
(* within MissThresh of txackseq, and expiry stays MaskBits behind it;     *)
(* only the two together make the assertion of the expiry loop true.       *)
WindowInv ==
    \A e \in Endpoint :
        /\ txackseq[e] < txseq[e]
        /\ txevtseq[e] = 0 \/ txevtseq[e] <= txackseq[e] - MaskBits + 1
        /\ \A s \in pipe[e] : s > txackseq[e] - MissThresh

(* The in-order loop and the loss loop of receive() leave no gap: together *)
(* they settle every packet up to MissThresh behind the new txackseq.      *)
LEMMA LoopsMeet ==
    ASSUME FlightInv, WindowInv, NEW e \in Endpoint, NEW p \in net[e],
           AckPlausible(e, p), Advances(e, p),
           NEW s \in pipe[e], s <= AckSeq(e, p) - MissThresh
    PROVE  s \in AckedNow(e, p) \cup LostNow(e, p)
<1> DEFINE a == AckSeq(e, p)
           d == AckDiff(e, p)
           n == NewInOrder(e, p)
<1>1. /\ d \in Int /\ d > 0 /\ a \in Nat /\ a = txackseq[e] + d
      /\ n \in Nat /\ n >= 1 /\ n <= d /\ s \in Nat /\ txackseq[e] \in Nat
  BY AckTypes, ConstantFacts DEF Advances, AtLeast, FlightInv, TypeOK
<1>2. s > txackseq[e] - MissThresh
  BY DEF WindowInv
<1>3. CASE s >= a - n + 1
  <2>1. s \in InOrder(e, p)
    BY <1>1, <1>3, ConstantFacts DEF InOrder
  <2> QED
    BY <2>1 DEF AckedNow
<1>4. CASE s < a - n + 1
  <2> HIDE DEF a, d, n
  <2>1. /\ s >= a - AtMost(a, MissThresh + d - 1)
        /\ s <= a - AtMost(a, AtLeast(MissThresh, n))
    BY <1>1, <1>2, <1>4, ConstantFacts DEF AtMost, AtLeast, a
  <2>2. s \in InferredLost(e, p)
    BY <2>1, <1>1, ConstantFacts DEF InferredLost, AtMost, AtLeast, a, d, n
  <2>3. s \notin InOrder(e, p)
    BY <1>1, <1>4 DEF InOrder, a, n
  <2> QED
    BY <2>2, <2>3 DEF LostNow
<1> QED
  BY <1>1, <1>3, <1>4

(* Flow::receive keeps the window. *)
LEMMA WindowReceive ==
    ASSUME FlightInv, WindowInv, NEW e \in Endpoint, NEW p \in net[e], Receive(e, p)
    PROVE  WindowInv'
<1>1. AckPlausible(e, p)
  BY DEF Receive
<1>2. /\ AckSeq(e, p) \in Nat /\ AckSeq(e, p) < txseq[e]
      /\ AckSeq(e, p) = txackseq[e] + AckDiff(e, p) /\ AckDiff(e, p) \in Int
  BY <1>1, AckTypes
<1>3. /\ txseq' = txseq
      /\ txackseq' = [txackseq EXCEPT ![e] = TxAckSeqAfter(e, p)]
      /\ txevtseq' = [txevtseq EXCEPT ![e] = TxEvtSeqAfter(e, p)]
      /\ pipe' = [pipe EXCEPT ![e] = @ \ (AckedNow(e, p) \cup LostNow(e, p))]
  BY DEF Receive
<1>4. /\ txackseq \in [Endpoint -> Nat] /\ txevtseq \in [Endpoint -> Nat]
      /\ pipe \in [Endpoint -> SUBSET Nat] /\ txseq \in [Endpoint -> Nat]
  BY DEF FlightInv, TypeOK
<1> SUFFICES ASSUME NEW f \in Endpoint
             PROVE  /\ txackseq'[f] < txseq'[f]
                    /\ txevtseq'[f] = 0 \/ txevtseq'[f] <= txackseq'[f] - MaskBits + 1
                    /\ \A s \in pipe'[f] : s > txackseq'[f] - MissThresh
  BY DEF WindowInv
<1>5. /\ txackseq[f] < txseq[f]
      /\ txevtseq[f] = 0 \/ txevtseq[f] <= txackseq[f] - MaskBits + 1
      /\ \A s \in pipe[f] : s > txackseq[f] - MissThresh
  BY DEF WindowInv
<1>6. CASE f # e
  BY <1>3, <1>4, <1>5, <1>6
<1>7. CASE f = e /\ ~Advances(e, p)
  <2>1. txackseq'[e] = txackseq[e] /\ txevtseq'[e] = txevtseq[e]
        /\ pipe'[e] \subseteq pipe[e]
    BY <1>3, <1>4, <1>7 DEF TxAckSeqAfter, TxEvtSeqAfter
  <2> QED
    BY <1>3, <1>5, <1>7, <2>1
<1>8. CASE f = e /\ Advances(e, p)
  <2>1. txackseq'[e] = AckSeq(e, p) /\ AckSeq(e, p) > txackseq[e]
    BY <1>2, <1>3, <1>4, <1>8 DEF TxAckSeqAfter, Advances
  <2>2. txevtseq'[e] = 0 \/ txevtseq'[e] <= txackseq'[e] - MaskBits + 1
    <3>1. txevtseq'[e] = TxEvtSeqAfter(e, p)
      BY <1>3, <1>4
    <3> QED
      BY <3>1, <2>1, <1>2, <1>4, <1>5, <1>8, ConstantFacts DEF TxEvtSeqAfter, AtLeast
  <2>3. ASSUME NEW s \in pipe'[e] PROVE s > txackseq'[e] - MissThresh
    <3>1. s \in pipe[e] /\ s \notin AckedNow(e, p) \cup LostNow(e, p) /\ s \in Nat
      BY <2>3, <1>3, <1>4
    <3>2. ~(s <= AckSeq(e, p) - MissThresh)
      BY <3>1, <1>1, <1>8, LoopsMeet
    <3> QED
      BY <3>1, <3>2, <2>1, <1>2, ConstantFacts
  <2> QED
    BY <1>2, <1>3, <1>8, <2>1, <2>2, <2>3
<1> QED
  BY <1>6, <1>7, <1>8

(* The other handlers leave the window alone, except that transmitting     *)
(* raises txseq and adds the packet to the pipe, and a timeout empties it. *)
LEMMA WindowOthers ==
    ASSUME FlightInv, WindowInv, UNCHANGED <<txackseq, txevtseq>>,
           \A f \in Endpoint : txseq'[f] \in Nat /\ txseq'[f] >= txseq[f],
           \A f \in Endpoint : \A s \in pipe'[f] : s \in pipe[f] \/ s = txseq[f]
    PROVE  WindowInv'
<1> SUFFICES ASSUME NEW f \in Endpoint
             PROVE  /\ txackseq[f] < txseq'[f]
                    /\ txevtseq[f] = 0 \/ txevtseq[f] <= txackseq[f] - MaskBits + 1
                    /\ \A s \in pipe'[f] : s > txackseq[f] - MissThresh
  BY DEF WindowInv
<1>1. /\ txackseq[f] < txseq[f] /\ txackseq[f] \in Nat /\ txseq[f] \in Nat
      /\ txevtseq[f] = 0 \/ txevtseq[f] <= txackseq[f] - MaskBits + 1
      /\ \A s \in pipe[f] : s > txackseq[f] - MissThresh
  BY DEF WindowInv, FlightInv, TypeOK
<1>2. \A s \in pipe'[f] : s > txackseq[f] - MissThresh
  BY <1>1, ConstantFacts
<1> QED
  BY <1>1, <1>2

(* Every handler keeps the window. *)
LEMMA WindowNext ==
    ASSUME FlightInv, FlightInv', WindowInv, [Next]_vars
    PROVE  WindowInv'
<1>1. /\ txseq \in [Endpoint -> Nat] /\ txseq' \in [Endpoint -> Nat]
      /\ pipe \in [Endpoint -> SUBSET Nat]
  BY DEF FlightInv, TypeOK
<1>2. ASSUME UNCHANGED <<txackseq, txevtseq, pipe>>,
             \A f \in Endpoint : txseq'[f] >= txseq[f]
      PROVE  WindowInv'
  BY <1>1, <1>2, WindowOthers
<1>3. CASE UNCHANGED vars
  <2>1. UNCHANGED <<txackseq, txevtseq, pipe, txseq>>
    BY <1>3 DEF vars, txVars, flightVars
  <2> QED
    BY <1>1, <1>2, <2>1
<1>4. ASSUME NEW e \in Endpoint, MayTransmit(e) \/ Stop(e) PROVE WindowInv'
  <2>1. UNCHANGED <<txackseq, txevtseq, pipe, txseq>>
    BY <1>4 DEF MayTransmit, Stop, txVars, flightVars
  <2> QED
    BY <1>1, <1>2, <2>1
<1>5. ASSUME NEW e \in Endpoint, NEW p \in net[e],
             Receive(e, p) \/ ReceiveImplausible(e, p)
      PROVE  WindowInv'
  <2>1. CASE ReceiveImplausible(e, p)
    <3>1. UNCHANGED <<txackseq, txevtseq, pipe, txseq>>
      BY <2>1 DEF ReceiveImplausible, txVars, flightVars
    <3> QED
      BY <1>1, <1>2, <3>1
  <2> QED
    BY <1>5, <2>1, WindowReceive
<1>6. ASSUME NEW e \in Endpoint, NEW failed \in BOOLEAN, RtxTimeout(e, failed)
      PROVE  WindowInv'
  <2>1. /\ UNCHANGED <<txackseq, txevtseq, txseq>>
        /\ \A f \in Endpoint : pipe'[f] \subseteq pipe[f]
    BY <1>1, <1>6 DEF RtxTimeout
  <2> QED
    BY <1>1, <2>1, WindowOthers
<1>7. ASSUME NEW e \in Endpoint, FlowTransmit(e) PROVE WindowInv'
  <2>1. /\ UNCHANGED <<txackseq, txevtseq>>
        /\ txseq' = [txseq EXCEPT ![e] = @ + 1]
        /\ pipe' = [pipe EXCEPT ![e] = @ \cup {txseq[e]}]
    BY <1>7 DEF FlowTransmit, Send, txVars
  <2> QED
    BY <1>1, <2>1, WindowOthers
<1>8. ASSUME NEW e \in Endpoint, AckTimeout(e) PROVE WindowInv'
  <2>1. /\ UNCHANGED <<txackseq, txevtseq, pipe>>
        /\ Send(e, FlushPkts(e), FlushCount(e)) /\ FlushCount(e) \in Nat
    BY <1>8 DEF AckTimeout, txVars, flightVars, FlushCount
  <2> QED
    BY <1>2, <2>1, SendGrows
<1>9. ASSUME NEW e \in Endpoint, Deliver(e) PROVE WindowInv'
  <2>1. UNCHANGED <<txackseq, txevtseq, pipe>>
    BY <1>9 DEF Deliver, DeliverRefused, DeliverInOrder, DeliverAfterGap,
                DeliverLate, DeliverSame, Finish, txVars, flightVars
  <2>2. \/ txseq' = txseq
        \/ \E n \in Nat : txseq' = [txseq EXCEPT ![e] = @ + n]
    <3>1. FlushCount(e) \in Nat
      BY DEF FlushCount
    <3>2. \A sendack : FlushCount(e) + (IF sendack THEN 1 ELSE 0) \in Nat
      BY <3>1
    <3> QED
      BY <1>9, <3>2 DEF Deliver, DeliverRefused, DeliverInOrder, DeliverAfterGap,
                        DeliverLate, DeliverSame, Send
  <2>3. \A f \in Endpoint : txseq'[f] >= txseq[f]
    BY <1>1, <2>2
  <2> QED
    BY <1>2, <2>1, <2>3
<1> QED
  BY <1>3, <1>4, <1>5, <1>6, <1>7, <1>8, <1>9 DEF Next

(* The flow starts with the record of the fictitious packet 0. *)
LEMMA WindowInit == Init => WindowInv
  BY DEF Init, WindowInv

(* The assertion of the expiry loop holds whatever the sizes of the mask   *)
(* and of the loss threshold, as long as the threshold is the smaller one. *)
THEOREM NoRecordExpiresInFlight == Spec => []SettledBeforeExpiry
<1>1. Init => WindowInv
  BY WindowInit
<1>2. FlightInv /\ FlightInv' /\ WindowInv /\ [Next]_vars => WindowInv'
  BY WindowNext
<1>3. FlightInv /\ WindowInv => SettledBeforeExpiry
  <2> SUFFICES ASSUME FlightInv, WindowInv, NEW e \in Endpoint, NEW s \in pipe[e]
               PROVE  s \in txevtseq[e] .. txseq[e] - 1
    BY DEF SettledBeforeExpiry
  <2>1. /\ s \in Nat /\ txevtseq[e] \in Nat /\ txseq[e] \in Nat
        /\ txackseq[e] \in Nat /\ s < txseq[e]
    BY DEF FlightInv, TypeOK, PipeBelow
  <2>2. /\ txevtseq[e] = 0 \/ txevtseq[e] <= txackseq[e] - MaskBits + 1
        /\ s > txackseq[e] - MissThresh
    BY DEF WindowInv
  <2> QED
    BY <2>1, <2>2, ConstantFacts
<1> QED
  BY <1>1, <1>2, <1>3, FlightCorrect, PTL DEF Spec

-----------------------------------------------------------------------------
(* A retransmission timer for every packet in flight.  Inductive together  *)
(* with the in-flight accounting: receive() decides about the timer before *)
(* it counts off the stragglers, so that it may only err on the safe side. *)
LEMMA ArmedReceive ==
    ASSUME FlightInv, RetransmitArmed, NEW e \in Endpoint, NEW p \in net[e],
           Receive(e, p), txfltcnt'[e] > 0
    PROVE  rtxtimer'[e]
<1> DEFINE early == (pipe[e] \cap InOrder(e, p)) \cup LostNow(e, p)
           all == AckedNow(e, p) \cup LostNow(e, p)
<1>1. /\ active[e] /\ txfltcnt[e] \in Nat /\ txfltcnt[e] = Cardinality(pipe[e])
      /\ IsFiniteSet(pipe[e])
  BY DEF Receive, FlightInv, TypeOK, InFlightAccounting
<1>2. /\ rtxtimer'[e] = RtxTimerAfter(e, p)
      /\ pipe'[e] = pipe[e] \ all /\ pipe'[e] \in SUBSET Nat
      /\ txfltcnt'[e] = txfltcnt[e] - Cardinality(AckedNow(e, p))
                                    - Cardinality(LostNow(e, p))
  BY DEF Receive, FlightInv, TypeOK
<1>3. /\ Cardinality(AckedNow(e, p)) \in Nat /\ Cardinality(LostNow(e, p)) \in Nat
      /\ all \subseteq pipe[e] /\ IsFiniteSet(all)
      /\ Cardinality(pipe[e] \ all) = txfltcnt'[e]
  <2>1. /\ all \subseteq pipe[e]
        /\ Cardinality(AckedNow(e, p)) \in Nat /\ Cardinality(LostNow(e, p)) \in Nat
        /\ Cardinality(pipe[e] \ all) = txfltcnt'[e]
    BY <1>1, <1>2, CountedOff
  <2>2. IsFiniteSet(all)
    BY <2>1, <1>1, FS_Subset
  <2> QED
    BY <2>1, <2>2
<1>4. CASE ~Advances(e, p)
  <2>1. txfltcnt[e] > 0
    BY <1>1, <1>2, <1>3
  <2>2. rtxtimer[e]
    BY <1>1, <2>1 DEF RetransmitArmed
  <2> QED
    BY <1>2, <1>4, <2>2 DEF RtxTimerAfter
<1>5. CASE Advances(e, p)
  <2>1. early \subseteq all /\ IsFiniteSet(early)
    <3>1. early \subseteq all
      BY DEF AckedNow
    <3> QED
      BY <3>1, <1>3, FS_Subset
  <2>2. Cardinality(early) <= Cardinality(all) /\ Cardinality(all) \in Nat
        /\ Cardinality(early) \in Nat
    <3> HIDE DEF early, all
    <3> QED BY <2>1, <1>3, FS_Subset, FS_CardinalityType
  <2>3. Cardinality(all) = txfltcnt[e] - txfltcnt'[e]
    <3> HIDE DEF all
    <3>1. Cardinality(pipe[e] \ all) = Cardinality(pipe[e]) - Cardinality(all)
      BY <1>1, <1>3, RemoveSubset
    <3>2. txfltcnt'[e] \in Int
      BY <1>1, <1>2, <1>3
    <3> QED
      BY <3>1, <3>2, <1>1, <1>3, <2>2
  <2>4. txfltcnt[e] > Cardinality(early)
    <3>1. txfltcnt'[e] \in Int
      BY <1>1, <1>2, <1>3
    <3> HIDE DEF early, all
    <3> QED BY <3>1, <2>2, <2>3, <1>1
  <2> QED
    BY <1>2, <1>5, <2>4 DEF RtxTimerAfter
<1> QED
  BY <1>4, <1>5

(* Every handler keeps the retransmission timer armed. *)
LEMMA ArmedNext ==
    ASSUME FlightInv, RetransmitArmed, [Next]_vars
    PROVE  RetransmitArmed'
<1> SUFFICES ASSUME NEW f \in Endpoint, active'[f], txfltcnt'[f] > 0
             PROVE  rtxtimer'[f]
  BY DEF RetransmitArmed
<1>1. /\ active \in [Endpoint -> BOOLEAN] /\ rtxtimer \in [Endpoint -> BOOLEAN]
      /\ txfltcnt \in [Endpoint -> Nat]
  BY DEF FlightInv, TypeOK
<1>2. ASSUME active'[f] = active[f], txfltcnt'[f] = txfltcnt[f],
             rtxtimer'[f] = rtxtimer[f]
      PROVE  rtxtimer'[f]
  BY <1>2 DEF RetransmitArmed
<1>3. CASE UNCHANGED vars
  BY <1>2, <1>3 DEF vars, flightVars
<1>4. ASSUME NEW e \in Endpoint,
             MayTransmit(e) \/ AckTimeout(e) \/ Deliver(e)
      PROVE  rtxtimer'[f]
  <2>1. UNCHANGED <<active, txfltcnt, rtxtimer>>
    BY <1>4 DEF MayTransmit, AckTimeout, Deliver, DeliverRefused, DeliverInOrder,
                DeliverAfterGap, DeliverLate, DeliverSame, Finish, flightVars
  <2> QED
    BY <1>2, <2>1
<1>5. ASSUME NEW e \in Endpoint, NEW p \in net[e],
             Receive(e, p) \/ ReceiveImplausible(e, p)
      PROVE  rtxtimer'[f]
  <2>1. CASE ReceiveImplausible(e, p)
    BY <1>2, <2>1 DEF ReceiveImplausible, flightVars
  <2>2. CASE Receive(e, p)
    <3>1. CASE f = e
      BY <2>2, <3>1, ArmedReceive
    <3>2. CASE f # e
      <4>1. /\ active'[f] = active[f] /\ txfltcnt'[f] = txfltcnt[f]
            /\ rtxtimer'[f] = rtxtimer[f]
        BY <1>1, <2>2, <3>2 DEF Receive
      <4> QED
        BY <1>2, <4>1
    <3> QED
      BY <3>1, <3>2
  <2> QED
    BY <1>5, <2>1, <2>2
<1>6. ASSUME NEW e \in Endpoint,
             \/ FlowTransmit(e) \/ Stop(e)
             \/ \E failed \in BOOLEAN : RtxTimeout(e, failed)
      PROVE  rtxtimer'[f]
  <2>1. CASE f # e
    <3>1. /\ active'[f] = active[f] /\ txfltcnt'[f] = txfltcnt[f]
          /\ rtxtimer'[f] = rtxtimer[f]
      BY <1>1, <1>6, <2>1 DEF FlowTransmit, Stop, RtxTimeout
    <3> QED
      BY <1>2, <3>1
  <2>2. CASE f = e
    <3>1. CASE FlowTransmit(e)
      BY <1>1, <2>2, <3>1 DEF FlowTransmit
    <3>2. CASE Stop(e)
      <4>1. active'[e] = FALSE
        BY <1>1, <3>2 DEF Stop
      <4> QED
        BY <2>2, <4>1
    <3>3. ASSUME NEW failed, RtxTimeout(e, failed) PROVE rtxtimer'[f]
      <4>1. /\ rtxtimer[e] /\ rtxtimer' = rtxtimer
        BY <3>3 DEF RtxTimeout
      <4> QED
        BY <2>2, <4>1
    <3> QED
      BY <1>6, <3>1, <3>2, <3>3
  <2> QED
    BY <2>1, <2>2
<1> QED
  BY <1>3, <1>4, <1>5, <1>6 DEF Next

(* While a running flow has data in flight, its retransmission timer runs. *)
THEOREM AlwaysArmed == Spec => []RetransmitArmed
<1>1. Init => RetransmitArmed
  BY DEF Init, RetransmitArmed
<1>2. FlightInv /\ RetransmitArmed /\ [Next]_vars => RetransmitArmed'
  BY ArmedNext
<1> QED
  BY <1>1, <1>2, FlightCorrect, PTL DEF Spec

-----------------------------------------------------------------------------
(* What the acknowledgments of a flow may be relied upon for: the two ends *)
(* and the packets between them.                                           *)

(* Sequence numbers are handed out in increasing order. *)
LEMMA TxSeqGrows ==
    ASSUME FlightInv, [Next]_vars
    PROVE  \A f \in Endpoint : txseq'[f] >= txseq[f]
<1>1. txseq \in [Endpoint -> Nat]
  BY DEF FlightInv, TypeOK
<1>2. ASSUME txseq' = txseq PROVE \A f \in Endpoint : txseq'[f] >= txseq[f]
  BY <1>1, <1>2
<1>3. ASSUME NEW e \in Endpoint, NEW n \in Nat, txseq' = [txseq EXCEPT ![e] = @ + n]
      PROVE  \A f \in Endpoint : txseq'[f] >= txseq[f]
  BY <1>1, <1>3
<1>4. CASE UNCHANGED vars
  BY <1>2, <1>4 DEF vars
<1>5. ASSUME NEW e \in Endpoint,
             \/ MayTransmit(e) \/ Stop(e)
             \/ \E failed \in BOOLEAN : RtxTimeout(e, failed)
             \/ \E p \in net[e] : Receive(e, p) \/ ReceiveImplausible(e, p)
      PROVE  txseq' = txseq
  BY <1>5 DEF MayTransmit, Stop, RtxTimeout, Receive, ReceiveImplausible
<1>6. ASSUME NEW e \in Endpoint, FlowTransmit(e) \/ AckTimeout(e)
      PROVE  \E n \in Nat : txseq' = [txseq EXCEPT ![e] = @ + n]
  <2>1. 1 \in Nat /\ FlushCount(e) \in Nat
    BY DEF FlushCount
  <2> QED
    BY <1>6, <2>1 DEF FlowTransmit, AckTimeout, Send
<1>7. ASSUME NEW e \in Endpoint, Deliver(e)
      PROVE  \/ txseq' = txseq
             \/ \E n \in Nat : txseq' = [txseq EXCEPT ![e] = @ + n]
  <2>1. \A sendack : FlushCount(e) + (IF sendack THEN 1 ELSE 0) \in Nat
    BY DEF FlushCount
  <2> QED
    BY <1>7, <2>1 DEF Deliver, DeliverRefused, DeliverInOrder, DeliverAfterGap,
                      DeliverLate, DeliverSame, Send
<1> QED
  BY <1>2, <1>3, <1>4, <1>5, <1>6, <1>7 DEF Next

(* Packet q carries the acknowledgment of sequence number n with ct more   *)
(* before it.                                                              *)
Carries(q, n, ct) == q.ackseq = n % SeqMod /\ q.ackct = ct

(* Every packet that a step adds carries the acknowledgment state before   *)
(* or after the step, or acknowledges the packet in hand by itself.        *)
AckSource(e, q) ==
    \/ Carries(q, rxackseq[e], rxackct[e])
    \/ Carries(q, rxackseq'[e], rxackct'[e])
    \/ /\ Carries(q, AckArg(e), 0)
       /\ ~Idle(e) /\ rxpkt[e].seq \in acknowledged'[e]

(* The acknowledgment state moves only to the packet in hand, alone or     *)
(* right after the one it was at.                                          *)
AckMove(e) ==
    \/ rxackseq'[e] = rxackseq[e] /\ rxackct'[e] = rxackct[e]
    \/ /\ ~Idle(e) /\ rxpkt[e].seq \in acknowledged'[e]
       /\ rxackseq'[e] = AckArg(e)
       /\ \/ rxackct'[e] = 0
          \/ /\ AckArg(e) = rxackseq[e] + 1
             /\ rxackct'[e] = AtMost(rxackct[e] + 1, AckctMax)

(* What one step does to the acknowledgments of the endpoint e. *)
AckStep(e) ==
    /\ AckMove(e)
    /\ \A q \in net'[Peer(e)] : q \in net[Peer(e)] \/ AckSource(e, q)
    /\ acknowledged[e] \subseteq acknowledged'[e]
    /\ rxpkt'[e] \in {rxpkt[e], NoPacket} \cup net[e]

(* An endpoint whose acknowledgment state a step leaves alone. *)
LEMMA AckStepIdle ==
    ASSUME NEW e \in Endpoint,
           rxackseq'[e] = rxackseq[e], rxackct'[e] = rxackct[e],
           net'[Peer(e)] = net[Peer(e)], acknowledged'[e] = acknowledged[e],
           rxpkt'[e] \in {rxpkt[e], NoPacket} \cup net[e]
    PROVE  AckStep(e)
  BY DEF AckStep, AckMove

(* A handler of e sends only from e and answers only at e. *)
LEMMA AckStepOther ==
    ASSUME FlightInv, NEW e \in Endpoint, NEW f \in Endpoint, f # e,
           \/ UNCHANGED <<rxackseq, rxackct>>
           \/ \E n, m : /\ rxackseq' = [rxackseq EXCEPT ![e] = n]
                        /\ rxackct' = [rxackct EXCEPT ![e] = m],
           \/ UNCHANGED net
           \/ \E pkts : net' = [net EXCEPT ![Peer(e)] = @ \cup pkts],
           acknowledged' = acknowledged \/ \E S : acknowledged' = [acknowledged EXCEPT ![e] = S],
           rxpkt' = rxpkt \/ \E p : rxpkt' = [rxpkt EXCEPT ![e] = p]
    PROVE  AckStep(f)
<1>1. /\ rxackseq \in [Endpoint -> Nat] /\ rxackct \in [Endpoint -> 0 .. AckctMax]
      /\ net \in [Endpoint -> SUBSET Packet] /\ rxpkt \in [Endpoint -> Packet]
      /\ acknowledged \in [Endpoint -> SUBSET Nat]
  BY DEF FlightInv, TypeOK
<1>2. Peer(f) # Peer(e) /\ Peer(f) \in Endpoint
  BY PeerFacts
<1>3. rxackseq'[f] = rxackseq[f] /\ rxackct'[f] = rxackct[f]
  BY <1>1
<1>4. net'[Peer(f)] = net[Peer(f)]
  BY <1>1, <1>2
<1>5. acknowledged'[f] = acknowledged[f] /\ rxpkt'[f] = rxpkt[f]
  BY <1>1
<1> QED
  BY <1>3, <1>4, <1>5, AckStepIdle

(* The end of Flow::receive, as far as acknowledgments are concerned. *)
LEMMA AckStepFinish ==
    ASSUME FlightInv, NEW e \in Endpoint, Finish(e)
    PROVE  rxpkt'[e] = NoPacket
  BY DEF Finish, FlightInv, TypeOK

(* Flow::acknowledge for the packet in hand. *)
LEMMA AckStepDeliver ==
    ASSUME FlightInv, NEW e \in Endpoint, NEW sendack \in BOOLEAN,
           \/ DeliverInOrder(e, sendack) \/ DeliverAfterGap(e, sendack)
           \/ DeliverLate(e, sendack) \/ DeliverSame(e, sendack)
    PROVE  AckStep(e)
<1>1. /\ rxackseq \in [Endpoint -> Nat] /\ rxackct \in [Endpoint -> 0 .. AckctMax]
      /\ net \in [Endpoint -> SUBSET Packet]
      /\ acknowledged \in [Endpoint -> SUBSET Nat] /\ Peer(e) \in Endpoint
  BY PeerFacts DEF FlightInv, TypeOK
<1>2. Acknowledged(e, sendack) /\ Finish(e)
  BY DEF DeliverInOrder, DeliverAfterGap, DeliverLate, DeliverSame
<1>3. /\ rxpkt'[e] = NoPacket /\ ~Idle(e)
      /\ rxpkt[e].seq \in acknowledged'[e]
      /\ acknowledged[e] \subseteq acknowledged'[e]
  BY <1>1, <1>2, AckStepFinish DEF Acknowledged
<1>4. CASE DeliverSame(e, sendack)
  <2>1. UNCHANGED <<rxackseq, rxackct, net>>
    BY <1>4 DEF DeliverSame, ackVars
  <2> QED
    BY <2>1, <1>3 DEF AckStep, AckMove
<1>5. CASE DeliverInOrder(e, sendack)
  <2> DEFINE ct == AtMost(rxackct[e] + 1, AckctMax)
  <2>1. /\ rxackseq'[e] = AckArg(e) /\ rxackct'[e] = ct
        /\ AckArg(e) = rxackseq[e] + 1
    <3>1. ArgDiff(e) = 1 /\ AckArg(e) \in Nat
      BY <1>2, <1>5, AcknowledgedTypes DEF DeliverInOrder
    <3> QED
      BY <3>1, <1>1, <1>5 DEF DeliverInOrder, ArgDiff
  <2>2. AckMove(e)
    BY <2>1, <1>3 DEF AckMove
  <2>3. ASSUME NEW q \in net'[Peer(e)], q \notin net[Peer(e)]
        PROVE  AckSource(e, q)
    <3>1. q = AckPkt(e, 0, AckArg(e), ct)
      BY <2>3, <1>1, <1>5 DEF DeliverInOrder, Send
    <3> HIDE DEF ct
    <3>2. Carries(q, rxackseq'[e], rxackct'[e])
      BY <3>1, <2>1 DEF Carries, AckPkt, Pkt
    <3> QED
      BY <3>2 DEF AckSource
  <2> QED
    BY <2>2, <2>3, <1>3 DEF AckStep
<1>6. CASE DeliverAfterGap(e, sendack) \/ DeliverLate(e, sendack)
  <2> DEFINE late == AckPkt(e, FlushCount(e), AckArg(e), 0)
             pkts == FlushPkts(e) \cup (IF sendack THEN {late} ELSE {})
             n == FlushCount(e) + (IF sendack THEN 1 ELSE 0)
  <2>1. Send(e, pkts, n)
    BY <1>6 DEF DeliverAfterGap, DeliverLate
  <2>2. AckMove(e)
    BY <1>1, <1>3, <1>6 DEF DeliverAfterGap, DeliverLate, AckMove
  <2>3. ASSUME NEW q \in net'[Peer(e)], q \notin net[Peer(e)]
        PROVE  AckSource(e, q)
    <3>1. q \in pkts
      BY <2>1, <2>3, <1>1 DEF Send
    <3>2. CASE q = late
      BY <3>2, <1>3 DEF AckSource, Carries, AckPkt, Pkt
    <3>3. CASE q \in FlushPkts(e)
      BY <3>3 DEF FlushPkts, AckSource, Carries, AckPkt, Pkt
    <3> QED
      BY <3>1, <3>2, <3>3
  <2> QED
    BY <2>2, <2>3, <1>3 DEF AckStep
<1> QED
  BY <1>4, <1>5, <1>6

(* Every handler, at both ends. *)
LEMMA AckSteps ==
    ASSUME FlightInv, [Next]_vars
    PROVE  \A f \in Endpoint : AckStep(f)
<1>1. /\ rxackseq \in [Endpoint -> Nat] /\ rxackct \in [Endpoint -> 0 .. AckctMax]
      /\ net \in [Endpoint -> SUBSET Packet] /\ rxpkt \in [Endpoint -> Packet]
      /\ acknowledged \in [Endpoint -> SUBSET Nat]
  BY DEF FlightInv, TypeOK
<1>2. CASE UNCHANGED vars
  <2>1. UNCHANGED <<rxackseq, rxackct, net, acknowledged, rxpkt>>
    BY <1>2 DEF vars, ackVars, handlerVars, answers
  <2> QED
    BY <2>1, AckStepIdle
<1>3. ASSUME NEW e \in Endpoint,
             \/ MayTransmit(e) \/ Stop(e)
             \/ \E failed \in BOOLEAN : RtxTimeout(e, failed)
             \/ \E p \in net[e] : ReceiveImplausible(e, p)
      PROVE  \A f \in Endpoint : AckStep(f)
  <2>1. UNCHANGED <<rxackseq, rxackct, net, acknowledged, rxpkt>>
    BY <1>3 DEF MayTransmit, Stop, RtxTimeout, ReceiveImplausible, ackVars,
                handlerVars, answers
  <2> QED
    BY <2>1, AckStepIdle
<1>4. ASSUME NEW e \in Endpoint, NEW p \in net[e], Receive(e, p)
      PROVE  \A f \in Endpoint : AckStep(f)
  <2>1. /\ UNCHANGED <<rxackseq, rxackct, net, acknowledged>>
        /\ rxpkt' = [rxpkt EXCEPT ![e] = p]
    BY <1>4 DEF Receive, ackVars, answers
  <2>2. \A f \in Endpoint : rxpkt'[f] \in {rxpkt[f], NoPacket} \cup net[f]
    BY <2>1, <1>1
  <2> QED
    BY <2>1, <2>2, AckStepIdle
<1>5. ASSUME NEW e \in Endpoint, FlowTransmit(e)
      PROVE  \A f \in Endpoint : AckStep(f)
  <2> DEFINE new == Pkt(txseq[e], rxackseq[e], rxackct[e], TRUE)
  <2>1. /\ UNCHANGED <<rxackseq, rxackct, acknowledged, rxpkt>>
        /\ net' = [net EXCEPT ![Peer(e)] = @ \cup {new}]
    BY <1>5 DEF FlowTransmit, Send, handlerVars, answers
  <2>2. Carries(new, rxackseq[e], rxackct[e])
    BY DEF Carries, Pkt
  <2> HIDE DEF new
  <2>3. AckStep(e)
    BY <2>1, <2>2, <1>1, PeerFacts DEF AckStep, AckMove, AckSource
  <2>4. ASSUME NEW f \in Endpoint, f # e PROVE AckStep(f)
    <3>1. Peer(f) # Peer(e) /\ Peer(f) \in Endpoint
      BY <2>4, PeerFacts
    <3> QED
      BY <3>1, <2>1, <1>1, AckStepIdle
  <2> QED
    BY <2>3, <2>4
<1>6. ASSUME NEW e \in Endpoint, AckTimeout(e)
      PROVE  \A f \in Endpoint : AckStep(f)
  <2>1. /\ UNCHANGED <<rxackseq, rxackct, acknowledged, rxpkt>>
        /\ net' = [net EXCEPT ![Peer(e)] = @ \cup FlushPkts(e)]
    BY <1>6 DEF AckTimeout, Send, handlerVars, answers
  <2>2. \A q \in FlushPkts(e) : Carries(q, rxackseq[e], rxackct[e])
    BY DEF Carries, FlushPkts, AckPkt, Pkt
  <2>3. AckStep(e)
    BY <2>1, <2>2, <1>1, PeerFacts DEF AckStep, AckMove, AckSource
  <2>4. ASSUME NEW f \in Endpoint, f # e PROVE AckStep(f)
    <3>1. Peer(f) # Peer(e) /\ Peer(f) \in Endpoint
      BY <2>4, PeerFacts
    <3> QED
      BY <3>1, <2>1, <1>1, AckStepIdle
  <2> QED
    BY <2>3, <2>4
<1>7. ASSUME NEW e \in Endpoint, Deliver(e), NEW f \in Endpoint PROVE AckStep(f)
  <2>1. CASE DeliverRefused(e)
    <3>1. UNCHANGED <<rxackseq, rxackct, net, acknowledged>>
          /\ rxpkt' = [rxpkt EXCEPT ![e] = NoPacket]
      BY <2>1 DEF DeliverRefused, Finish, ackVars
    <3>2. rxpkt'[f] \in {rxpkt[f], NoPacket} \cup net[f]
      BY <3>1, <1>1
    <3> QED
      BY <3>1, <3>2, AckStepIdle
  <2>2. ASSUME NEW sendack \in SendAckChoices(e),
               \/ DeliverInOrder(e, sendack) \/ DeliverAfterGap(e, sendack)
               \/ DeliverLate(e, sendack) \/ DeliverSame(e, sendack)
        PROVE  AckStep(f)
    <3>1. sendack \in BOOLEAN
      BY SendAckType
    <3>2. CASE f = e
      BY <3>1, <3>2, <2>2, AckStepDeliver
    <3>3. CASE f # e
      <4>1. \/ UNCHANGED <<rxackseq, rxackct>>
            \/ \E n, m : /\ rxackseq' = [rxackseq EXCEPT ![e] = n]
                         /\ rxackct' = [rxackct EXCEPT ![e] = m]
        BY <2>2 DEF DeliverInOrder, DeliverAfterGap, DeliverLate, DeliverSame, ackVars
      <4>2. \/ UNCHANGED net
            \/ \E pkts : net' = [net EXCEPT ![Peer(e)] = @ \cup pkts]
        BY <2>2 DEF DeliverInOrder, DeliverAfterGap, DeliverLate, DeliverSame, Send
      <4>3. Acknowledged(e, sendack) /\ Finish(e)
        BY <2>2 DEF DeliverInOrder, DeliverAfterGap, DeliverLate, DeliverSame
      <4>4. /\ \E S : acknowledged' = [acknowledged EXCEPT ![e] = S]
            /\ \E p : rxpkt' = [rxpkt EXCEPT ![e] = p]
        BY <4>3 DEF Acknowledged, Finish
      <4> QED
        BY <3>3, <4>1, <4>2, <4>4, AckStepOther
    <3> QED
      BY <3>2, <3>3
  <2> QED
    BY <1>7, <2>1, <2>2 DEF Deliver
<1> QED
  BY <1>2, <1>3, <1>4, <1>5, <1>6, <1>7 DEF Next

-----------------------------------------------------------------------------
(* Acknowledgments name packets that exist: every packet e sends carries a *)
(* number its peer has handed out, and does not reach back beyond the      *)
(* fictitious packet 0.                                                    *)
NamesSent(e, q) ==
    \E n \in Nat : n < txseq[Peer(e)] /\ q.ackct <= n /\ q.ackseq = n % SeqMod

AckInv ==
    \A e \in Endpoint :
        /\ rxpkt[e].seq < txseq[Peer(e)]
        /\ rxackseq[e] < txseq[Peer(e)]
        /\ rxackct[e] <= rxackseq[e]
        /\ \A q \in net[Peer(e)] : NamesSent(e, q)

(* The flow starts with the fictitious packet 0 acknowledged. *)
LEMMA AckInit == Init => AckInv
  BY PeerFacts, NoPacketType DEF Init, AckInv

(* What a step does to the acknowledgments of an endpoint keeps them so. *)
LEMMA AckNext ==
    ASSUME FlightInv, FlightInv', SentBelow, AckInv, [Next]_vars
    PROVE  AckInv'
<1> SUFFICES ASSUME NEW e \in Endpoint
             PROVE  /\ rxpkt'[e].seq < txseq'[Peer(e)]
                    /\ rxackseq'[e] < txseq'[Peer(e)]
                    /\ rxackct'[e] <= rxackseq'[e]
                    /\ \A q \in net'[Peer(e)] : NamesSent(e, q)'
  BY DEF AckInv
<1>1. AckStep(e) /\ txseq'[Peer(e)] >= txseq[Peer(e)]
  BY AckSteps, TxSeqGrows, PeerFacts
<1>2. /\ txseq[Peer(e)] \in Nat /\ txseq[Peer(e)] > 0 /\ txseq'[Peer(e)] \in Nat
      /\ rxackseq[e] \in Nat /\ rxackct[e] \in Nat
      /\ rxackseq'[e] \in Nat /\ rxackct'[e] \in Nat
      /\ rxpkt[e].seq \in Nat
  BY PeerFacts DEF FlightInv, TypeOK, Packet
<1>3. /\ rxpkt[e].seq < txseq[Peer(e)] /\ rxackseq[e] < txseq[Peer(e)]
      /\ rxackct[e] <= rxackseq[e]
      /\ \A q \in net[Peer(e)] : NamesSent(e, q)
  BY DEF AckInv
<1>4. rxpkt'[e].seq < txseq'[Peer(e)]
  <2>1. CASE rxpkt'[e] = rxpkt[e]
    BY <2>1, <1>1, <1>2, <1>3
  <2>2. CASE rxpkt'[e] = NoPacket
    BY <2>2, <1>1, <1>2, NoPacketType
  <2>3. CASE rxpkt'[e] \in net[e]
    <3>1. rxpkt'[e].seq < txseq[Peer(e)]
      BY <2>3, PeerFacts DEF SentBelow
    <3>2. rxpkt'[e].seq \in Nat
      BY <2>3 DEF FlightInv, TypeOK, Packet
    <3> QED
      BY <3>1, <3>2, <1>1, <1>2
  <2> QED
    BY <1>1, <2>1, <2>2, <2>3 DEF AckStep
<1>5. AckArg(e) \in Nat /\ AckArg(e) <= rxpkt[e].seq
  <2>1. \A n \in Nat : n % AckMod \in Nat /\ n % AckMod <= n
    BY ConstantFacts
  <2> QED
    BY <2>1, <1>2 DEF AckArg
<1>6. rxackseq'[e] < txseq'[Peer(e)] /\ rxackct'[e] <= rxackseq'[e]
  BY <1>1, <1>2, <1>3, <1>5, ConstantFacts DEF AckStep, AckMove, AtMost
<1>7. ASSUME NEW q \in net'[Peer(e)] PROVE NamesSent(e, q)'
  <2>1. CASE q \in net[Peer(e)]
    BY <2>1, <1>1, <1>2, <1>3 DEF NamesSent
  <2>2. ASSUME NEW n \in Nat, NEW ct \in Nat, Carries(q, n, ct), ct <= n,
               n < txseq'[Peer(e)]
        PROVE  NamesSent(e, q)'
    BY <2>2 DEF NamesSent, Carries
  <2>3. AckArg(e) < txseq'[Peer(e)] /\ rxackseq[e] < txseq'[Peer(e)]
    BY <1>1, <1>2, <1>3, <1>5
  <2>4. CASE AckSource(e, q)
    BY <2>2, <2>3, <2>4, <1>2, <1>3, <1>5, <1>6 DEF AckSource
  <2> QED
    BY <2>1, <2>4, <1>1 DEF AckStep
<1> QED
  BY <1>4, <1>6, <1>7

(* Division with remainder ... *)
LEMMA Division ==
    ASSUME NEW n \in Int, NEW m \in Nat \ {0}
    PROVE  /\ n \div m \in Int /\ n % m \in 0 .. m - 1
           /\ n = m * (n \div m) + (n % m)
  OBVIOUS

(* ... has one result ... *)
LEMMA OneRemainder ==
    ASSUME NEW k \in Int, NEW m \in Nat \ {0}, NEW r \in 0 .. m - 1
    PROVE  (m * k + r) % m = r
<1> DEFINE q == (m * k + r) \div m
           s == (m * k + r) % m
<1>1. m * k + r = m * q + s /\ s \in 0 .. m - 1 /\ q \in Int
  <2>1. m * k + r \in Int
    OBVIOUS
  <2> QED
    BY <2>1, Division
<1> HIDE DEF q, s
<1>2. k = q
  <2>1. m * (k - q) = s - r
    BY <1>1
  <2>2. k - q >= 1 => m * (k - q) >= m
    BY <1>1
  <2>3. k - q <= -1 => m * (k - q) <= -m
    BY <1>1
  <2> QED
    BY <1>1, <2>1, <2>2, <2>3
<1> QED
  BY <1>1, <1>2 DEF s

(* ... that multiples of the modulus do not change. *)
LEMMA AddMultiple ==
    ASSUME NEW n \in Int, NEW k \in Int, NEW m \in Nat \ {0}
    PROVE  (n + m * k) % m = n % m
<1> DEFINE q == n \div m
           s == n % m
<1>1. n = m * q + s /\ s \in 0 .. m - 1 /\ q \in Int
  BY Division
<1> HIDE DEF q, s
<1>2. n + m * k = m * (q + k) + s
  BY <1>1
<1>3. (m * (q + k) + s) % m = s
  BY <1>1, OneRemainder
<1> QED
  BY <1>2, <1>3 DEF s

(* Whatever full number receive() reads a wire number as, it has the same  *)
(* digits on the wire.                                                     *)
LEMMA SameOnWire ==
    ASSUME NEW wire \in 0 .. SeqMod - 1, NEW full \in Int
    PROVE  (full + SeqDiff(wire, full)) % SeqMod = wire
<1> DEFINE k == (wire - full) \div SeqMod
           d == (wire - full) % SeqMod
<1>1. SeqMod \in Nat \ {0}
  BY ConstantFacts
<1>2. wire - full = SeqMod * k + d /\ k \in Int /\ d \in Int
  <2>1. wire - full \in Int
    OBVIOUS
  <2> QED
    BY <1>1, <2>1, Division
<1>3. SeqDiff(wire, full) = d \/ SeqDiff(wire, full) = d - SeqMod
  BY DEF SeqDiff
<1> HIDE DEF k, d
<1>4. wire % SeqMod = wire
  BY <1>1
<1>5. CASE SeqDiff(wire, full) = d
  <2>1. full + SeqDiff(wire, full) = wire + SeqMod * (-k)
    BY <1>1, <1>2, <1>5
  <2>2. -k \in Int
    BY <1>2
  <2> QED
    BY <2>1, <2>2, <1>1, <1>4, AddMultiple
<1>6. CASE SeqDiff(wire, full) = d - SeqMod
  <2>1. full + SeqDiff(wire, full) = wire + SeqMod * (-k - 1)
    BY <1>1, <1>2, <1>6
  <2>2. -k - 1 \in Int
    BY <1>2
  <2> QED
    BY <2>1, <2>2, <1>1, <1>4, AddMultiple
<1> QED
  BY <1>3, <1>5, <1>6

(* The numbers not yet acknowledged at either end span less than half the  *)
(* sequence space, with the width of the mask to spare.                    *)
WithinHalfSpace ==
    \A e \in Endpoint : txseq[e] - txackseq[e] <= SeqMod \div 2 - MaskBits

(* Then a plausible acknowledgment does not reach back beyond packet 0:    *)
(* if it were read as one from before the wire numbers wrapped, the peer   *)
(* would have acknowledged more than has been sent.                        *)
LEMMA AckReadsBack ==
    ASSUME FlightInv, AckInv, WithinHalfSpace,
           NEW e \in Endpoint, NEW p \in net[e], AckPlausible(e, p)
    PROVE  p.ackct <= AckSeq(e, p)
<1>1. /\ AckDiff(e, p) \in Int /\ AckSeq(e, p) \in Nat
      /\ AckSeq(e, p) = txackseq[e] + AckDiff(e, p) /\ p.ackct \in 0 .. AckctMax
  BY AckTypes
<1>2. /\ txackseq[e] \in Nat /\ txseq[e] \in Nat
      /\ p.ackseq \in 0 .. SeqMod - 1
  BY DEF FlightInv, TypeOK, Packet
<1>3. PICK n \in Nat : n < txseq[e] /\ p.ackct <= n /\ p.ackseq = n % SeqMod
  <2>1. Peer(e) \in Endpoint /\ Peer(Peer(e)) = e
    BY PeerFacts
  <2>2. p \in net[Peer(Peer(e))]
    BY <2>1
  <2>3. NamesSent(Peer(e), p)
    BY <2>1, <2>2 DEF AckInv
  <2> QED
    BY <2>1, <2>3 DEF NamesSent
<1>4. CASE n < SeqMod
  <2>1. p.ackseq = n
    BY <1>3, <1>4, ConstantFacts
  <2>2. AckSeq(e, p) % SeqMod = n
    BY <2>1, <1>1, <1>2, SameOnWire DEF AckDiff
  <2>3. AckSeq(e, p) % SeqMod <= AckSeq(e, p)
    BY <1>1, ConstantFacts
  <2> QED
    BY <2>2, <2>3, <1>1, <1>3
<1>5. CASE n >= SeqMod
  <2> DEFINE half == SeqMod \div 2
  <2>1. half \in Nat /\ SeqMod = 2 * half /\ AckDiff(e, p) >= -half
    BY <1>2, SeqDiffType, ConstantFacts DEF AckDiff
  <2>2. txseq[e] - txackseq[e] <= half - MaskBits
    BY DEF WithinHalfSpace
  <2> HIDE DEF half
  <2> QED
    BY <2>1, <2>2, <1>1, <1>2, <1>3, <1>5, ConstantFacts
<1> QED
  BY <1>3, <1>4, <1>5, ConstantFacts

(* The records that the loops of receive() touch: the in-order and loss    *)
(* loops stay within MissThresh of the old txackseq, the straggler loop    *)
(* within the mask behind the new one.                                     *)
LEMMA LoopsInRange ==
    ASSUME FlightInv, WindowInv, AckInv, WithinHalfSpace,
           NEW e \in Endpoint, NEW p \in net[e], AckPlausible(e, p)
    PROVE  /\ InOrder(e, p) \cup InferredLost(e, p)
                  \subseteq txevtseq[e] .. txseq[e] - 1
           /\ Stragglers(e, p) \subseteq TxEvtSeqAfter(e, p) .. txseq[e] - 1
<1> DEFINE a == AckSeq(e, p)
           d == AckDiff(e, p)
           n == NewInOrder(e, p)
<1>1. /\ d \in Int /\ a \in Nat /\ a < txseq[e] /\ a = txackseq[e] + d
      /\ n \in Nat /\ (Advances(e, p) => n >= 1) /\ (Advances(e, p) => n <= d)
      /\ p.ackct \in Nat /\ p.ackct <= a
  BY AckTypes, AckReadsBack, ConstantFacts DEF Advances, AtLeast
<1>2. /\ txackseq[e] \in Nat /\ txevtseq[e] \in Nat /\ txseq[e] \in Nat
      /\ txackseq[e] < txseq[e]
      /\ txevtseq[e] = 0 \/ txevtseq[e] <= txackseq[e] - MaskBits + 1
  BY DEF FlightInv, TypeOK, WindowInv
<1>3. Advances(e, p) <=> d > 0
  BY DEF Advances
<1>4. InOrder(e, p) \subseteq txevtseq[e] .. txseq[e] - 1
  <2> SUFFICES ASSUME NEW s \in InOrder(e, p)
               PROVE  s \in txevtseq[e] .. txseq[e] - 1
    OBVIOUS
  <2>1. Advances(e, p) /\ s \in a - n + 1 .. a
    BY DEF InOrder
  <2> HIDE DEF a, d, n
  <2> QED
    BY <2>1, <1>1, <1>2, <1>3, ConstantFacts
<1>5. InferredLost(e, p) \subseteq txevtseq[e] .. txseq[e] - 1
  <2> SUFFICES ASSUME NEW s \in InferredLost(e, p)
               PROVE  s \in txevtseq[e] .. txseq[e] - 1
    OBVIOUS
  <2>1. /\ Advances(e, p)
        /\ s \in a - AtMost(a, MissThresh + d - 1) ..
                  a - AtMost(a, AtLeast(MissThresh, n))
    BY DEF InferredLost
  <2> HIDE DEF a, d, n
  <2> QED
    BY <2>1, <1>1, <1>2, <1>3, ConstantFacts DEF AtMost, AtLeast
<1>6. Stragglers(e, p) \subseteq TxEvtSeqAfter(e, p) .. txseq[e] - 1
  <2> SUFFICES ASSUME NEW b \in StragglerBits(e, p)
               PROVE  TxAckSeqAfter(e, p) - b
                          \in TxEvtSeqAfter(e, p) .. txseq[e] - 1
    BY DEF Stragglers
  <2> DEFINE back == IF Advances(e, p) THEN 0 ELSE -d
  <2>1. b \in back .. back + p.ackct /\ b \in Bits
    BY DEF StragglerBits
  <2>2. /\ back \in Nat /\ TxAckSeqAfter(e, p) - back = a
        /\ TxAckSeqAfter(e, p) \in Nat /\ TxAckSeqAfter(e, p) < txseq[e]
    BY <1>1, <1>2, <1>3 DEF TxAckSeqAfter
  <2>3. /\ TxEvtSeqAfter(e, p) \in Nat
        /\ \/ TxEvtSeqAfter(e, p) = 0
           \/ TxEvtSeqAfter(e, p) <= TxAckSeqAfter(e, p) - MaskBits + 1
    BY <1>1, <1>2, <1>3, ConstantFacts DEF TxEvtSeqAfter, TxAckSeqAfter, AtLeast
  <2> HIDE DEF a, d, n, back
  <2> QED
    BY <2>1, <2>2, <2>3, <1>1, <1>2, ConstantFacts DEF Bits
<1> QED
  BY <1>4, <1>5, <1>6

(* The acknowledgments are sound on every flow. *)
THEOREM AcksNameSent == Spec => []AckInv
<1>1. Init => AckInv
  BY AckInit
<1>2. FlightInv /\ FlightInv' /\ SentBelow /\ AckInv /\ [Next]_vars => AckInv'
  BY AckNext
<1>3. Spec => []SentBelow
  <2>1. Init => VerdictInv
    BY VerdictInit
  <2>2. FlightInv /\ VerdictInv /\ [Next]_vars => VerdictInv'
    BY VerdictNext
  <2>3. VerdictInv => SentBelow
    BY DEF VerdictInv
  <2> QED
    BY <2>1, <2>2, <2>3, FlightCorrect, PTL DEF Spec
<1> QED
  BY <1>1, <1>2, <1>3, FlightCorrect, PTL DEF Spec

(* As long as the numbers in use at an end span less than half the         *)
(* sequence space, receive() touches no transmission record that does not  *)
(* exist, whatever packet arrives next.                                    *)
THEOREM RecordsHeld == Spec => [](WithinHalfSpace => RecordsInRange)
<1>1. Init => WindowInv
  BY WindowInit
<1>2. FlightInv /\ FlightInv' /\ WindowInv /\ [Next]_vars => WindowInv'
  BY WindowNext
<1>3. FlightInv /\ WindowInv /\ AckInv => (WithinHalfSpace => RecordsInRange)
  BY LoopsInRange DEF RecordsInRange
<1> QED
  BY <1>1, <1>2, <1>3, FlightCorrect, AcksNameSent, PTL DEF Spec

-----------------------------------------------------------------------------
(* Soundness of acked().  acknowledge() truncates its argument, and the    *)
(* wire carries a number modulo SeqMod: past either bound an               *)
(* acknowledgment names other packets than the ones acknowledged, which    *)
(* the run FlowTruncated shows.  Up to there:                              *)
Unwrapped ==
    \A e \in Endpoint : txseq[e] <= AckMod /\ txseq[e] <= SeqMod

(* acked() follows from acknowledgments only if these are true from their  *)
(* birth: the numbers of the acknowledgment state, and of every packet     *)
(* that carries it, have been acknowledged by the upper layer.             *)
Answered(e, n, ct) ==
    \A s \in n - ct .. n : s = 0 \/ s \in acknowledged[e]

SoundInv ==
    \A e \in Endpoint :
        /\ Answered(e, rxackseq[e], rxackct[e])
        /\ \A q \in net[Peer(e)] : Answered(e, q.ackseq, q.ackct)
        /\ 0 \notin pipe[e]
        /\ acked[e] \subseteq acknowledged[Peer(e)]

(* Packets enter the pipe when tx() hands out their number. *)
LEMMA PipeGrows ==
    ASSUME FlightInv, [Next]_vars
    PROVE  \A f \in Endpoint : \A s \in pipe'[f] : s \in pipe[f] \/ s = txseq[f]
<1>1. pipe \in [Endpoint -> SUBSET Nat]
  BY DEF FlightInv, TypeOK
<1>2. CASE UNCHANGED vars
  BY <1>2 DEF vars, flightVars
<1>3. ASSUME NEW e \in Endpoint,
             \/ MayTransmit(e) \/ Stop(e) \/ AckTimeout(e) \/ Deliver(e)
             \/ \E p \in net[e] : ReceiveImplausible(e, p)
      PROVE  pipe' = pipe
  BY <1>3 DEF MayTransmit, Stop, AckTimeout, Deliver, DeliverRefused,
              DeliverInOrder, DeliverAfterGap, DeliverLate, DeliverSame, Finish,
              ReceiveImplausible, flightVars
<1>4. ASSUME NEW e \in Endpoint,
             \/ FlowTransmit(e)
             \/ \E failed \in BOOLEAN : RtxTimeout(e, failed)
             \/ \E p \in net[e] : Receive(e, p)
      PROVE  \A f \in Endpoint : \A s \in pipe'[f] : s \in pipe[f] \/ s = txseq[f]
  BY <1>1, <1>4 DEF FlowTransmit, RtxTimeout, Receive
<1> QED
  BY <1>2, <1>3, <1>4 DEF Next

(* acked() is called from receive() only. *)
LEMMA AckedGrows ==
    ASSUME FlightInv, [Next]_vars, NEW f \in Endpoint
    PROVE  \/ acked'[f] = acked[f]
           \/ \E p \in net[f] :
                 /\ AckPlausible(f, p)
                 /\ acked'[f] = acked[f] \cup AckedNow(f, p)
<1>1. acked \in [Endpoint -> SUBSET Nat]
  BY DEF FlightInv, TypeOK
<1>2. CASE UNCHANGED vars
  BY <1>2 DEF vars, upcalls
<1>3. ASSUME NEW e \in Endpoint,
             \/ FlowTransmit(e) \/ MayTransmit(e) \/ Stop(e) \/ AckTimeout(e)
             \/ Deliver(e) \/ \E failed \in BOOLEAN : RtxTimeout(e, failed)
             \/ \E p \in net[e] : ReceiveImplausible(e, p)
      PROVE  acked' = acked
  BY <1>3 DEF FlowTransmit, MayTransmit, Stop, AckTimeout, Deliver,
              DeliverRefused, DeliverInOrder, DeliverAfterGap, DeliverLate,
              DeliverSame, Finish, RtxTimeout, ReceiveImplausible, upcalls
<1>4. ASSUME NEW e \in Endpoint, NEW p \in net[e], Receive(e, p)
      PROVE  \/ acked'[f] = acked[f]
             \/ /\ f = e /\ AckPlausible(e, p)
                /\ acked'[f] = acked[f] \cup AckedNow(e, p)
  BY <1>1, <1>4 DEF Receive
<1> QED
  BY <1>2, <1>3, <1>4 DEF Next

(* Below the first wrap a plausible acknowledgment is read as it was sent. *)
LEMMA ReadAsSent ==
    ASSUME FlightInv, AckInv, Unwrapped,
           NEW e \in Endpoint, NEW p \in net[e], AckPlausible(e, p)
    PROVE  AckSeq(e, p) = p.ackseq
<1>1. /\ AckSeq(e, p) \in Nat /\ AckSeq(e, p) < txseq[e]
      /\ AckSeq(e, p) = txackseq[e] + AckDiff(e, p)
  BY AckTypes
<1>2. /\ txackseq[e] \in Nat /\ txseq[e] \in Nat /\ txseq[e] <= SeqMod
      /\ p.ackseq \in 0 .. SeqMod - 1
  BY DEF FlightInv, TypeOK, Packet, Unwrapped
<1>3. AckSeq(e, p) % SeqMod = p.ackseq
  BY <1>1, <1>2, SameOnWire DEF AckDiff
<1>4. AckSeq(e, p) % SeqMod = AckSeq(e, p)
  BY <1>1, <1>2, ConstantFacts
<1> QED
  BY <1>3, <1>4

(* What receive() reports as acked() the acknowledgment names. *)
LEMMA AckedIsNamed ==
    ASSUME FlightInv, AckInv, Unwrapped,
           NEW e \in Endpoint, NEW p \in net[e], AckPlausible(e, p)
    PROVE  AckedNow(e, p) \subseteq p.ackseq - p.ackct .. p.ackseq
<1> DEFINE a == AckSeq(e, p)
           d == AckDiff(e, p)
           n == NewInOrder(e, p)
<1>1. /\ d \in Int /\ a \in Nat /\ a = txackseq[e] + d /\ a = p.ackseq
      /\ n \in Nat /\ (Advances(e, p) => n >= 1) /\ p.ackct \in Nat
      /\ txackseq[e] \in Nat
  BY AckTypes, ReadAsSent, ConstantFacts DEF FlightInv, TypeOK
<1>2. Advances(e, p) <=> d > 0
  BY DEF Advances
<1>3. InOrder(e, p) \subseteq a - p.ackct .. a
  <2> SUFFICES ASSUME NEW s \in InOrder(e, p) PROVE s \in a - p.ackct .. a
    OBVIOUS
  <2>1. Advances(e, p) /\ s \in a - n + 1 .. a
    BY DEF InOrder
  <2>2. n <= p.ackct + 1
    BY <2>1, <1>1 DEF NewInOrder, AtMost
  <2> HIDE DEF a, d, n
  <2> QED
    BY <2>1, <2>2, <1>1
<1>4. Stragglers(e, p) \subseteq a - p.ackct .. a
  <2> SUFFICES ASSUME NEW b \in StragglerBits(e, p)
               PROVE  TxAckSeqAfter(e, p) - b \in a - p.ackct .. a
    BY DEF Stragglers
  <2> DEFINE back == IF Advances(e, p) THEN 0 ELSE -d
  <2>1. b \in back .. back + p.ackct
    BY DEF StragglerBits
  <2>2. /\ back \in Nat /\ TxAckSeqAfter(e, p) - back = a
        /\ TxAckSeqAfter(e, p) \in Nat
    BY <1>1, <1>2 DEF TxAckSeqAfter
  <2> HIDE DEF a, d, n, back
  <2> QED
    BY <2>1, <2>2, <1>1
<1> QED
  BY <1>1, <1>3, <1>4 DEF AckedNow

(* Nothing is acknowledged or acked at the start but packet 0. *)
LEMMA SoundInit == Init => SoundInv
<1> SUFFICES ASSUME Init PROVE SoundInv
  OBVIOUS
<1>1. \A e \in Endpoint : /\ rxackseq[e] = 0 /\ rxackct[e] = 0
                          /\ net[Peer(e)] = {} /\ pipe[e] = {} /\ acked[e] = {}
  BY PeerFacts DEF Init
<1> QED
  BY <1>1 DEF SoundInv, Answered

(* The sequence numbers grow, so that before the first wrap there was none *)
(* earlier.                                                                *)
LEMMA UnwrappedBefore ==
    ASSUME FlightInv, FlightInv', [Next]_vars, Unwrapped'
    PROVE  Unwrapped
<1> SUFFICES ASSUME NEW e \in Endpoint
             PROVE  txseq[e] <= AckMod /\ txseq[e] <= SeqMod
  BY DEF Unwrapped
<1>1. txseq'[e] >= txseq[e] /\ txseq[e] \in Nat /\ txseq'[e] \in Nat
  BY TxSeqGrows DEF FlightInv, TypeOK
<1>2. txseq'[e] <= AckMod /\ txseq'[e] <= SeqMod
  BY DEF Unwrapped
<1> QED
  BY <1>1, <1>2, ConstantFacts

(* Below the first wrap every step keeps the acknowledgments sound. *)
LEMMA SoundNext ==
    ASSUME FlightInv, FlightInv', AckInv, AckInv', SoundInv, [Next]_vars,
           Unwrapped, Unwrapped'
    PROVE  SoundInv'
<1> SUFFICES ASSUME NEW e \in Endpoint
             PROVE  /\ Answered(e, rxackseq[e], rxackct[e])'
                    /\ \A q \in net'[Peer(e)] : Answered(e, q.ackseq, q.ackct)'
                    /\ 0 \notin pipe'[e]
                    /\ acked'[e] \subseteq acknowledged'[Peer(e)]
  BY DEF SoundInv
<1>1. /\ AckStep(e) /\ AckStep(Peer(e)) /\ Peer(e) \in Endpoint
      /\ Peer(Peer(e)) = e
  BY AckSteps, PeerFacts
<1>2. /\ txseq[Peer(e)] \in Nat /\ txseq'[Peer(e)] \in Nat
      /\ txseq[Peer(e)] <= AckMod /\ txseq'[Peer(e)] <= SeqMod
      /\ txseq[Peer(e)] <= SeqMod
      /\ rxackseq[e] \in Nat /\ rxackct[e] \in Nat
      /\ rxackseq'[e] \in Nat /\ rxackct'[e] \in Nat /\ rxpkt[e].seq \in Nat
  BY <1>1 DEF FlightInv, TypeOK, Packet, Unwrapped
<1>3. /\ rxpkt[e].seq < txseq[Peer(e)] /\ rxackseq[e] < txseq[Peer(e)]
      /\ rxackseq'[e] < txseq'[Peer(e)]
  BY DEF AckInv
<1>4. AckArg(e) = rxpkt[e].seq
  BY <1>2, <1>3, ConstantFacts DEF AckArg
<1>5. acknowledged[e] \subseteq acknowledged'[e]
  BY <1>1 DEF AckStep
<1>6. Answered(e, rxackseq[e], rxackct[e])
  BY DEF SoundInv
<1>7. Answered(e, rxackseq[e], rxackct[e])'
  BY <1>1, <1>2, <1>4, <1>5, <1>6, ConstantFacts
     DEF AckStep, AckMove, Answered, AtMost
<1>8. ASSUME NEW q \in net'[Peer(e)] PROVE Answered(e, q.ackseq, q.ackct)'
  <2>1. CASE q \in net[Peer(e)]
    <3>1. Answered(e, q.ackseq, q.ackct)
      BY <2>1 DEF SoundInv
    <3> QED
      BY <3>1, <1>5 DEF Answered
  <2>2. \A n \in Nat : n < SeqMod => n % SeqMod = n
    BY ConstantFacts
  <2>3. rxackseq[e] < SeqMod /\ rxackseq'[e] < SeqMod /\ AckArg(e) < SeqMod
    BY <1>2, <1>3, <1>4, ConstantFacts
  <2>4. CASE Carries(q, rxackseq[e], rxackct[e])
    <3>1. q.ackseq = rxackseq[e] /\ q.ackct = rxackct[e]
      BY <2>2, <2>3, <2>4, <1>2 DEF Carries
    <3> QED
      BY <3>1, <1>5, <1>6 DEF Answered
  <2>5. CASE Carries(q, rxackseq'[e], rxackct'[e])
    <3>1. q.ackseq = rxackseq'[e] /\ q.ackct = rxackct'[e]
      BY <2>2, <2>3, <2>5, <1>2 DEF Carries
    <3> QED
      BY <3>1, <1>7 DEF Answered
  <2>6. CASE Carries(q, AckArg(e), 0) /\ rxpkt[e].seq \in acknowledged'[e]
    <3>1. q.ackseq = rxpkt[e].seq /\ q.ackct = 0
      BY <2>2, <2>3, <2>6, <1>2, <1>4 DEF Carries
    <3> QED
      BY <3>1, <2>6, <1>2 DEF Answered
  <2> QED
    BY <2>1, <2>4, <2>5, <2>6, <1>1 DEF AckStep, AckSource
<1>9. 0 \notin pipe'[e]
  <2>1. txseq[e] # 0 /\ 0 \notin pipe[e]
    BY DEF FlightInv, TypeOK, SoundInv
  <2> QED
    BY <2>1, PipeGrows
<1>10. acked'[e] \subseteq acknowledged'[Peer(e)]
  <2>1. /\ acked[e] \subseteq acknowledged[Peer(e)]
        /\ acknowledged[Peer(e)] \subseteq acknowledged'[Peer(e)]
    BY <1>1 DEF SoundInv, AckStep
  <2>2. ASSUME NEW p \in net[e], AckPlausible(e, p)
        PROVE  AckedNow(e, p) \subseteq acknowledged[Peer(e)]
    <3>1. AckedNow(e, p) \subseteq p.ackseq - p.ackct .. p.ackseq
      BY <2>2, AckedIsNamed
    <3>2. AckedNow(e, p) \subseteq pipe[e] /\ 0 \notin pipe[e]
      BY CountedOff DEF SoundInv
    <3>3. p \in net[Peer(Peer(e))]
      BY <1>1
    <3>4. Answered(Peer(e), p.ackseq, p.ackct)
      BY <3>3, <1>1 DEF SoundInv
    <3> QED
      BY <3>1, <3>2, <3>4 DEF Answered
  <2> QED
    BY <2>1, <2>2, AckedGrows
<1> QED
  BY <1>7, <1>8, <1>9, <1>10

(* Before the wire numbers or the truncated ones wrap, acked() is called   *)
(* only for packets that the receiver's upper layer had acknowledged.      *)
THEOREM SoundAcks == Spec => [](Unwrapped => AckSound)
<1>1. Init => (Unwrapped => SoundInv)
  BY SoundInit
<1>2. FlightInv /\ FlightInv' /\ AckInv /\ AckInv' /\ (Unwrapped => SoundInv)
      /\ [Next]_vars => (Unwrapped => SoundInv)'
  BY SoundNext, UnwrappedBefore
<1>3. (Unwrapped => SoundInv) => (Unwrapped => AckSound)
  BY DEF SoundInv, AckSound
<1> QED
  BY <1>1, <1>2, <1>3, FlightCorrect, AcksNameSent, PTL DEF Spec

-----------------------------------------------------------------------------
(* No acknowledgment is forgotten.  What is owed and has not been named in *)
(* a packet lies among the last rxunacked packets before rxackseq; that    *)
(* the acknowledgment still to be sent reaches them all needs the limit on *)
(* delayed acknowledgments to be within the reach of the ackct field.      *)
Named(e, s) == \E q \in net[Peer(e)] : Names(q, s)

Pending(e, s) ==
    acktimer[e] /\ rxunacked[e] > 0
    /\ s \in rxackseq[e] - rxunacked[e] + 1 .. rxackseq[e]

OwedAt(e) ==
    /\ rxackseq[e] \in delivered[e] \cup {0}
    /\ ~Idle(e) => rxpkt[e].seq # 0
    /\ rxunacked[e] <= rxackct[e] /\ rxunacked[e] < AckAckPackets
    /\ active[e] => \A s \in owed[e] : Named(e, s) \/ Pending(e, s)

OwedInv == \A e \in Endpoint : OwedAt(e)

(* A packet that carries n with ct more names the numbers in that range.   *)
LEMMA CarriesNames ==
    ASSUME NEW q, NEW n \in Nat, NEW ct \in 0 .. AckctMax, Carries(q, n, ct),
           NEW s \in Int, s <= n, n - s <= ct
    PROVE  Names(q, s)
<1> DEFINE k == n \div SeqMod
           w == n % SeqMod
<1>1. SeqMod \in Nat \ {0} /\ n - s \in 0 .. SeqMod - 1
  BY ConstantFacts
<1>2. n = SeqMod * k + w /\ k \in Int /\ w \in Int
  BY <1>1, Division
<1>3. q.ackseq = w /\ q.ackct = ct
  BY DEF Carries
<1> HIDE DEF k, w
<1>4. w - s = (n - s) + SeqMod * (-k)
  BY <1>1, <1>2
<1>5. (w - s) % SeqMod = (n - s) % SeqMod
  <2>1. PICK a \in Int : a = n - s
    OBVIOUS
  <2>2. PICK b \in Int : b = -k
    BY <1>2
  <2>3. (a + SeqMod * b) % SeqMod = a % SeqMod
    BY <1>1, AddMultiple
  <2>4. w - s = a + SeqMod * b
    BY <1>4, <2>1, <2>2
  <2> QED
    BY <2>1, <2>3, <2>4
<1>6. (n - s) % SeqMod = n - s
  BY <1>1
<1> QED
  BY <1>3, <1>5, <1>6 DEF Names

(* Whatever is pending, an acknowledgment of the current state names. *)
LEMMA PendingNamed ==
    ASSUME FlightInv, OwedInv, NEW e \in Endpoint, NEW s, Pending(e, s), NEW q,
           Carries(q, rxackseq[e], rxackct[e])
    PROVE  Names(q, s)
<1>1. /\ rxackseq[e] \in Nat /\ rxackct[e] \in 0 .. AckctMax
      /\ rxunacked[e] \in Nat /\ rxunacked[e] <= rxackct[e]
  BY DEF FlightInv, TypeOK, OwedInv, OwedAt
<1>2. s \in Int /\ s <= rxackseq[e] /\ rxackseq[e] - s <= rxackct[e]
  BY <1>1 DEF Pending
<1> QED
  BY <1>1, <1>2, CarriesNames

(* flushack() names all that is pending. *)
LEMMA FlushNames ==
    ASSUME FlightInv, OwedInv, NEW e \in Endpoint, NEW s, Pending(e, s)
    PROVE  \E q \in FlushPkts(e) : Names(q, s)
<1> DEFINE q == AckPkt(e, 0, rxackseq[e], rxackct[e])
<1>1. q \in FlushPkts(e)
  BY DEF Pending, FlushPkts
<1>2. Carries(q, rxackseq[e], rxackct[e])
  BY DEF Carries, AckPkt, Pkt
<1> HIDE DEF q
<1> QED
  BY <1>1, <1>2, PendingNamed

(* The acknowledgments owed by an endpoint that a step leaves alone. *)
LEMMA OwedUntouched ==
    ASSUME OwedInv, NEW e \in Endpoint,
           rxackseq'[e] = rxackseq[e], rxackct'[e] = rxackct[e],
           rxunacked'[e] = rxunacked[e], owed'[e] = owed[e],
           net'[Peer(e)] = net[Peer(e)], delivered[e] \subseteq delivered'[e],
           active'[e] => active[e],
           active'[e] => (acktimer[e] => acktimer'[e]),
           rxpkt'[e] # NoPacket => rxpkt'[e].seq # 0
    PROVE  OwedAt(e)'
  BY DEF OwedInv, OwedAt, Idle, Named, Pending

(* What has been named stays named: packets stay on the network. *)
LEMMA NamedStays ==
    ASSUME FlightInv, NEW e \in Endpoint, NEW s, Named(e, s), NEW pkts,
           net' = [net EXCEPT ![Peer(e)] = @ \cup pkts]
    PROVE  Named(e, s)'
<1>1. net'[Peer(e)] = net[Peer(e)] \cup pkts
  BY PeerFacts DEF FlightInv, TypeOK
<1> QED
  BY <1>1 DEF Named, Names

(* A packet that is sent names what it names. *)
LEMMA SentNames ==
    ASSUME FlightInv, NEW e \in Endpoint, NEW s, NEW pkts, NEW q \in pkts,
           Names(q, s), net' = [net EXCEPT ![Peer(e)] = @ \cup pkts]
    PROVE  Named(e, s)'
<1>1. net'[Peer(e)] = net[Peer(e)] \cup pkts
  BY PeerFacts DEF FlightInv, TypeOK
<1> QED
  BY <1>1 DEF Named, Names

(* Flow::flowTransmit piggybacks the acknowledgment state. *)
LEMMA OwedTransmit ==
    ASSUME FlightInv, OwedInv, NEW e \in Endpoint, FlowTransmit(e)
    PROVE  OwedAt(e)'
<1> DEFINE new == Pkt(txseq[e], rxackseq[e], rxackct[e], TRUE)
<1>1. /\ net' = [net EXCEPT ![Peer(e)] = @ \cup {new}]
      /\ UNCHANGED <<active, rxackseq, rxackct, rxpkt, owed, delivered>>
      /\ rxunacked' = [rxunacked EXCEPT ![e] = 0] /\ active[e]
  BY DEF FlowTransmit, Send, handlerVars, answers
<1>2. Carries(new, rxackseq[e], rxackct[e])
  BY DEF Carries, Pkt
<1> HIDE DEF new
<1>3. rxunacked'[e] = 0 /\ rxackct[e] \in Nat
  BY <1>1 DEF FlightInv, TypeOK
<1>4. ASSUME NEW s \in owed[e] PROVE Named(e, s)'
  <2>1. CASE Named(e, s)
    BY <2>1, <1>1, NamedStays
  <2>2. CASE Pending(e, s)
    BY <2>2, <1>1, <1>2, PendingNamed, SentNames
  <2> QED
    BY <2>1, <2>2, <1>1 DEF OwedInv, OwedAt
<1> QED
  BY <1>1, <1>3, <1>4, ConstantFacts DEF OwedAt, OwedInv, Idle

(* Flow::ackTimeout sends what is pending. *)
LEMMA OwedAckTimeout ==
    ASSUME FlightInv, OwedInv, NEW e \in Endpoint, AckTimeout(e)
    PROVE  OwedAt(e)'
<1>1. /\ net' = [net EXCEPT ![Peer(e)] = @ \cup FlushPkts(e)]
      /\ UNCHANGED <<active, rxackseq, rxackct, rxpkt, owed, delivered>>
      /\ rxunacked' = [rxunacked EXCEPT ![e] = 0] /\ active[e]
  BY DEF AckTimeout, Send, handlerVars, answers
<1>2. rxunacked'[e] = 0 /\ rxackct[e] \in Nat
  BY <1>1 DEF FlightInv, TypeOK
<1>3. ASSUME NEW s \in owed[e] PROVE Named(e, s)'
  <2>1. CASE Named(e, s)
    BY <2>1, <1>1, NamedStays
  <2>2. CASE Pending(e, s)
    BY <2>2, <1>1, FlushNames, SentNames
  <2> QED
    BY <2>1, <2>2, <1>1 DEF OwedInv, OwedAt
<1> QED
  BY <1>1, <1>2, <1>3, ConstantFacts DEF OwedAt, OwedInv, Idle

(* The packet in hand, untruncated, is one that was never acknowledged. *)
LEMMA InHandIsNew ==
    ASSUME FlightInv, ReplayInv, AckInv, OwedInv, Unwrapped,
           NEW e \in Endpoint, ~Idle(e)
    PROVE  AckArg(e) = rxpkt[e].seq /\ AckArg(e) # rxackseq[e]
<1>1. /\ rxpkt[e].seq \in Nat /\ rxpkt[e].seq < txseq[Peer(e)]
      /\ txseq[Peer(e)] \in Nat /\ txseq[Peer(e)] <= AckMod
  BY PeerFacts DEF FlightInv, TypeOK, Packet, AckInv, Unwrapped
<1>2. AckArg(e) = rxpkt[e].seq
  <2>1. rxpkt[e].seq < AckMod
    BY <1>1, ConstantFacts
  <2>2. \A n \in Nat : n < AckMod => n % AckMod = n
    BY ConstantFacts
  <2> QED
    BY <1>1, <2>1, <2>2 DEF AckArg
<1> QED
  BY <1>2 DEF OwedInv, OwedAt, ReplayInv, AtMostOnce

(* acknowledge(), in all its cases. *)
LEMMA OwedDeliver ==
    ASSUME AckAckPackets <= AckctMax + 1, FlightInv, ReplayInv, AckInv, OwedInv,
           Unwrapped, NEW e \in Endpoint, NEW sendack \in BOOLEAN,
           \/ DeliverInOrder(e, sendack) \/ DeliverAfterGap(e, sendack)
           \/ DeliverLate(e, sendack) \/ DeliverSame(e, sendack)
    PROVE  OwedAt(e)'
<1>9. PICK seq : seq = rxpkt[e].seq
  OBVIOUS
<1>1. Acknowledged(e, sendack) /\ Finish(e)
  BY DEF DeliverInOrder, DeliverAfterGap, DeliverLate, DeliverSame
<1>2. /\ active[e] /\ ~Idle(e) /\ seq \in Nat
      /\ rxackseq[e] \in Nat /\ rxackct[e] \in 0 .. AckctMax
      /\ rxunacked[e] \in Nat /\ acktimer[e] \in BOOLEAN
      /\ rxunacked[e] <= rxackct[e] /\ rxunacked[e] < AckAckPackets
      /\ \A s \in owed[e] : Named(e, s) \/ Pending(e, s)
  BY <1>1, <1>9 DEF Acknowledged, FlightInv, TypeOK, Packet, OwedInv, OwedAt
<1>3. AckArg(e) = seq /\ AckArg(e) # rxackseq[e]
  BY <1>2, <1>9, InHandIsNew
<1>4. /\ Idle(e)' /\ delivered'[e] = delivered[e] \cup {seq}
      /\ owed'[e] \subseteq owed[e] \cup {seq}
      /\ ~sendack => owed'[e] = owed[e]
  BY <1>1, <1>9 DEF Finish, Acknowledged, FlightInv, TypeOK, Idle
<1>5. rxackseq'[e] \in delivered'[e] \cup {0}
  <2>1. rxackseq' = rxackseq \/ rxackseq' = [rxackseq EXCEPT ![e] = AckArg(e)]
    BY DEF DeliverInOrder, DeliverAfterGap, DeliverLate, DeliverSame, ackVars
  <2>2. rxackseq'[e] \in {rxackseq[e], seq}
    BY <2>1, <1>3 DEF FlightInv, TypeOK
  <2> QED
    BY <2>2, <1>4 DEF OwedInv, OwedAt
<1>6. CASE DeliverInOrder(e, sendack)
  <2> DEFINE count == rxunacked[e] + 1
             ct == AtMost(rxackct[e] + 1, AckctMax)
             new == AckPkt(e, 0, AckArg(e), ct)
  <2>1. /\ rxackseq'[e] = seq /\ seq = rxackseq[e] + 1 /\ rxackct'[e] = ct
    BY <1>2, <1>3, <1>6 DEF DeliverInOrder, ArgDiff, FlightInv, TypeOK
  <2>2. ct \in 0 .. AckctMax /\ rxunacked[e] <= ct
    BY <1>2, ConstantFacts DEF AtMost
  <2>3. CASE count < AckAckPackets
    <3>1. /\ net' = net /\ rxunacked'[e] = count
          /\ acktimer'[e] = AckTimerAfter(e, sendack)
      <4>1. ~(count >= AckAckPackets)
        BY <2>3, <1>2, ConstantFacts
      <4>2. /\ net' = net /\ rxunacked' = [rxunacked EXCEPT ![e] = count]
            /\ acktimer' = [acktimer EXCEPT ![e] = AckTimerAfter(e, sendack)]
        BY <4>1, <1>6 DEF DeliverInOrder
      <4> HIDE DEF count
      <4> QED
        BY <4>2 DEF FlightInv, TypeOK
    <3>2. count <= ct
      BY <2>3, <1>2, ConstantFacts DEF AtMost
    <3>3. ASSUME NEW s \in owed[e] PROVE Named(e, s)' \/ Pending(e, s)'
      <4>1. CASE Named(e, s)
        BY <4>1, <3>1 DEF Named, Names
      <4>2. CASE Pending(e, s)
        <5>1. acktimer'[e]
          BY <4>2, <3>1 DEF Pending, AckTimerAfter
        <5>2. /\ s \in seq - count + 1 .. seq /\ count > 0
          BY <4>2, <1>2, <2>1 DEF Pending
        <5> QED
          BY <5>1, <5>2, <2>1, <3>1 DEF Pending
      <4> QED
        BY <4>1, <4>2, <1>2
    <3>4. sendack => Pending(e, seq)'
      <4>1. sendack => acktimer'[e]
        BY <3>1 DEF AckTimerAfter
      <4>2. seq \in seq - count + 1 .. seq /\ count > 0
        BY <1>2
      <4> QED
        BY <4>1, <4>2, <2>1, <3>1 DEF Pending
    <3>5. \A s \in owed'[e] : Named(e, s)' \/ Pending(e, s)'
      BY <3>3, <3>4, <1>4
    <3> HIDE DEF ct, count
    <3> QED
      BY <2>1, <2>3, <3>1, <3>2, <3>5, <1>4, <1>5 DEF OwedAt
  <2>4. CASE count >= AckAckPackets
    <3>1. /\ net' = [net EXCEPT ![Peer(e)] = @ \cup {new}] /\ rxunacked'[e] = 0
      BY <1>2, <1>6, <2>4, ConstantFacts DEF DeliverInOrder, Send, FlightInv, TypeOK
    <3>2. Carries(new, seq, ct)
      BY <1>3 DEF Carries, AckPkt, Pkt
    <3>3. ASSUME NEW s \in owed[e] PROVE Named(e, s)'
      <4>1. CASE Named(e, s)
        <5> HIDE DEF new
        <5> QED BY <4>1, <3>1, NamedStays
      <4>2. CASE Pending(e, s)
        <5>1. s \in Int /\ s <= seq /\ seq - s <= ct
          BY <4>2, <1>2, <2>1, <2>2 DEF Pending
        <5> HIDE DEF new, ct
        <5>2. Names(new, s)
          BY <5>1, <3>2, <2>2, <1>2, CarriesNames
        <5> QED
          BY <5>2, <3>1, SentNames
      <4> QED
        BY <4>1, <4>2, <1>2
    <3>4. Named(e, seq)'
      <4>1. seq \in Int /\ seq <= seq /\ seq - seq <= ct
        BY <1>2, <2>2
      <4> HIDE DEF new, ct
      <4>2. Names(new, seq)
        BY <4>1, <3>2, <2>2, <1>2, CarriesNames
      <4> QED
        BY <4>2, <3>1, SentNames
    <3>5. \A s \in owed'[e] : Named(e, s)'
      BY <3>3, <3>4, <1>4
    <3> HIDE DEF ct
    <3> QED
      BY <2>1, <2>2, <3>1, <3>5, <1>4, <1>5, ConstantFacts DEF OwedAt
  <2> QED
    BY <2>3, <2>4, <1>2, ConstantFacts
<1>7. CASE DeliverAfterGap(e, sendack) \/ DeliverLate(e, sendack)
  <2> DEFINE late == AckPkt(e, FlushCount(e), AckArg(e), 0)
             pkts == FlushPkts(e) \cup (IF sendack THEN {late} ELSE {})
  <2>1. /\ net' = [net EXCEPT ![Peer(e)] = @ \cup pkts] /\ rxunacked'[e] = 0
        /\ rxackct'[e] \in Nat
    <3>1. rxackct' = rxackct \/ rxackct' = [rxackct EXCEPT ![e] = 0]
      BY <1>7 DEF DeliverAfterGap, DeliverLate
    <3> QED
      BY <3>1, <1>7 DEF DeliverAfterGap, DeliverLate, Send, FlightInv, TypeOK
  <2>2. Carries(late, seq, 0)
    BY <1>3 DEF Carries, AckPkt, Pkt
  <2>3. Names(late, seq)
    <3>1. 0 \in 0 .. AckctMax /\ seq \in Int /\ seq <= seq /\ seq - seq <= 0
      BY <1>2, ConstantFacts
    <3> HIDE DEF late
    <3> QED BY <3>1, <2>2, <1>2, CarriesNames
  <2>4. ASSUME NEW s \in owed'[e] PROVE Named(e, s)'
    <3> HIDE DEF late
    <3>1. CASE s \in owed[e] /\ Named(e, s)
      <4> HIDE DEF pkts
      <4> QED BY <3>1, <2>1, NamedStays
    <3>2. CASE s \in owed[e] /\ Pending(e, s)
      <4>1. PICK q \in FlushPkts(e) : Names(q, s)
        BY <3>2, FlushNames
      <4>2. q \in pkts
        OBVIOUS
      <4> HIDE DEF pkts
      <4> QED BY <4>1, <4>2, <2>1, SentNames
    <3>3. CASE s = seq /\ sendack
      <4>1. late \in pkts
        BY <3>3
      <4> HIDE DEF pkts
      <4> QED BY <3>3, <4>1, <2>1, <2>3, SentNames
    <3> QED
      BY <3>1, <3>2, <3>3, <1>2, <1>4
  <2> QED
    BY <2>1, <2>4, <1>4, <1>5, ConstantFacts DEF OwedAt
<1>8. CASE DeliverSame(e, sendack)
  <2>1. AckArg(e) - rxackseq[e] = 0
    BY <1>8 DEF DeliverSame, ArgDiff
  <2> QED
    BY <2>1, <1>2, <1>3
<1> QED
  BY <1>6, <1>7, <1>8

(* The end that no handler runs at. *)
LEMMA OwedOther ==
    ASSUME FlightInv, OwedInv, NEW e \in Endpoint, NEW f \in Endpoint, f # e,
           \/ FlowTransmit(e) \/ AckTimeout(e)
           \/ \E sendack \in SendAckChoices(e) :
                 \/ DeliverInOrder(e, sendack) \/ DeliverAfterGap(e, sendack)
                 \/ DeliverLate(e, sendack) \/ DeliverSame(e, sendack)
    PROVE  OwedAt(f)'
<1>1. /\ rxackseq \in [Endpoint -> Nat] /\ rxackct \in [Endpoint -> 0 .. AckctMax]
      /\ rxunacked \in [Endpoint -> 0 .. AckAckPackets]
      /\ net \in [Endpoint -> SUBSET Packet] /\ rxpkt \in [Endpoint -> Packet]
      /\ owed \in [Endpoint -> SUBSET Nat] /\ delivered \in [Endpoint -> SUBSET Nat]
      /\ acktimer \in [Endpoint -> BOOLEAN]
      /\ Peer(f) # Peer(e) /\ Peer(f) \in Endpoint /\ Peer(e) \in Endpoint
  BY PeerFacts DEF FlightInv, TypeOK
<1>2. CASE FlowTransmit(e) \/ AckTimeout(e)
  <2>1. /\ UNCHANGED <<active, rxackseq, rxackct, rxpkt, owed, delivered>>
        /\ rxunacked' = [rxunacked EXCEPT ![e] = 0]
        /\ \E t : acktimer' = [acktimer EXCEPT ![e] = t]
        /\ \E pkts : net' = [net EXCEPT ![Peer(e)] = @ \cup pkts]
    BY <1>2 DEF FlowTransmit, AckTimeout, Send, handlerVars, answers
  <2>2. /\ rxunacked'[f] = rxunacked[f] /\ acktimer'[f] = acktimer[f]
        /\ net'[Peer(f)] = net[Peer(f)]
    BY <1>1, <2>1
  <2> QED
    BY <2>1, <2>2, OwedUntouched DEF OwedInv, OwedAt, Idle
<1>3. ASSUME NEW sendack \in SendAckChoices(e),
             \/ DeliverInOrder(e, sendack) \/ DeliverAfterGap(e, sendack)
             \/ DeliverLate(e, sendack) \/ DeliverSame(e, sendack)
      PROVE  OwedAt(f)'
  <2>1. Acknowledged(e, sendack) /\ Finish(e)
    BY <1>3 DEF DeliverInOrder, DeliverAfterGap, DeliverLate, DeliverSame
  <2>2. /\ active' = active
        /\ \E S : owed' = [owed EXCEPT ![e] = S]
        /\ delivered' = [delivered EXCEPT ![e] = @ \cup {rxpkt[e].seq}]
        /\ rxpkt' = [rxpkt EXCEPT ![e] = NoPacket]
    BY <2>1 DEF Acknowledged, Finish
  <2>3. /\ rxackseq' = rxackseq \/ \E x : rxackseq' = [rxackseq EXCEPT ![e] = x]
        /\ rxackct' = rxackct \/ \E x : rxackct' = [rxackct EXCEPT ![e] = x]
        /\ rxunacked' = rxunacked \/ \E x : rxunacked' = [rxunacked EXCEPT ![e] = x]
        /\ acktimer' = acktimer \/ \E x : acktimer' = [acktimer EXCEPT ![e] = x]
        /\ net' = net \/ \E x : net' = [net EXCEPT ![Peer(e)] = @ \cup x]
    BY <1>3 DEF DeliverInOrder, DeliverAfterGap, DeliverLate, DeliverSame, Send,
                ackVars
  <2>4. /\ rxackseq'[f] = rxackseq[f] /\ rxackct'[f] = rxackct[f]
        /\ rxunacked'[f] = rxunacked[f]
    BY <1>1, <2>3
  <2>5. acktimer'[f] = acktimer[f]
    BY <1>1, <2>3
  <2>6. net'[Peer(f)] = net[Peer(f)]
    BY <1>1, <2>3
  <2>7. /\ owed'[f] = owed[f] /\ delivered'[f] = delivered[f]
        /\ rxpkt'[f] = rxpkt[f]
    BY <1>1, <2>2
  <2> QED
    BY <2>2, <2>4, <2>5, <2>6, <2>7, OwedUntouched DEF OwedInv, OwedAt, Idle
<1> QED
  BY <1>2, <1>3

(* Before the numbers wrap, no step forgets an acknowledgment. *)
LEMMA OwedNext ==
    ASSUME AckAckPackets <= AckctMax + 1, FlightInv, ReplayInv, AckInv, OwedInv,
           Unwrapped, [Next]_vars
    PROVE  OwedInv'
<1> SUFFICES ASSUME NEW f \in Endpoint PROVE OwedAt(f)'
  BY DEF OwedInv
<1>1. /\ active \in [Endpoint -> BOOLEAN] /\ acktimer \in [Endpoint -> BOOLEAN]
      /\ rxpkt \in [Endpoint -> Packet] /\ delivered \in [Endpoint -> SUBSET Nat]
  BY DEF FlightInv, TypeOK
<1>2. rxpkt[f] # NoPacket => rxpkt[f].seq # 0
  BY DEF OwedInv, OwedAt, Idle
<1>3. CASE UNCHANGED vars
  <2>1. UNCHANGED <<rxackseq, rxackct, rxunacked, owed, net, delivered, active,
                    acktimer, rxpkt>>
    BY <1>3 DEF vars, ackVars, handlerVars, answers
  <2> QED
    BY <1>2, <2>1, OwedUntouched
<1>4. ASSUME NEW e \in Endpoint,
             \/ MayTransmit(e)
             \/ \E failed \in BOOLEAN : RtxTimeout(e, failed)
             \/ \E p \in net[e] : ReceiveImplausible(e, p)
      PROVE  OwedAt(f)'
  <2>1. UNCHANGED <<rxackseq, rxackct, rxunacked, owed, net, delivered, active,
                    acktimer, rxpkt>>
    BY <1>4 DEF MayTransmit, RtxTimeout, ReceiveImplausible, ackVars,
                handlerVars, answers
  <2> QED
    BY <1>2, <2>1, OwedUntouched
<1>5. ASSUME NEW e \in Endpoint, NEW p \in net[e], Receive(e, p)
      PROVE  OwedAt(f)'
  <2>1. /\ UNCHANGED <<rxackseq, rxackct, rxunacked, owed, net, delivered,
                       active, acktimer>>
        /\ rxpkt' = [rxpkt EXCEPT ![e] = p]
    BY <1>5 DEF Receive, ackVars, answers
  <2>2. p.seq # 0
    <3>1. Seen(e, 0)
      BY DEF ReplayInv
    <3>2. ~Seen(e, p.seq)
      BY <1>5, WindowRemembers DEF Receive
    <3> QED
      BY <3>1, <3>2
  <2>3. rxpkt'[f] # NoPacket => rxpkt'[f].seq # 0
    BY <1>1, <1>2, <2>1, <2>2
  <2> QED
    BY <2>1, <2>3, OwedUntouched
<1>6. ASSUME NEW e \in Endpoint, Stop(e) PROVE OwedAt(f)'
  <2>1. /\ UNCHANGED <<rxackseq, rxackct, rxunacked, owed, net, delivered, rxpkt>>
        /\ active' = [active EXCEPT ![e] = FALSE]
        /\ acktimer' = [acktimer EXCEPT ![e] = FALSE]
    BY <1>6 DEF Stop, handlerVars, answers
  <2>2. CASE f = e
    <3>1. ~active'[f]
      BY <2>1, <2>2, <1>1
    <3> QED
      BY <3>1, <2>1, <1>2, OwedUntouched
  <2>3. CASE f # e
    <3>1. active'[f] = active[f] /\ acktimer'[f] = acktimer[f]
      BY <2>1, <2>3, <1>1
    <3> QED
      BY <3>1, <2>1, <1>2, OwedUntouched
  <2> QED
    BY <2>2, <2>3
<1>7. ASSUME NEW e \in Endpoint, FlowTransmit(e) \/ AckTimeout(e)
      PROVE  OwedAt(f)'
  BY <1>7, OwedTransmit, OwedAckTimeout, OwedOther
<1>8. ASSUME NEW e \in Endpoint, Deliver(e) PROVE OwedAt(f)'
  <2>1. CASE DeliverRefused(e)
    <3>1. /\ UNCHANGED <<rxackseq, rxackct, rxunacked, owed, net, active, acktimer>>
          /\ rxpkt' = [rxpkt EXCEPT ![e] = NoPacket]
          /\ delivered' = [delivered EXCEPT ![e] = @ \cup {rxpkt[e].seq}]
      BY <2>1 DEF DeliverRefused, Finish, ackVars
    <3>2. /\ rxpkt'[f] # NoPacket => rxpkt'[f].seq # 0
          /\ delivered[f] \subseteq delivered'[f]
      BY <3>1, <1>1, <1>2
    <3> QED
      BY <3>1, <3>2, OwedUntouched
  <2>2. ASSUME NEW sendack \in SendAckChoices(e),
               \/ DeliverInOrder(e, sendack) \/ DeliverAfterGap(e, sendack)
               \/ DeliverLate(e, sendack) \/ DeliverSame(e, sendack)
        PROVE  OwedAt(f)'
    <3>1. sendack \in BOOLEAN
      BY SendAckType
    <3>2. CASE f = e
      BY <3>1, <3>2, <2>2, OwedDeliver
    <3>3. CASE f # e
      BY <3>3, <2>2, OwedOther
    <3> QED
      BY <3>2, <3>3
  <2> QED
    BY <1>8, <2>1, <2>2 DEF Deliver
<1> QED
  BY <1>3, <1>4, <1>5, <1>6, <1>7, <1>8 DEF Next

(* Nothing is owed at the start. *)
LEMMA OwedInit == Init => OwedInv
<1> SUFFICES ASSUME Init, NEW e \in Endpoint PROVE OwedAt(e)
  BY DEF OwedInv
<1>1. /\ rxackseq[e] = 0 /\ rxackct[e] = 0 /\ rxunacked[e] = 0
      /\ rxpkt[e] = NoPacket /\ owed[e] = {}
  BY DEF Init
<1> QED
  BY <1>1, ConstantFacts DEF OwedAt, Idle

(* Before the numbers wrap, and as long as no more acknowledgments are     *)
(* delayed than the ackct field can express (ACKACKPACKETS is 4, ackctMax  *)
(* is 15), every acknowledgment that flowReceive() asked for has been sent *)
(* or the delayed-acknowledgment timer is running for it.                  *)
THEOREM AcksRemembered ==
    ASSUME AckAckPackets <= AckctMax + 1
    PROVE  Spec => [](Unwrapped => AckNotForgotten)
<1>1. Init => (Unwrapped => OwedInv)
  BY OwedInit
<1>2. FlightInv /\ FlightInv' /\ ReplayInv /\ AckInv /\ (Unwrapped => OwedInv)
      /\ [Next]_vars => (Unwrapped => OwedInv)'
  BY OwedNext, UnwrappedBefore
<1>3. FlightInv /\ (Unwrapped => OwedInv) => (Unwrapped => AckNotForgotten)
  <2> SUFFICES ASSUME FlightInv, OwedInv, NEW e \in Endpoint, active[e],
                      NEW s \in owed[e]
               PROVE  \/ \E q \in net[Peer(e)] : Names(q, s)
                      \/ /\ acktimer[e] /\ rxunacked[e] > 0
                         /\ s \in rxackseq[e] - rxackct[e] .. rxackseq[e]
    BY DEF AckNotForgotten
  <2>1. /\ rxackseq[e] \in Nat /\ rxackct[e] \in Nat /\ rxunacked[e] \in Nat
        /\ rxunacked[e] <= rxackct[e]
    BY DEF FlightInv, TypeOK, OwedInv, OwedAt
  <2>2. CASE Named(e, s)
    BY <2>2 DEF Named
  <2>3. CASE Pending(e, s)
    BY <2>1, <2>3 DEF Pending
  <2> QED
    BY <2>2, <2>3 DEF OwedInv, OwedAt
<1>4. Spec => []ReplayInv
  <2>1. Init => ReplayInv
    BY ReplayInit
  <2>2. FlightInv /\ ReplayInv /\ [Next]_vars => ReplayInv'
    BY ReplayNext
  <2> QED
    BY <2>1, <2>2, FlightCorrect, PTL DEF Spec
<1> QED
  BY <1>1, <1>2, <1>3, <1>4, FlightCorrect, AcksNameSent, PTL DEF Spec
=============================================================================
