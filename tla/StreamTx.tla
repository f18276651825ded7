------------------------------ MODULE StreamTx ------------------------------
(***************************************************************************)
(* The sending half of one stream (BaseStream in lib/strm/base.cc) and the *)
(* part of StreamFlow (lib/strm/sflow.cc) that holds its packets: writing, *)
(* the transmit queue, attaching to the peer's primary flow, transmission, *)
(* and the verdicts acked, missed and expire that come back from Flow.     *)
(*                                                                         *)
(* Of the flow below only what the module Flow shows is used: a packet in  *)
(* flight gets one verdict, an acknowledged packet was received, and a     *)
(* packet reaches the receiver at most once.  A packet presumed lost stays *)
(* in ackwait, marked late, until Flow expires it; no other verdict comes  *)
(* and BaseStream::expire does nothing, so those are not kept here.        *)
(*                                                                         *)
(* The stream is the initiating end and its peer sends no data back, so it *)
(* attaches with Init or Attach packets, never with Reply.  A stream       *)
(* carries bytes; byte b of the model is the b-th byte ever written, so a  *)
(* segment is a start, a size and flags.                                   *)
(***************************************************************************)
EXTENDS Integers, Sequences, FiniteSetsExt

CONSTANTS
    MTU,            \* mtu, 1200
    InitMaxTsn,     \* highest TSN an Init packet carries, 0xffff
    RootParent,     \* the stream is top-level: its parent is a flow's root
    WriteSizes,     \* sizes the application writes with writeData()
    MessageSizes,   \* sizes it writes with writeMessage()
    CloseSizes,     \* sizes it writes together with the close flag
    MaxBytes,       \* bound: bytes written
    MaxWrites,      \* bound: calls of writeData
    MaxFlows,       \* bound: primary flows the peer ever has
    MaxFaults       \* bound: packets lost, or presumed lost wrongly

ASSUME StreamTxAssumption ==
    /\ MTU \in Nat \ {0}
    /\ InitMaxTsn \in Nat
    /\ RootParent \in BOOLEAN
    /\ WriteSizes \subseteq Nat /\ MessageSizes \subseteq Nat
    /\ CloseSizes \subseteq Nat
    /\ MaxBytes \in Nat /\ MaxWrites \in Nat /\ MaxFlows \in Nat
    /\ MaxFaults \in Nat

VARIABLES
    \* byte transmit state
    tasn, endwrite, twait, twaitsize, tqueue, tqflow, tflt,
    parenttflt,     \* what this stream's Init packets add to parent->tflt
    \* attachment: tcuratt, init, the flow whose channel id is in the USID
    att, init, usidflow, waiting,
    \* the peer's primary flow (0 for none) and the flows it has had
    flow, nflows,
    \* the flow's side: packets sent, those in ackwait without a verdict,
    \* those still in the network, those the receiver's flow acknowledged,
    \* and what the packets of the first two sets carry
    npkts, inflight, wire, acks, pkts,
    \* bounds
    writes, faults

txvars == <<tasn, endwrite, twait, twaitsize, tqueue, tqflow, tflt,
            parenttflt, att, init, usidflow, waiting, flow, nflows,
            npkts, inflight, wire, acks, pkts, writes, faults>>

Flag == {"push", "message", "close"}

Segment == [tsn : Nat, size : Nat, flags : SUBSET Flag]

\* A packet on the wire: a segment under an Init or Data header, or an Attach
\* packet, which carries none.  "creates" is the attachInitFlag.
Packet == [type : {"init", "data", "attach"}, flow : Nat \ {0},
           seg : Segment, creates : BOOLEAN]

NoSegment == [tsn |-> 0, size |-> 0, flags |-> {}]

TxInit ==
    /\ tasn = 0 /\ endwrite = FALSE
    /\ twait = {} /\ twaitsize = 0
    /\ tqueue = <<>> /\ tqflow = FALSE
    /\ tflt = 0 /\ parenttflt = 0
    /\ att = "none" /\ init = TRUE /\ usidflow = 0 /\ waiting = FALSE
    /\ flow = 0 /\ nflows = 0
    /\ npkts = 0 /\ inflight = {} /\ wire = {} /\ acks = {} /\ pkts = <<>>
    /\ writes = 0 /\ faults = 0

-----------------------------------------------------------------------------
(* Queueing                                                                *)

\* Where txenqueue() puts a segment: behind every one with the same or a
\* lower TSN.
QueuePos(q, s) == Cardinality({i \in DOMAIN q : q[i].tsn <= s.tsn})

Enqueued(q, s) ==
    SubSeq(q, 1, QueuePos(q, s)) \o <<s>>
      \o SubSeq(q, QueuePos(q, s) + 1, Len(q))

\* txenqflow() once the queue is q; without an attachment it is tattach(),
\* which starts one on the primary flow or waits for flowConnected().
TxEnqFlow(q) ==
    IF att # "none"
    THEN /\ tqflow' = (tqflow \/ q # <<>>)
         /\ UNCHANGED <<att, usidflow, waiting>>
    ELSE IF flow = 0
    THEN /\ waiting' = TRUE
         /\ UNCHANGED <<tqflow, att, usidflow>>
    ELSE /\ att' = "attaching"
         /\ usidflow' = IF usidflow = 0 THEN flow ELSE usidflow
         /\ tqflow' = (q # <<>>)
         /\ UNCHANGED waiting

-----------------------------------------------------------------------------
(* The application                                                         *)

Min2(a, b) == IF a < b THEN a ELSE b

\* The segments one call of writeData(n) makes: mtu bytes each, the flags on
\* the last; an empty write still makes one.
Segments(n, endflags) ==
    LET k == IF n = 0 THEN 1 ELSE (n + MTU - 1) \div MTU
    IN  [i \in 1 .. k |->
           [tsn   |-> tasn + (i - 1) * MTU,
            size  |-> Min2(MTU, n - (i - 1) * MTU),
            flags |-> IF i = k THEN {"push"} \cup endflags ELSE {}]]

WriteData(n, endflags) ==
    /\ ~endwrite
    /\ writes < MaxWrites /\ tasn + n <= MaxBytes
    /\ LET segs == Segments(n, endflags)
       IN  /\ tqueue' = tqueue \o segs
           /\ twait' = twait \cup {segs[i].tsn : i \in DOMAIN segs}
           /\ TxEnqFlow(tqueue')
    /\ tasn' = tasn + n
    /\ twaitsize' = twaitsize + n
    /\ endwrite' = ("close" \in endflags)
    /\ writes' = writes + 1
    /\ UNCHANGED <<tflt, parenttflt, init, flow, nflows, npkts, inflight, wire,
                   acks, pkts, faults>>

-----------------------------------------------------------------------------
(* Transmission                                                            *)

\* Segments at the head of the queue whose TSN is no longer in twait.
Dead == {k \in 0 .. Len(tqueue) : \A i \in 1 .. k : tqueue[i].tsn \notin twait}

LiveQueue ==
    LET k == CHOOSE k \in Dead : \A j \in Dead : j <= k
    IN  SubSeq(tqueue, k + 1, Len(tqueue))

Put(type, seg) ==
    LET pkt == [type |-> type, flow |-> flow, seg |-> seg, creates |-> init]
    IN  /\ npkts' = npkts + 1
        /\ inflight' = inflight \cup {npkts'}
        /\ wire' = wire \cup {npkts'}
        /\ pkts' = [n \in inflight' \cup wire' |->
                      IF n = npkts' THEN pkt ELSE pkts[n]]

TxFrame == UNCHANGED <<tasn, endwrite, twait, twaitsize, att, init, usidflow,
                       waiting, flow, nflows, acks, writes, faults>>

\* The flow took the stream off its queue, but everything was acknowledged.
TransmitNothing ==
    /\ tqflow /\ LiveQueue = <<>>
    /\ tqueue' = <<>> /\ tqflow' = FALSE
    /\ TxFrame
    /\ UNCHANGED <<tflt, parenttflt, npkts, inflight, wire, pkts>>

\* Fault: the stream does not get back on the flow's queue.
TransmitDataOnce ==
    /\ tqflow /\ LiveQueue # <<>>
    /\ att = "active"
    /\ Put("data", Head(LiveQueue))
    /\ tqueue' = Tail(LiveQueue)
    /\ tqflow' = FALSE
    /\ tflt' = tflt + Head(LiveQueue).size
    /\ TxFrame /\ UNCHANGED parenttflt

\* An acknowledged attachment: the next segment in a Data packet.
TransmitData ==
    /\ tqflow /\ LiveQueue # <<>>
    /\ att = "active"
    /\ Put("data", Head(LiveQueue))
    /\ tqueue' = Tail(LiveQueue)
    /\ tqflow' = (tqueue' # <<>>)
    /\ tflt' = tflt + Head(LiveQueue).size
    /\ TxFrame /\ UNCHANGED parenttflt

\* An Init packet needs a parent attached to the same flow (a root always is)
\* and the SID that the stream's USID was made from.
InitUsable == init /\ usidflow = flow /\ Head(LiveQueue).tsn <= InitMaxTsn

TransmitInit ==
    /\ tqflow /\ LiveQueue # <<>>
    /\ att = "attaching" /\ InitUsable
    /\ Put("init", Head(LiveQueue))
    /\ tqueue' = Tail(LiveQueue)
    /\ tqflow' = (tqueue' # <<>>)
    /\ parenttflt' = parenttflt + Head(LiveQueue).size
    /\ TxFrame /\ UNCHANGED tflt

TransmitAttach ==
    /\ tqflow /\ LiveQueue # <<>>
    /\ att = "attaching" /\ (InitUsable => ~RootParent)
    /\ Put("attach", NoSegment)
    /\ tqueue' = LiveQueue
    /\ tqflow' = FALSE
    /\ TxFrame /\ UNCHANGED <<tflt, parenttflt>>

Transmit == TransmitNothing \/ TransmitData \/ TransmitInit \/ TransmitAttach

-----------------------------------------------------------------------------
(* Verdicts from the flow                                                  *)

\* endflight(): whose in-flight count the packets of S leave.
InFlightBytes(type, S) ==
    MapThenSumSet(LAMBDA n : pkts[n].seg.size,
                  {n \in S : pkts[n].type = type})

\* Fault: the parent never gets its share back.
EndFlightParentKept(S) ==
    /\ tflt' = tflt - InFlightBytes("data", S)
    /\ UNCHANGED parenttflt

EndFlight(S) ==
    /\ tflt' = tflt - InFlightBytes("data", S)
    /\ parenttflt' = parenttflt - InFlightBytes("init", S)

\* Fault: lost segments are forgotten.
RequeuedNothing(S) == tqueue

\* The packets of S that missed() puts back on the queue.
Requeued(S) ==
    FoldSet(LAMBDA n, q : Enqueued(q, pkts[n].seg), tqueue,
            {n \in S : pkts[n].type # "attach"})

\* The packets of S are no longer in ackwait.
Settle(S) ==
    /\ inflight' = inflight \ S
    /\ acks' = acks \ S
    /\ pkts' = [n \in inflight' \cup wire |-> pkts[n]]
    /\ UNCHANGED <<npkts, wire>>

Acked(n) ==
    /\ n \in inflight /\ n \in acks
    /\ Settle({n})
    /\ EndFlight({n})
    /\ IF pkts[n].type # "attach" /\ pkts[n].seg.tsn \in twait
       THEN /\ twait' = twait \ {pkts[n].seg.tsn}
            /\ twaitsize' = twaitsize - pkts[n].seg.size
       ELSE UNCHANGED <<twait, twaitsize>>
    /\ IF att = "attaching"
       THEN /\ att' = "active" /\ init' = FALSE
            /\ tqflow' = (tqflow \/ tqueue # <<>>)
       ELSE UNCHANGED <<att, init, tqflow>>
    /\ UNCHANGED <<tasn, endwrite, tqueue, usidflow, waiting, flow, nflows,
                   writes, faults>>

\* The flow presumes a packet lost: rightly, or (a bounded number of times)
\* when it or its acknowledgment is only delayed.
Missed(n) ==
    /\ n \in inflight
    /\ IF n \in wire \cup acks
       THEN faults < MaxFaults /\ faults' = faults + 1
       ELSE UNCHANGED faults
    /\ Settle({n})
    /\ EndFlight({n})
    /\ tqueue' = Requeued({n})
    /\ TxEnqFlow(tqueue')
    /\ UNCHANGED <<tasn, endwrite, twait, twaitsize, init, flow, nflows, writes>>

\* rxAckPacket() on an acknowledged attachment: calcTransmitWindow() puts the
\* stream on the flow's queue when the window grew.  Nothing else depends on
\* the window: transmit() only logs that it is full.
WindowUpdate ==
    /\ att = "active"
    /\ tqflow' = (tqflow \/ tqueue # <<>>)
    /\ UNCHANGED <<tasn, endwrite, twait, twaitsize, tqueue, tflt, parenttflt,
                   att, init, usidflow, waiting, flow, nflows, npkts, inflight,
                   wire, acks, pkts, writes, faults>>

-----------------------------------------------------------------------------
(* The peer's primary flow                                                 *)

\* flowStarted(): a new primary flow, and flowConnected() to whoever waits.
FlowStarted ==
    /\ flow = 0 /\ nflows < MaxFlows
    /\ nflows' = nflows + 1 /\ flow' = nflows + 1
    /\ waiting' = FALSE
    /\ IF waiting /\ att = "none"
       THEN /\ att' = "attaching"
            /\ usidflow' = IF usidflow = 0 THEN flow' ELSE usidflow
            /\ tqflow' = (tqueue # <<>>)
       ELSE UNCHANGED <<att, usidflow, tqflow>>
    /\ UNCHANGED <<tasn, endwrite, twait, twaitsize, tqueue, tflt, parenttflt,
                   init, npkts, inflight, wire, acks, pkts, writes, faults>>

\* clearPrimary(): the primary flow failed or is being replaced.  detachAll()
\* clears the attachment, then returns the outstanding packets, each of which
\* asks for a new flow on its way back into the queue.
ClearPrimary ==
    /\ flow # 0 /\ nflows < MaxFlows
    /\ flow' = 0
    /\ att' = "none" /\ tqflow' = FALSE
    /\ Settle(inflight)
    /\ EndFlight(inflight)
    /\ tqueue' = Requeued(inflight)
    /\ waiting' = (waiting \/ inflight # {})
    /\ UNCHANGED <<tasn, endwrite, twait, twaitsize, init, usidflow, nflows,
                   writes, faults>>

\* A packet is lost in the network.
Lose(n) ==
    /\ n \in wire /\ faults < MaxFaults
    /\ wire' = wire \ {n}
    /\ pkts' = [m \in inflight \cup wire' |-> pkts[m]]
    /\ faults' = faults + 1
    /\ UNCHANGED <<tasn, endwrite, twait, twaitsize, tqueue, tqflow, tflt,
                   parenttflt, att, init, usidflow, waiting, flow, nflows,
                   npkts, inflight, acks, writes>>

-----------------------------------------------------------------------------
(* Properties                                                              *)

TxTypeOK ==
    /\ tasn \in 0 .. MaxBytes /\ endwrite \in BOOLEAN
    /\ twait \subseteq 0 .. tasn /\ twaitsize \in Nat
    /\ tqueue \in Seq(Segment) /\ tqflow \in BOOLEAN
    /\ tflt \in Nat /\ parenttflt \in Nat
    /\ att \in {"none", "attaching", "active"} /\ init \in BOOLEAN
    /\ waiting \in BOOLEAN
    /\ nflows \in 0 .. MaxFlows /\ flow \in {0, nflows}
    /\ usidflow \in 0 .. nflows
    /\ npkts \in Nat
    /\ inflight \subseteq 1 .. npkts /\ wire \subseteq 1 .. npkts
    /\ acks \subseteq inflight
    /\ DOMAIN pkts = inflight \cup wire
    /\ \A n \in DOMAIN pkts : pkts[n] \in Packet
    /\ writes \in 0 .. MaxWrites /\ faults \in 0 .. MaxFaults

=============================================================================
