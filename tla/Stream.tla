------------------------------- MODULE Stream -------------------------------
(***************************************************************************)
(* One direction of a stream from end to end: the sending half (StreamTx), *)
(* packets dispatched to the receiving half by BaseStream::receive in      *)
(* lib/strm/base.cc, and the receiving half (StreamRx).                    *)
(***************************************************************************)
EXTENDS StreamTx, StreamRx

ASSUME StreamAssumption == MinReceiveBuffer = 2 * MTU

VARIABLES
    opened,     \* the receiver created the stream: its USID is registered
    ratt,       \* ratt[0] there: flow (0 if unused) and reference sequence
    phantom,    \* flow (or 0) on which it created a second one for this USID
    marks       \* message ends written by the application (history)

vars == <<txvars, rxvars, opened, ratt, phantom, marks>>

Init ==
    /\ TxInit /\ RxInit
    /\ opened = FALSE /\ ratt = [flow |-> 0, sidseq |-> 0]
    /\ phantom = 0 /\ marks = {}

-----------------------------------------------------------------------------
(* Dispatch of a packet the receiver's flow delivers, once                 *)

Attached(n) == ratt.flow = pkts[n].flow

\* The packet leaves the network; ack says whether the receiver's flow may
\* acknowledge it.
Arrive(n, ack) ==
    /\ wire' = wire \ {n}
    /\ acks' = IF ack THEN acks \cup ({n} \cap inflight) ELSE acks
    /\ pkts' = [m \in inflight \cup wire' |-> pkts[m]]
    /\ UNCHANGED <<tasn, endwrite, twait, twaitsize, tqueue, tqflow, tflt,
                   parenttflt, att, init, usidflow, waiting, flow, nflows,
                   npkts, inflight, writes, faults, marks>>

\* rxSubstream(): a new stream, attached where the packet came from.
RxSubstream(n) ==
    /\ opened' = TRUE
    /\ ratt' = [flow |-> pkts[n].flow, sidseq |-> n]
    /\ UNCHANGED phantom

Earlier(n) == [ratt EXCEPT !.sidseq = Min2(@, n)]

\* rxInitPacket() for a stream already attached to this flow, or a new one.
RxInitPacket(n) ==
    /\ pkts[n].type = "init"
    /\ \/ Attached(n) /\ ratt' = Earlier(n) /\ UNCHANGED <<opened, phantom>>
       \/ ~opened /\ RxSubstream(n)
    /\ RxData(pkts[n].seg)
    /\ Arrive(n, TRUE)

\* rxInitPacket() does not look for the USID: an Init that was delayed until
\* the stream moved to another flow creates a second stream under the same
\* USID, and its segment goes to that one.
RxInitDelayed(n) ==
    /\ pkts[n].type = "init"
    /\ opened /\ ~Attached(n)
    /\ phantom' = pkts[n].flow
    /\ Arrive(n, TRUE)
    /\ UNCHANGED <<rxvars, opened, ratt>>

\* rxDataPacket(): a packet for an unknown SID is acknowledged and dropped
\* (txReset() is not implemented), one older than the attachment dropped.
RxDataPacket(n) ==
    /\ pkts[n].type = "data"
    /\ IF ~Attached(n)
       THEN Arrive(n, TRUE) /\ UNCHANGED rxvars
       ELSE IF n < ratt.sidseq
       THEN Arrive(n, FALSE) /\ UNCHANGED rxvars
       ELSE Arrive(n, TRUE) /\ RxData(pkts[n].seg)
    /\ UNCHANGED <<opened, ratt, phantom>>

\* rxAttachPacket(): attach the stream known by this USID, in place of the
\* attachment it had; a second stream under the USID is the one found.
RxAttachKnown(n) ==
    /\ pkts[n].type = "attach" /\ opened
    /\ IF phantom # 0
       THEN /\ phantom' = pkts[n].flow
            /\ ratt' = IF Attached(n) THEN [flow |-> 0, sidseq |-> 0] ELSE ratt
       ELSE /\ ratt' = IF Attached(n) THEN Earlier(n)
                       ELSE [flow |-> pkts[n].flow, sidseq |-> n]
            /\ UNCHANGED phantom
    /\ Arrive(n, TRUE)
    /\ UNCHANGED <<rxvars, opened>>

\* rxAttachPacket() for an unknown stream: create it if the packet says so and
\* the parent's USID is registered, which a root's is not; otherwise only
\* acknowledge the packet (txReset() again).
RxAttachUnknown(n) ==
    /\ pkts[n].type = "attach" /\ ~opened
    /\ IF pkts[n].creates /\ ~RootParent
       THEN RxSubstream(n)
       ELSE UNCHANGED <<opened, ratt, phantom>>
    /\ Arrive(n, TRUE)
    /\ UNCHANGED rxvars

Deliver(n) ==
    \/ RxInitPacket(n) \/ RxInitDelayed(n) \/ RxDataPacket(n)
    \/ RxAttachKnown(n) \/ RxAttachUnknown(n)

-----------------------------------------------------------------------------

\* The application writes; where it ended a message is remembered.
AppWrite ==
    /\ \/ \E n \in WriteSizes : WriteData(n, {"push"}) /\ UNCHANGED marks
       \/ \E n \in MessageSizes :
            WriteData(n, {"message"}) /\ marks' = marks \cup {tasn'}
       \/ \E n \in CloseSizes :
            WriteData(n, {"close"}) /\ marks' = marks \cup {tasn'}
    /\ UNCHANGED <<rxvars, opened, ratt, phantom>>

Sender ==
    /\ \/ Transmit \/ WindowUpdate \/ FlowStarted \/ ClearPrimary
       \/ \E n \in inflight : Acked(n) \/ Missed(n)
    /\ UNCHANGED <<rxvars, opened, ratt, phantom, marks>>

Network ==
    /\ \E n \in wire : Lose(n)
    /\ UNCHANGED <<rxvars, opened, ratt, phantom, marks>>

App ==
    /\ opened
    /\ Reader
    /\ UNCHANGED <<txvars, opened, ratt, phantom, marks>>

Next ==
    \/ AppWrite \/ Sender \/ Network \/ App
    \/ \E n \in wire : Deliver(n)

Spec == Init /\ [][Next]_vars

\* Steps named by what they do to the packets: one arrives (Deliver), one gets
\* its verdict (Acked, or Missed for one that did not make it).
Arrival == \E n \in wire : wire' = wire \ {n} /\ UNCHANGED faults

Verdict ==
    \E n \in inflight :
       (n \in acks \/ n \notin wire) /\ inflight' = inflight \ {n}

\* The network delivers what it does not lose, the flow reaches a verdict on
\* every packet and transmits what is queued, and a flow comes up: what the
\* module Flow shows of a flow whose link is up.  Nothing is assumed of the
\* applications.
Fairness ==
    /\ WF_wire(Arrival)
    /\ WF_inflight(Verdict)
    /\ WF_vars(tqflow /\ Transmit /\ UNCHANGED <<rxvars, opened, ratt, phantom, marks>>)
    /\ WF_vars(FlowStarted /\ UNCHANGED <<rxvars, opened, ratt, phantom, marks>>)

FairSpec == Spec /\ Fairness

-----------------------------------------------------------------------------
(* Properties                                                              *)

\* Type of the whole state.
TypeOK ==
    /\ TxTypeOK /\ RxTypeOK
    /\ opened \in BOOLEAN
    /\ ratt \in [flow : 0 .. nflows, sidseq : 0 .. npkts]
    /\ phantom \in 0 .. nflows
    /\ marks \subseteq 0 .. tasn

Held(b, segs) == \E s \in segs : s.tsn <= b /\ b < s.tsn + s.size

Pending == Range(tqueue)
             \cup {pkts[n].seg : n \in {m \in inflight : pkts[m].type # "attach"}}

\* No byte is lost on the way: each one written is with the receiver, or the
\* sender still holds it in a segment that is queued or awaits its verdict.
\* (An acknowledgment lets the sender forget a segment: acked(), and the
\* garbage collection in transmit().)
EveryByteHeld ==
    \A b \in 0 .. tasn - 1 :
       endread \/ b < rsn \/ Held(b, Range(rahead)) \/ Held(b, Pending)

\* A segment stays in twait until it is acknowledged, and while it is there it
\* is queued or in flight, through losses, requeueing and changes of flow.
RetainedUntilAcked ==
    \A t \in twait : \E s \in Pending : s.tsn = t

\* Something will make the flow take a segment that waits in the queue: the
\* stream is on the flow's queue, waits for a flow, or waits for the verdict
\* on a packet that attaches it.
QueuedWillBeSent ==
    tqueue # <<>> => \/ tqflow \/ waiting
                     \/ att = "attaching" /\ inflight # {}

\* The in-flight counters are the bytes of the packets in flight, each charged
\* to the stream that sent it: Init packets to the parent, which gets them back
\* even when they are retransmitted under another header.
FlightBytes ==
    /\ tflt = InFlightBytes("data", inflight)
    /\ parenttflt = InFlightBytes("init", inflight)

\* As long as the reader has nothing to read, the window it advertises lets
\* the sender send a full segment, so a gap in front of a full reorder buffer
\* can be filled.
\* (calcReceiveWindow, calcTransmitWindow)
GapFillable == ravail = 0 /\ ~endread => AdvertisedWindow >= MTU

\* Ends of the messages that wait to be read, as positions in the stream.
QueuedEnds ==
    {consumed + FoldLeft(+, 0, SubSeq(rmsgsize, 1, i)) : i \in DOMAIN rmsgsize}

\* The reader finds a message end exactly where the writer put one, at least
\* up to the last byte received.  (rxData)
MessageFraming ==
    ~endread =>
      /\ QueuedEnds \subseteq marks
      /\ \A m \in marks : consumed < m /\ m < rsn => m \in QueuedEnds
      /\ rmsgavail = rsn - Max(QueuedEnds \cup {consumed})

RS == INSTANCE ReliableStream
        WITH written <- tasn, closed <- endwrite, read <- consumed, end <- ended

\* The two halves together implement the reliable stream of lib/stream.h.
StreamPromise == RS!Spec

\* Every byte written reaches the receiver, unless it stopped reading.
AllDelivered ==
    \A b \in 1 .. MaxBytes : tasn >= b ~> (rsn >= b \/ endread)
=============================================================================
