------------------------------- MODULE Dialog -------------------------------
(***************************************************************************)
(* The streams two hosts hold with each other on one flow: lib/stream.cc,  *)
(* lib/strm/base.cc, dgram.cc and the tables of sflow.cc.  A client opens  *)
(* top-level streams to named services, either side opens substreams and   *)
(* sends datagrams, and each host finds from the stream ids, stream        *)
(* counters and unique stream ids (USIDs) in the packets which of its      *)
(* stream objects a packet is for, or makes a new one.                     *)
(*                                                                         *)
(* A host's state is a record and the methods of the code are operators    *)
(* from that record to the next, so that one call may make others as it    *)
(* does in the code.  A message of an application fits one segment.  The   *)
(* flow is up all the time: waiting for one is in the modules StreamTx and *)
(* Peer, moving to another in Stream, and there are segments of any size.  *)
(* Which of the streams on its queue the flow takes first (setPriority()   *)
(* and enqueueStream()) is left open.                                      *)
(***************************************************************************)
EXTENDS Integers, Sequences, FiniteSetsExt, SequencesExt

CONSTANTS
    Services,       \* services the client asks for
    Registered,     \* those a StreamServer listens on at the server
    SidMod,         \* stream ids are stream counters modulo this, 2 ^ 16
    Calls,          \* calls the applications make: <<side, method>>
    ListenModes,    \* modes the applications give listen()
    CWnd,           \* congestion window: packets in flight at most
    MaxConnects,    \* bound: top-level streams opened
    MaxCalls,       \* bound: other calls of the applications
    MaxFaults       \* bound: packets lost, or sent again after a rejection

Side == {"client", "server"}

Other(s) == IF s = "client" THEN "server" ELSE "client"

ASSUME DialogAssumption ==
    /\ Registered \subseteq Services
    /\ SidMod \in Nat /\ SidMod > 2 * (MaxConnects + MaxCalls + 1)
    /\ Calls \subseteq Side \X {"openSubstream", "writeMessage", "writeDatagram",
                                "writeReliable", "delete"}
    /\ ListenModes \subseteq {"reject", "accept", "inherit"}
    /\ CWnd \in Nat \ {0}

VARIABLES
    host,   \* both hosts: streams, tables, packets in ackwait
    net,    \* packets in the network
    used    \* how much of each bound is used

vars == <<host, net, used>>

-----------------------------------------------------------------------------
(* Streams                                                                 *)

NoUsid == <<"none", 0>>

\* A segment or datagram in tqueue.  A message takes one byte of the stream
\* in this model, "close" is the empty segment of a shutdown, "last" a message
\* that closes the stream too.  A datagram has a number of its own.
Item(type, tsn, msg, id) == [type |-> type, tsn |-> tsn, msg |-> msg, id |-> id]

Size(msg) == IF msg = "close" THEN 0 ELSE 1

Closes(msg) == msg \in {"close", "last"}

\* BaseStream::BaseStream() with the listen mode the parent hands down.  "out"
\* and "dgs" are the messages and datagrams written to it so far, "in" the
\* messages received on it, "taken" what was taken from rsubs (history).  The
\* stream objects of a host are numbered in the order they are made.
NewStream(parent, mode, state) ==
    [state |-> state, parent |-> parent, usid |-> NoUsid, pusid |-> NoUsid,
     init |-> TRUE, toplev |-> FALSE, svc |-> "none",
     listen |-> IF mode = "inherit" THEN mode ELSE "reject",
     strm |-> FALSE,
     att |-> "none", sid |-> 0, sidseq |-> 0, win |-> FALSE,
     tqueue |-> <<>>, tqflow |-> FALSE, twait |-> {}, endwrite |-> FALSE,
     rsn |-> 0, rahead |-> {}, rmsgs |-> <<>>, endread |-> FALSE,
     rsubs |-> <<>>, out |-> <<>>, in |-> <<>>, dgs |-> {}, taken |-> <<>>]

\* The root stream of a StreamFlow, attached both ways under the id 0.
Root == [NewStream(0, "reject", "Connected") EXCEPT
           !.usid = <<"client", 0>>, !.listen = "accept",
           !.init = FALSE, !.att = "active"]

\* StreamFlow's tables.  heard: packets received whose acknowledgment goes
\* with the next packet sent, asked for (ackdue) or not (quiet).
Init ==
    /\ host = [s \in Side |->
                 [strm |-> <<Root>>, rxsids |-> {<<0, 1>>}, usids |-> {},
                  txctr |-> 1, rxctr |-> 0, nseq |-> 0, ackwait |-> {},
                  heard |-> {}, quiet |-> {}, ackdue |-> FALSE,
                  rconns |-> <<>>]]
    /\ net = {}
    /\ used = [connects |-> 0, calls |-> 0, faults |-> 0]

-----------------------------------------------------------------------------
(* Attaching and queueing                                                  *)

\* The stream of host H with the attachment sid in its own SID space, if any.
TxSid(H, sid) == {n \in DOMAIN H.strm : H.strm[n].att # "none" /\ H.strm[n].sid = sid}

\* The stream that packets with this sid from the other side are for.
RxSid(H, sid) == {p[2] : p \in {q \in H.rxsids : q[1] = sid}}

ByUsid(H, usid) == {p[2] : p \in {q \in H.usids : q[1] = usid}}

\* tattach(), the flow being up: take the next free stream id, and a USID if
\* the stream has none.
TAttach(H, s, n) ==
    LET st  == H.strm[n]
        ctr == CHOOSE c \in H.txctr .. H.txctr + SidMod :
                 /\ TxSid(H, c % SidMod) = {}
                 /\ \A d \in H.txctr .. c - 1 : TxSid(H, d % SidMod) # {}
        par == IF st.toplev THEN 1 ELSE st.parent
    IN  IF st.att # "none" \/ st.state = "Disconnected" THEN H
        ELSE [H EXCEPT
                !.txctr = ctr + 1,
                !.usids = IF st.usid = NoUsid
                          THEN @ \cup {<<<<s, ctr>>, n>>} ELSE @,
                !.strm[n] = [@ EXCEPT
                   !.parent = par,
                   !.pusid = IF st.init /\ @ = NoUsid
                             THEN H.strm[par].usid ELSE @,
                   !.att = "attaching", !.sid = ctr % SidMod,
                   !.usid = IF @ = NoUsid THEN <<s, ctr>> ELSE @,
                   !.tqflow = st.tqueue # <<>>]]

\* txenqflow()
TxEnqFlow(H, s, n) ==
    IF H.strm[n].att = "none" THEN TAttach(H, s, n)
    ELSE [H EXCEPT !.strm[n].tqflow = @ \/ H.strm[n].tqueue # <<>>]

\* txenqueue(): in TSN order, and first in, first out within a TSN.
TxEnqueue(H, s, n, item) ==
    LET q   == H.strm[n].tqueue
        pos == Cardinality({i \in DOMAIN q : q[i].tsn <= item.tsn})
    IN  TxEnqFlow([H EXCEPT !.strm[n].tqueue = InsertAt(q, pos + 1, item)], s, n)

\* writeData() of one message
WriteData(H, s, n, msg) ==
    LET tasn == Len(H.strm[n].out)
        Q    == TxEnqueue([H EXCEPT !.strm[n].twait = @ \cup {tasn}], s, n,
                          Item("data", tasn, msg, 0))
    IN  [Q EXCEPT !.strm[n].out = IF Size(msg) = 0 THEN @ ELSE Append(@, msg),
                  !.strm[n].endwrite = Closes(msg)]

-----------------------------------------------------------------------------
(* Receiving                                                               *)

Disconnect(H, n) == [H EXCEPT !.strm[n].state = "Disconnected"]

\* Fault: the reply goes out before the service is looked up.
GotServiceRequestEager(H, s, n) ==
    LET svc == Head(H.strm[n].rmsgs)
        R   == WriteData([H EXCEPT !.strm[n].rmsgs = Tail(@)], s, n, "reply")
    IN  IF svc \in Registered
        THEN [R EXCEPT !.strm[n].state = "Connected", !.strm[n].svc = svc,
                       !.rconns = Append(@, n)]
        ELSE Disconnect(R, n)

\* gotServiceRequest(): the first message on a stream in state Accepting.  For
\* a service nobody listens on the stream is dropped without an answer.
GotServiceRequest(H, s, n) ==
    LET svc == Head(H.strm[n].rmsgs)
        R   == [H EXCEPT !.strm[n].rmsgs = Tail(@)]
    IN  IF svc \in Registered
        THEN [WriteData(R, s, n, "reply") EXCEPT
                !.strm[n].state = "Connected", !.strm[n].svc = svc,
                !.rconns = Append(@, n)]
        ELSE Disconnect(R, n)

\* gotServiceReply(): the first message on a stream in state WaitService.
GotServiceReply(H, n) ==
    LET R == [H EXCEPT !.strm[n].rmsgs = Tail(@)]
    IN  IF Head(H.strm[n].rmsgs) = "reply"
        THEN [R EXCEPT !.strm[n].state = "Connected"]
        ELSE Disconnect(R, n)

\* shutdown(Stream::Read)
ShutdownRead(H, n) ==
    IF H.strm[n].state # "Connected" THEN H
    ELSE [H EXCEPT !.strm[n].endread = TRUE, !.strm[n].rmsgs = <<>>,
                   !.strm[n].rahead = {}]

\* A segment leaves the reorder buffer, unless there is a gap before it.
Pull(st, seg) ==
    IF seg.tsn > st.rsn THEN st
    ELSE IF seg.tsn < st.rsn \/ Size(seg.msg) = 0
    THEN [st EXCEPT !.rahead = @ \ {seg}]
    ELSE [st EXCEPT !.rahead = @ \ {seg}, !.rsn = @ + 1,
                    !.in = Append(@, seg.msg), !.rmsgs = Append(@, seg.msg)]

\* The stream with segment seg received and what it frees pulled.
Reassembled(st, seg) ==
    LET all == st.rahead \cup {seg}
    IN  FoldLeft(Pull, [st EXCEPT !.rahead = all],
                 SetToSortSeq(all, LAMBDA a, b : a.tsn < b.tsn))

\* rxData(): the first message to wait on a top-level stream being set up is
\* the service request or the reply.
RxData(H, s, n, seg) ==
    LET old    == H.strm[n]
        got    == Reassembled(old, seg)
        closed == \E g \in (old.rahead \cup {seg}) \ got.rahead : Closes(g.msg)
        R      == [H EXCEPT !.strm[n] = got]
    IN  IF old.endread THEN H
        ELSE IF closed /\ got.rmsgs = <<>> THEN ShutdownRead(R, n)
        ELSE IF old.rmsgs # <<>> \/ got.rmsgs = <<>> THEN R
        ELSE CASE old.state = "WaitService" -> GotServiceReply(R, n)
               [] old.state = "Accepting"   -> GotServiceRequest(R, s, n)
               [] OTHER                     -> R

\* acknowledge(pktseq, sendack)
Acknowledge(H, seq, sendack) ==
    [H EXCEPT !.heard = @ \cup {seq},
              !.quiet = IF sendack THEN @ ELSE @ \cup {seq},
              !.ackdue = @ \/ sendack]

\* calcTransmitWindow(): the window opens with the first packet that states
\* one, and the stream gets in line, attaching if it must.
CalcTransmitWindow(H, s, n) ==
    IF H.strm[n].win THEN H
    ELSE TxEnqFlow([H EXCEPT !.strm[n].win = TRUE], s, n)

\* Fault: the difference of stream ids is not signed.
StreamCtrUnsigned(rxctr, sid) == rxctr + ((sid - rxctr) % SidMod)

\* The sender's stream counter, extrapolated from a 16-bit stream id: the one
\* with that id nearest to the highest counter received.
StreamCtr(rxctr, sid) ==
    LET d == (sid - rxctr) % SidMod
    IN  IF 2 * d < SidMod THEN rxctr + d ELSE rxctr + d - SidMod

\* What waits in rsubs: a BaseStream, or the DatagramStream made for a datagram,
\* which is a substream that was written and closed at once.
Substream(n) == [type |-> "sub", n |-> n]
Datagram(id) == [type |-> "dgram", n |-> id]

\* rxSubstream(): the object made for a stream the other side opened, to be
\* served (a child of the root) or accepted.  If the parent does not listen the
\* packet is acknowledged all the same (txReset() is not implemented).
RxSubstream(H, s, pn, pkt, usid) ==
    LET n  == Len(H.strm) + 1
        st == NewStream(pn, H.strm[pn].listen,
                        IF pn = 1 THEN "Accepting" ELSE "Connected")
        R  == [Acknowledge(H, pkt.seq, TRUE) EXCEPT
                 !.strm = Append(@, [st EXCEPT !.usid = usid]),
                 !.rxctr = Max({@, StreamCtr(@, pkt.sid)}),
                 !.usids = @ \cup {<<usid, n>>},
                 !.rxsids = @ \cup {<<pkt.sid, n>>}]
    IN  IF H.strm[pn].listen = "reject" THEN Acknowledge(H, pkt.seq, FALSE)
        ELSE IF pn = 1 THEN R
        ELSE [R EXCEPT !.strm[pn].rsubs = Append(@, Substream(n))]

\* A segment for stream n.
RxSegment(H, s, n, pkt) == RxData(CalcTransmitWindow(H, s, n), s, n, pkt.item)

\* A segment for a stream attached already; the acknowledgment is asked for
\* when the handler returns.
RxKnown(H, s, pkt) ==
    LET n == CHOOSE m \in RxSid(H, pkt.sid) : TRUE
    IN  Acknowledge(RxSegment(H, s, n, pkt), pkt.seq, TRUE)

RxInitPacket(H, s, pkt) ==
    LET pn == CHOOSE n \in RxSid(H, pkt.rsid) : TRUE
        R  == RxSubstream(H, s, pn, pkt,
                          <<Other(s), StreamCtr(H.rxctr, pkt.sid)>>)
    IN  IF RxSid(H, pkt.sid) # {} THEN RxKnown(H, s, pkt)
        ELSE IF RxSid(H, pkt.rsid) = {} THEN Acknowledge(H, pkt.seq, FALSE)
        ELSE IF Len(R.strm) = Len(H.strm) THEN R
        ELSE RxSegment(R, s, Len(R.strm), pkt)

\* A Reply is taken only if the attachment it answers was acknowledged by it
\* or by an earlier packet.
RxReplyPacket(H, s, pkt) ==
    LET n == CHOOSE m \in TxSid(H, pkt.rsid) : TRUE
    IN  IF RxSid(H, pkt.sid) # {} THEN RxKnown(H, s, pkt)
        ELSE IF TxSid(H, pkt.rsid) = {} THEN Acknowledge(H, pkt.seq, FALSE)
        ELSE IF H.strm[n].att # "active" \/ pkt.seq < H.strm[n].sidseq THEN H
        ELSE RxKnown([H EXCEPT !.rxsids = @ \cup {<<pkt.sid, n>>}], s, pkt)

RxDataPacket(H, s, pkt) ==
    IF RxSid(H, pkt.sid) # {} THEN RxKnown(H, s, pkt)
    ELSE Acknowledge(H, pkt.seq, FALSE)

RxDatagramPacket(H, s, pkt) ==
    LET n == CHOOSE m \in RxSid(H, pkt.sid) : TRUE
    IN  IF RxSid(H, pkt.sid) = {} THEN Acknowledge(H, pkt.seq, FALSE)
        ELSE IF H.strm[n].state # "Connected" THEN Acknowledge(H, pkt.seq, FALSE)
        ELSE [Acknowledge(H, pkt.seq, TRUE) EXCEPT
                !.strm[n].rsubs = Append(@, Datagram(pkt.item.id))]

\* Fault: a stream is made for every Attach that may create one.
RxAttachPacketAnew(H, s, pkt) ==
    LET pn == CHOOSE m \in ByUsid(H, pkt.pusid) : TRUE
    IN  IF pkt.init /\ ByUsid(H, pkt.pusid) # {}
        THEN RxSubstream(H, s, pn, pkt, pkt.usid)
        ELSE Acknowledge(H, pkt.seq, FALSE)

\* An Attach for a USID we have, or for a new child of one we have.
RxAttachPacket(H, s, pkt) ==
    LET n  == CHOOSE m \in ByUsid(H, pkt.usid) : TRUE
        pn == CHOOSE m \in ByUsid(H, pkt.pusid) : TRUE
    IN  IF ByUsid(H, pkt.usid) # {}
        THEN [Acknowledge(H, pkt.seq, TRUE) EXCEPT
                !.rxsids = {p \in @ : p[2] # n} \cup {<<pkt.sid, n>>}]
        ELSE IF pkt.init /\ ByUsid(H, pkt.pusid) # {}
        THEN RxSubstream(H, s, pn, pkt, pkt.usid)
        ELSE Acknowledge(H, pkt.seq, FALSE)

-----------------------------------------------------------------------------
(* Packets                                                                 *)

Seqs(recs) == {r.seq : r \in recs}

\* acked(): packet rec was acknowledged by packet rxseq, and is perhaps the
\* first of its stream to be.
Acked(H, s, rec, rxseq) ==
    LET st == H.strm[rec.n]
        R  == [H EXCEPT
                 !.ackwait = @ \ {rec},
                 !.strm[rec.n].twait = IF rec.attach THEN @ ELSE @ \ {rec.item.tsn}]
    IN  IF st.att # "attaching" THEN R
        ELSE TxEnqFlow([R EXCEPT !.strm[rec.n] =
                          [@ EXCEPT !.sidseq = rxseq, !.init = FALSE,
                                    !.att = "active"]], s, rec.n)

\* A stream is queued and Flow may transmit: it does so before the event loop
\* of s turns to anything else (txenqflow(), Flow::receive()).  A packet that
\* was rejected does not take up the window for long: nothing acknowledges it
\* before its retransmission timeout.
Ready(s) ==
    /\ Cardinality(Seqs(host[s].ackwait) \ host[Other(s)].quiet) < CWnd
    /\ \E n \in DOMAIN host[s].strm : host[s].strm[n].tqflow

\* Once a packet of s has its verdict, acknowledgments of it that are still
\* under way change nothing.
Settled(s, H, pkts) ==
    LET open == Seqs(H.ackwait)
    IN  /\ host' = [host EXCEPT ![s] = H,
                               ![Other(s)].heard = @ \cap open,
                               ![Other(s)].quiet = @ \cap open]
        /\ net' = {IF p.to = s THEN [p EXCEPT !.acks = @ \cap open] ELSE p : p \in pkts}

\* Nothing under way can bring the acknowledgment of packet rec any more: the
\* retransmission timeout is longer than packets and acknowledgments are
\* delayed (module Stream has longer delays).
Overdue(s, rec) ==
    /\ rec \in host[s].ackwait /\ net = {}
    /\ \A o \in Side : ~Ready(o) /\ ~host[o].ackdue

\* Fault: a packet that is missed is forgotten.
MissedForgotten(s, rec) ==
    /\ ~Ready(s)
    /\ Overdue(s, rec)
    /\ UNCHANGED used
    /\ Settled(s, [host[s] EXCEPT !.ackwait = @ \ {rec}], net)

\* missed(): a segment is queued again, an Attach packet will be made anew.  A
\* packet received but rejected is sent again until some packet happens to
\* acknowledge it, here a bounded number of times.
Missed(s, rec) ==
    LET R == [host[s] EXCEPT !.ackwait = @ \ {rec}]
    IN  /\ ~Ready(s)
        /\ Overdue(s, rec)
        /\ IF rec.seq \notin host[Other(s)].quiet THEN UNCHANGED used
           ELSE /\ used.faults < MaxFaults
                /\ used' = [used EXCEPT !.faults = @ + 1]
        /\ Settled(s, IF rec.attach THEN TxEnqFlow(R, s, rec.n)
                      ELSE TxEnqueue(R, s, rec.n, rec.item), net)

\* Flow hands up the acknowledgments in a packet, then the packet.
Receive(pkt) ==
    LET s == pkt.to
        recs == {r \in host[s].ackwait : r.seq \in pkt.acks}
        A == FoldLeft(LAMBDA H, r : Acked(H, s, r, pkt.seq), host[s],
                      SetToSortSeq(recs, LAMBDA a, b : a.seq < b.seq))
    IN  /\ ~Ready(s)
        /\ Settled(s, CASE pkt.type = "init"   -> RxInitPacket(A, s, pkt)
                        [] pkt.type = "reply"  -> RxReplyPacket(A, s, pkt)
                        [] pkt.type = "data"   -> RxDataPacket(A, s, pkt)
                        [] pkt.type = "dgram"  -> RxDatagramPacket(A, s, pkt)
                        [] pkt.type = "attach" -> RxAttachPacket(A, s, pkt)
                        [] pkt.type = "ack"    -> A,
                   net \ {pkt})
        /\ UNCHANGED used

Lose(pkt) ==
    /\ used.faults < MaxFaults
    /\ used' = [used EXCEPT !.faults = @ + 1]
    /\ net' = net \ {pkt}
    /\ UNCHANGED host

\* flowTransmit() of a packet of stream n; all but datagrams and bare
\* acknowledgments go to ackwait.  A bare acknowledgment is numbered like the
\* packet after it: only that it is later than those before it matters.
Send(s, H, n, type, rsid, item) ==
    LET st   == H.strm[n]
        pkt  == [to |-> Other(s), seq |-> H.nseq + 1, type |-> type,
                 sid |-> st.sid, rsid |-> rsid, item |-> item, acks |-> H.heard,
                 init |-> st.init, usid |-> st.usid, pusid |-> st.pusid]
        rec  == [seq |-> pkt.seq, n |-> n, attach |-> type = "attach",
                 item |-> item]
    IN  /\ net' = net \cup {pkt}
        /\ host' = [host EXCEPT ![s] =
              [H EXCEPT !.nseq = IF type = "ack" THEN @ ELSE @ + 1,
                        !.ackdue = FALSE,
                        !.ackwait = IF type \in {"dgram", "ack"} THEN @
                                    ELSE @ \cup {rec}]]
        /\ UNCHANGED used

\* A bare acknowledgment.
TransmitAck(s) ==
    /\ host[s].ackdue /\ ~Ready(s)
    /\ Send(s, host[s], 1, "ack", 0, Item("none", 0, "none", 0))

\* Which packet carries the head of the queue: Data or Datagram on an
\* acknowledged attachment; before, an Init naming the parent's stream id, if
\* we opened the stream and the parent is attached; a Reply naming the id the
\* other side gave it, if it did and told a window; else only an Attach.
PacketType(H, s, n, item) ==
    LET st == H.strm[n]
    IN  IF st.att = "active" THEN item.type
        ELSE IF item.type = "dgram" THEN "attach"
        ELSE IF st.init /\ st.parent # 0 /\ H.strm[st.parent].att = "active"
                /\ st.usid[1] = s /\ st.usid[2] % SidMod = st.sid
        THEN "init"
        ELSE IF st.win /\ \E p \in H.rxsids : p[2] = n THEN "reply"
        ELSE "attach"

\* transmit(), once the flow takes the stream off its queue.  What is queued
\* again is overdue, so no head of the queue is acknowledged already (module
\* StreamTx has the case).
Transmit(s, n) ==
    LET H == host[s]
        q == H.strm[n].tqueue
        type == PacketType(H, s, n, q[1])
        rsid == IF type = "init" THEN H.strm[H.strm[n].parent].sid
                ELSE CHOOSE sid \in {p[1] : p \in {r \in H.rxsids : r[2] = n}} : TRUE
        rest == IF type = "attach" THEN q ELSE Tail(q)
        R == [H EXCEPT !.strm[n].tqueue = rest,
                       !.strm[n].tqflow = type # "attach" /\ rest # <<>>]
    IN  /\ Ready(s) /\ H.strm[n].tqflow
        /\ Send(s, R, n, type, IF type \in {"init", "reply"} THEN rsid ELSE 0, q[1])

-----------------------------------------------------------------------------
(* Applications                                                            *)

\* The application at s does something that takes its host to state H.
App(s, H) ==
    /\ ~Ready(s)
    /\ host' = [host EXCEPT ![s] = H]
    /\ UNCHANGED net

\* One of the calls it makes a bounded number of times.
Call(s, method, H) ==
    /\ <<s, method>> \in Calls /\ used.calls < MaxCalls
    /\ used' = [used EXCEPT !.calls = @ + 1]
    /\ App(s, H)

\* The application holds a Stream for the BaseStream n.
Held(s, n) == host[s].strm[n].strm

\* BaseStream::connectTo(): queue the request, wait for the reply, attach.
Requested(H, s, n, svc) ==
    LET W == WriteData([H EXCEPT !.strm[n].toplev = TRUE, !.strm[n].svc = svc], s, n, svc)
    IN  TAttach([W EXCEPT !.strm[n].state = "WaitService"], s, n)

\* Stream::connectTo().  An application decides as it gets a stream whether to
\* listen() on it for substreams.
ConnectTo(s, svc, mode) ==
    LET n  == Len(host[s].strm) + 1
        st == [NewStream(0, "reject", "Fresh") EXCEPT !.strm = TRUE, !.listen = mode]
    IN  /\ used.connects < MaxConnects
        /\ used' = [used EXCEPT !.connects = @ + 1]
        /\ App(s, Requested([host[s] EXCEPT !.strm = Append(@, st)], s, n, svc))

\* openSubstream(): the parent attaches, the new stream when it is written to.
Opened(H, s, n, strm) ==
    TAttach([H EXCEPT !.strm =
               Append(@, [NewStream(n, H.strm[n].listen, "Connected") EXCEPT
                            !.strm = strm])], s, n)

OpenSubstream(s, n) ==
    /\ Held(s, n)
    /\ Call(s, "openSubstream", Opened(host[s], s, n, TRUE))

WriteMessage(s, n) ==
    /\ Held(s, n) /\ ~host[s].strm[n].endwrite
    /\ Call(s, "writeMessage", WriteData(host[s], s, n, "data"))

\* writeDatagram(): a packet of its own in the queue, or, if it must be
\* reliable or is large, a substream that is written and closed.
Queued(H, s, n, id) ==
    TxEnqueue([H EXCEPT !.strm[n].dgs = @ \cup {id}], s, n,
              Item("dgram", Len(H.strm[n].out), "data", id))

WriteDatagram(s, n) ==
    /\ Held(s, n)
    /\ Call(s, "writeDatagram", Queued(host[s], s, n, used.calls))

WriteReliable(s, n) ==
    LET H == Opened(host[s], s, n, FALSE)
    IN  /\ Held(s, n)
        /\ Call(s, "writeReliable", WriteData(H, s, Len(H.strm), "last"))

\* StreamServer::accept()
Accept(s, mode) ==
    LET H == host[s]
    IN  /\ H.rconns # <<>>
        /\ UNCHANGED used
        /\ App(s, [H EXCEPT !.rconns = Tail(@), !.strm[Head(H.rconns)].strm = TRUE,
                             !.strm[Head(H.rconns)].listen = mode])

\* Entry i leaves rsubs.
Dequeued(H, n, i) ==
    [H EXCEPT !.strm[n].rsubs = RemoveAt(@, i),
              !.strm[n].taken = Append(@, H.strm[n].rsubs[i])]

\* acceptSubstream(); a datagram is accepted like a stream.
AcceptSubstream(s, n) ==
    LET H   == host[s]
        sub == Head(H.strm[n].rsubs)
        R   == Dequeued(H, n, 1)
    IN  /\ Held(s, n) /\ H.strm[n].rsubs # <<>>
        /\ UNCHANGED used
        /\ App(s, IF sub.type = "sub" THEN [R EXCEPT !.strm[sub.n].strm = TRUE] ELSE R)

\* hasPendingMessages() of what waits in rsubs: a DatagramStream nobody has
\* read always has one.
HasPendingMessages(H, sub) == sub.type = "dgram" \/ H.strm[sub.n].rmsgs # <<>>

\* getDatagram(): the first of them with a message.
Readable(H, n) ==
    {i \in DOMAIN H.strm[n].rsubs : HasPendingMessages(H, H.strm[n].rsubs[i])}

\* Its message is read and it is reset, a DatagramStream deletes itself.
ReadSub(H, sub) == IF sub.type = "dgram" THEN H ELSE [H EXCEPT !.strm[sub.n].rmsgs = Tail(@)]
ResetSub(H, sub) == IF sub.type = "dgram" THEN H ELSE Disconnect(H, sub.n)

DatagramRead(H, n) ==
    LET i   == Min(Readable(H, n))
        sub == H.strm[n].rsubs[i]
    IN  ResetSub(ReadSub(Dequeued(H, n, i), sub), sub)

ReadDatagram(s, n) ==
    /\ Held(s, n) /\ Readable(host[s], n) # {}
    /\ UNCHANGED used
    /\ App(s, DatagramRead(host[s], n))

ReadMessage(s, n) ==
    /\ Held(s, n) /\ host[s].strm[n].rmsgs # <<>>
    /\ UNCHANGED used
    /\ App(s, [host[s] EXCEPT !.strm[n].rmsgs = Tail(@)])

\* Stream::disconnect(): the graceful close of a stream that is connected;
\* nothing happens to one that is not.
Closed(H, s, n) ==
    LET R == ShutdownRead([H EXCEPT !.strm[n].strm = FALSE], n)
    IN  IF R.strm[n].state = "Connected" /\ ~R.strm[n].endwrite
        THEN WriteData(R, s, n, "close") ELSE R

\* ~Stream(), which deletes the Streams of its substreams too.
DeleteStream(s, n) ==
    LET H == host[s]
        all == FoldLeft(LAMBDA S, m : IF H.strm[m].parent \in S /\ H.strm[m].strm
                                      THEN S \cup {m} ELSE S,
                        {n}, [i \in DOMAIN H.strm |-> i])
    IN  /\ Held(s, n)
        /\ Call(s, "delete", FoldSet(LAMBDA m, G : Closed(G, s, m), H, all))

-----------------------------------------------------------------------------

Next ==
    \/ \E s \in Side : TransmitAck(s)
    \/ \E mode \in ListenModes :
         \/ Accept("server", mode)
         \/ \E svc \in Services : ConnectTo("client", svc, mode)
    \/ \E s \in Side : \E n \in 2 .. Len(host[s].strm) :
         \/ Transmit(s, n) \/ WriteMessage(s, n)
         \/ WriteDatagram(s, n) \/ WriteReliable(s, n)
         \/ AcceptSubstream(s, n) \/ ReadDatagram(s, n) \/ ReadMessage(s, n)
         \/ DeleteStream(s, n)
         \/ OpenSubstream(s, n)
    \/ \E s \in Side : \E rec \in host[s].ackwait : Missed(s, rec)
    \/ \E pkt \in net : Receive(pkt) \/ Lose(pkt)

Spec == Init /\ [][Next]_vars

\* The network delivers what it does not lose, Flow transmits what is queued or
\* to be acknowledged, and gives up a packet whose acknowledgment cannot come,
\* as the module Flow shows: weak fairness of Receive, of Transmit and
\* TransmitAck, and of Missed, each named by the effect that tells its steps
\* from others.  Nothing is assumed of the applications.
Fairness ==
    /\ WF_net(\E p \in net : net' = net \ {p} /\ UNCHANGED used)
    /\ \A s \in Side :
         /\ []<>~Ready(s) \/ []<><<host[s].nseq' # host[s].nseq>>_vars
         /\ []<>~host[s].ackdue
         /\ []<>~(\E r \in host[s].ackwait : Overdue(s, r) /\ r.seq \notin host[Other(s)].quiet)
              \/ []<><<net' = net /\ host[s].ackwait' # host[s].ackwait>>_vars

FairSpec == Spec /\ Fairness

-----------------------------------------------------------------------------
(* Properties                                                              *)

\* The stream objects the two hosts have for the same USID.
Mates(s, n) ==
    {m \in DOMAIN host[Other(s)].strm :
       host[Other(s)].strm[m].usid = host[s].strm[n].usid}

\* What arrives under a stream id goes to the object whose other end sent it:
\* the object has that end's USID and no other object has, a child is under the
\* object for its parent's USID, and what it received is what was written, in
\* order.
SameStream ==
    \A s \in Side : \A p \in host[s].rxsids :
       LET H == host[s]
           O == host[Other(s)]
           st == H.strm[p[2]]
       IN  /\ ByUsid(H, st.usid) \subseteq {p[2]}
           /\ \E m \in TxSid(O, p[1]) :
                /\ O.strm[m].usid = st.usid
                /\ IsPrefix(st.in, O.strm[m].out)
                /\ p[2] # 1 => H.strm[st.parent].usid = O.strm[O.strm[m].parent].usid

\* A client's top-level stream is connected only if the server's end of it was
\* handed to the listener for the service the client asked for.
ServedAsAsked ==
    \A n \in DOMAIN host["client"].strm :
       LET st == host["client"].strm[n]
       IN  st.toplev /\ st.state = "Connected" =>
             \E m \in Mates("client", n) :
                /\ host["server"].strm[m].state = "Connected"
                /\ host["server"].strm[m].svc = st.svc

\* A substream or datagram shows up once, on the stream it was opened on or
\* written to.
HandedOnce ==
    \A s \in Side : \A n \in DOMAIN host[s].strm :
       LET st   == host[s].strm[n]
           subs == st.rsubs \o st.taken
       IN  /\ \A i, j \in DOMAIN subs :
                i = j \/ subs[i].type # subs[j].type
                  \/ IF subs[i].type = "dgram" THEN subs[i].n # subs[j].n
                     ELSE host[s].strm[subs[i].n].usid # host[s].strm[subs[j].n].usid
           /\ \A i \in DOMAIN subs :
                \E m \in Mates(s, n) :
                   IF subs[i].type = "dgram"
                   THEN subs[i].n \in host[Other(s)].strm[m].dgs
                   ELSE \E c \in Mates(s, subs[i].n) :
                          host[Other(s)].strm[c].parent = m

\* A request for a service that is listened on is answered, whatever is lost.
Answered ==
    \A n \in 2 .. MaxConnects + MaxCalls + 1 :
       LET St(state) == /\ n <= Len(host["client"].strm)
                        /\ host["client"].strm[n].state = state
                        /\ host["client"].strm[n].svc \in Registered
       IN  St("WaitService") ~> St("Connected")

=============================================================================
