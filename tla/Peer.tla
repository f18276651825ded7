-------------------------------- MODULE Peer --------------------------------
(***************************************************************************)
(* StreamPeer: how a host finds a way to another host and keeps one        *)
(* primary flow to it for the streams between them.                        *)
(*                                                                         *)
(* Every slot and call runs to completion, calls into the streams and back *)
(* included, so the handlers are operators on the record `peer' that       *)
(* compose as the calls do.  The registration clients, the key exchanges   *)
(* and the links are the environment (see RegClient, KeyExchange, Flow).   *)
(***************************************************************************)
EXTENDS Integers, FiniteSets

CONSTANTS
    Client,         \* RegClient objects of the host
    Addr,           \* endpoints the peer may be found at
    Full,           \* endpoints with no free channel
    Known,          \* endpoints known from the start: the one in an IP identity
    FirstStage,     \* "early", or "late" for the checksum exchange
    Flow, NoFlow,   \* StreamFlow objects
    Strm,           \* BaseStream objects of the peer
    StallMax

ASSUME PeerAssumption ==
    /\ Full \subseteq Addr /\ Known \subseteq Addr
    /\ FirstStage \in {"early", "late"}
    /\ NoFlow \notin Flow
    /\ StallMax \in Nat \ {0}

VARIABLES
    peer,           \* StreamPeer, its flows and its streams
    reg             \* the state of each RegClient, as registered() shows it

vars == <<peer, reg>>

Init ==
    /\ peer = [flow       |-> NoFlow,
               link       |-> [f \in Flow |-> "none"],  \* LinkStatus of each flow
               initors    |-> [e \in Addr |-> "none"],
               addrs      |-> Known,
               lookups    |-> {},
               stallcount |-> 0,
               att        |-> [s \in Strm |-> NoFlow],  \* tcuratt->flow
               data       |-> [s \in Strm |-> "none"],  \* or queued, in flight
               wait       |-> {},   \* streams connected to flowConnected()
               due        |-> {}]   \* those that heard no signal since
    /\ reg = [c \in Client |-> "off"]

-----------------------------------------------------------------------------
(* StreamPeer's calls.                                                     *)
Working(p) == p.flow # NoFlow /\ p.link[p.flow] = "up"

Attempts(p) == {e \in Addr : p.initors[e] # "none"}

FlowFailed(p) == [p EXCEPT !.due = {}]

(* StreamPeer::initiate for the endpoints in es. *)
Initiate(p, es) ==
    IF Working(p) THEN p
    ELSE LET q == [p EXCEPT !.initors =
                      [e \in Addr |-> IF e \in (es \ Attempts(p)) \ Full
                                        THEN FirstStage ELSE @[e]]]
         IN  IF es \cap Full # {} THEN FlowFailed(q) ELSE q

(* StreamPeer::connectFlow, with the clients' states r. *)
ConnectWith(p, r) ==
    IF Working(p) THEN p
    ELSE Initiate([p EXCEPT !.lookups = @ \cup {c \in Client : r[c] = "on"}], p.addrs)

ConnectFlow(p) == ConnectWith(p, reg)

FoundEndpoints(p, es) ==
    Initiate([p EXCEPT !.addrs = @ \cup es], es \ p.addrs)

(* BaseStream::tattach, as far as the peer is concerned, for the streams   *)
(* in ss.  That the parent's USID must be known is left to the streams.    *)
TAttach(p, ss) ==
    LET new == {s \in ss : p.att[s] = NoFlow}
    IN  IF new = {} THEN p
        ELSE IF p.flow = NoFlow
          THEN ConnectFlow([p EXCEPT !.wait = @ \cup new, !.due = @ \cup new])
          ELSE [p EXCEPT !.att = [s \in Strm |-> IF s \in new THEN p.flow ELSE @[s]]]

(* flowConnected(), and BaseStream::gotFlowConnected in each waiting one. *)
FlowConnected(p) == TAttach([p EXCEPT !.wait = {}, !.due = {}], p.wait)

(* StreamFlow::detachAll: the streams lose their attachment, then those    *)
(* with packets outstanding get them back, queue them and attach again.    *)
DetachAll(p, f) ==
    LET on   == {s \in Strm : p.att[s] = f}
        back == {s \in on : p.data[s] = "flight"}
        q    == [p EXCEPT
                   !.att  = [s \in Strm |-> IF s \in on THEN NoFlow ELSE @[s]],
                   !.data = [s \in Strm |-> IF s \in back THEN "queued" ELSE @[s]]]
    IN  TAttach(q, back)

ClearPrimaryOnly(p) == [p EXCEPT !.flow = NoFlow]   \* fault: streams stay attached

ClearPrimary(p) ==
    IF p.flow = NoFlow THEN p ELSE DetachAll([p EXCEPT !.flow = NoFlow], p.flow)

(* StreamPeer::flowStarted, called by StreamFlow::start. *)
FlowStartedQuiet(p, f) ==       \* fault: a replacement is not announced
    IF Working(p) THEN p
    ELSE LET q == [ClearPrimary(p) EXCEPT !.flow = f, !.stallcount = 0]
         IN  IF p.flow = NoFlow THEN FlowConnected(q) ELSE q

FlowStarted(p, f) ==
    IF Working(p) THEN p
    ELSE FlowConnected([ClearPrimary(p) EXCEPT !.flow = f, !.stallcount = 0])

(* primaryStatusChanged(LinkUp): attempts in an early stage are cancelled. *)
PrimaryUp(p) ==
    [p EXCEPT !.stallcount = 0,
              !.initors = [e \in Addr |-> IF @[e] = "early" THEN "none" ELSE @[e]]]

(* primaryStatusChanged(LinkStalled).  The count only matters up to StallMax. *)
PrimaryStalledReset(p) ==       \* fault: every warning starts a new count
    IF 1 < StallMax THEN [p EXCEPT !.stallcount = 1] ELSE ConnectFlow(p)

PrimaryStalled(p) ==
    IF p.stallcount + 1 < StallMax THEN [p EXCEPT !.stallcount = @ + 1]
    ELSE ConnectFlow([p EXCEPT !.stallcount = StallMax])

-----------------------------------------------------------------------------
(* Key exchange attempts.  When the initiator has sent what makes the      *)
(* responder create a flow, the attempt is no longer early.                *)
AttemptAdvances(e) ==
    /\ peer.initors[e] = "early"
    /\ peer' = [peer EXCEPT !.initors[e] = "late"]
    /\ UNCHANGED reg

(* KeyInitiator starts the flow, then signals completed(true). *)
CompletedTrue(e, f) ==
    /\ peer.initors[e] = "late" /\ peer.link[f] = "none"
    /\ peer' = [FlowStarted([peer EXCEPT !.link[f] = "up"], f)
                   EXCEPT !.initors[e] = "none"]
    /\ UNCHANGED reg

CompletedFalse(e) ==
    LET p == [peer EXCEPT !.initors[e] = "none"]
    IN  /\ peer.initors[e] # "none"
        /\ peer' = IF p.lookups = {} /\ Attempts(p) = {} THEN FlowFailed(p) ELSE p
        /\ UNCHANGED reg

(* KeyResponder accepts a flow from the peer and starts it. *)
IncomingFlow(f) ==
    /\ peer.link[f] = "none"
    /\ peer' = FlowStarted([peer EXCEPT !.link[f] = "up"], f)
    /\ UNCHANGED reg

(* Link status of the flows; a stalled link reports each timeout. *)
LinkStalled(f) ==
    LET p == [peer EXCEPT !.link[f] = "stalled"]
    IN  /\ peer.link[f] \in {"up", "stalled"}
        /\ peer' = IF p.flow = f THEN PrimaryStalled(p) ELSE p
        /\ UNCHANGED reg

LinkUp(f) ==
    LET p == [peer EXCEPT !.link[f] = "up"]
    IN  /\ peer.link[f] = "stalled"
        /\ peer' = IF p.flow = f THEN PrimaryUp(p) ELSE p
        /\ UNCHANGED reg

(* StreamFlow's own slot comes first; it disconnects the primary from      *)
(* primaryStatusChanged() and the flow destroys itself.                    *)
LinkDown(f) ==
    LET p == [peer EXCEPT !.link[f] = "gone"]
    IN  /\ peer.link[f] = "stalled"
        /\ peer' = IF p.flow = f THEN ClearPrimary(p) ELSE p
        /\ UNCHANGED reg

-----------------------------------------------------------------------------
(* StreamPeer::lookupDone with the endpoints found, none if it failed. *)
LookupDone(p, c, es) ==
    LET q == [p EXCEPT !.lookups = @ \ {c}]
    IN  IF c \notin p.lookups THEN p
        ELSE IF es # {} THEN FoundEndpoints(q, es)
        ELSE IF q.lookups = {} /\ Attempts(q) = {} THEN FlowFailed(q)
        ELSE q

LookupAnswered(c) ==
    /\ reg[c] = "on" /\ c \in peer.lookups
    /\ \E es \in SUBSET Addr : peer' = LookupDone(peer, c, es)
    /\ UNCHANGED reg

(* stateChanged() of a client prompts all peers, through StreamResponder;  *)
(* connectFlow() sees the client's new state.                              *)
RegConnected(c) ==
    LET r == [reg EXCEPT ![c] = "on"]
    IN  /\ reg[c] \in {"off", "busy"}
        /\ reg' = r
        /\ peer' = ConnectWith(peer, r)

(* RegClient::reregister keeps its outstanding lookups. *)
RegBusy(c) ==
    /\ reg[c] = "on"
    /\ reg' = [reg EXCEPT ![c] = "busy"]
    /\ UNCHANGED peer

(* RegClient::disconnect fails the outstanding lookups first. *)
RegDisconnected(c) ==
    LET r == [reg EXCEPT ![c] = "off"]
    IN  /\ reg[c] \in {"on", "busy"}
        /\ reg' = r
        /\ peer' = ConnectWith(LookupDone(peer, c, {}), r)

(* ~RegClient, and StreamPeer::regClientDestroyed.  The reconnect timer it *)
(* starts is connected to nothing.                                         *)
RegDestroyed(c) ==
    LET r == [reg EXCEPT ![c] = "gone"]
        p == IF reg[c] = "off" THEN peer ELSE ConnectWith(LookupDone(peer, c, {}), r)
    IN  /\ reg[c] # "gone"
        /\ reg' = r
        /\ peer' = [p EXCEPT !.lookups = @ \ {c}]

(* Stream::connectAt and Stream::locationHint. *)
LocationHint(e) ==
    /\ e \notin peer.addrs
    /\ peer' = FoundEndpoints(peer, {e})
    /\ UNCHANGED reg

(* The streams: txenqueue() attaches if need be, the flow transmits, and   *)
(* the other end acknowledges.                                             *)
TxEnqueue(s) ==
    /\ peer.data[s] # "flight"
    /\ peer' = TAttach([peer EXCEPT !.data[s] = "queued"], {s})
    /\ UNCHANGED reg

Transmit(s) ==
    /\ peer.att[s] # NoFlow /\ peer.data[s] = "queued"
    /\ peer' = [peer EXCEPT !.data[s] = "flight"]
    /\ UNCHANGED reg

Acked(s) ==
    /\ peer.data[s] = "flight"
    /\ peer' = [peer EXCEPT !.data[s] = "none"]
    /\ UNCHANGED reg

Next ==
    \/ \E e \in Addr : AttemptAdvances(e) \/ CompletedFalse(e) \/ LocationHint(e)
    \/ \E e \in Addr, f \in Flow : CompletedTrue(e, f)
    \/ \E f \in Flow : IncomingFlow(f) \/ LinkStalled(f) \/ LinkUp(f) \/ LinkDown(f)
    \/ \E c \in Client : \/ LookupAnswered(c) \/ RegConnected(c) \/ RegBusy(c)
                         \/ RegDisconnected(c) \/ RegDestroyed(c)
    \/ \E s \in Strm : TxEnqueue(s) \/ Transmit(s) \/ Acked(s)

Spec == Init /\ [][Next]_vars

(* The retransmission timer of a stalled flow keeps firing. *)
FairSpec == Spec /\ \A f \in Flow : WF_vars(LinkStalled(f))

(* Besides, lookups are answered and key exchanges end: RegClient times    *)
(* out, and so does KeyInitiator.                                          *)
AnsweringSpec ==
    /\ FairSpec
    /\ \A c \in Client : WF_vars(LookupAnswered(c))
    /\ \A e \in Addr : WF_vars(CompletedFalse(e) \/ \E f \in Flow : CompletedTrue(e, f))

-----------------------------------------------------------------------------
(* Type correctness; attempts are made only to known endpoints, with a     *)
(* flow that could be bound.                                               *)
TypeOK ==
    /\ peer.flow \in Flow \cup {NoFlow}
    /\ peer.link \in [Flow -> {"none", "up", "stalled", "gone"}]
    /\ peer.initors \in [Addr -> {"none", "early", "late"}]
    /\ Attempts(peer) \subseteq peer.addrs \ Full
    /\ peer.lookups \subseteq Client /\ peer.stallcount \in 0 .. StallMax
    /\ peer.due \subseteq peer.wait /\ peer.wait \subseteq Strm

(* No stream is attached to a flow that was replaced or has destroyed      *)
(* itself: transmit attachments are always to the primary, which is alive. *)
AttachedToPrimary ==
    /\ peer.flow # NoFlow => peer.link[peer.flow] \in {"up", "stalled"}
    /\ \A s \in Strm :
           /\ peer.att[s] \in {NoFlow, peer.flow}
           /\ peer.data[s] = "flight" => peer.att[s] # NoFlow

(* No lost wakeup: as soon as there is a primary nobody waits for one,     *)
(* not even a stream that asked in the middle of its replacement.          *)
WaitersServed == peer.flow # NoFlow => peer.wait = {}

(* A primary that stays stalled makes the peer look for another way, if it *)
(* knows an address it can use: after StallMax warnings, and again if the  *)
(* attempts fail or are cancelled.                                         *)
StallSearches ==
    \A f \in Flow :
        peer.flow = f /\ peer.link[f] = "stalled" /\ peer.addrs \ Full # {}
            ~> \/ peer.flow # f \/ peer.link[f] # "stalled"
               \/ Attempts(peer) # {} \/ peer.lookups # {}

(* What strm/peer.h:71 says of connectFlow(): "Eventually emits a          *)
(* flowConnected() or a flowFailed() signal" to the stream that called it. *)
SignalEventually == \A s \in Strm : s \in peer.due ~> s \notin peer.due
=============================================================================
