----------------------------- MODULE PeerProofs -----------------------------
(***************************************************************************)
(* Theorems about Peer, for every set of clients, endpoints, flows and     *)
(* streams.                                                                *)
(*                                                                         *)
(* A handler of StreamPeer is an operator from record to record, so the    *)
(* invariant is a predicate of such a record, and each operator has a      *)
(* lemma that says what of it the operator needs and what it leaves        *)
(* behind; the actions combine them as the calls are combined.             *)
(***************************************************************************)
EXTENDS Peer, TLAPS

PeerState ==
    [flow : Flow \cup {NoFlow},
     link : [Flow -> {"none", "up", "stalled", "gone"}],
     initors : [Addr -> {"none", "early", "late"}],
     addrs : SUBSET Addr,
     lookups : SUBSET Client,
     stallcount : 0 .. StallMax,
     att : [Strm -> Flow \cup {NoFlow}],
     data : [Strm -> {"none", "queued", "flight"}],
     wait : SUBSET Strm,
     due : SUBSET Strm]

(* The types, and that attempts go to known endpoints that can be bound. *)
Typed(p) ==
    /\ p \in PeerState
    /\ Attempts(p) \subseteq p.addrs \ Full
    /\ p.due \subseteq p.wait

(* The primary has not destroyed itself. *)
Alive(p) == p.flow # NoFlow => p.link[p.flow] \in {"up", "stalled"}

(* Streams are attached to the primary only, and so are their packets. *)
Attached(p) ==
    \A s \in Strm :
        /\ p.att[s] \in {NoFlow, p.flow}
        /\ p.data[s] = "flight" => p.att[s] # NoFlow

(* Nobody waits for a primary that is there. *)
Served(p) == p.flow # NoFlow => p.wait = {}

Good(p) == Typed(p) /\ Alive(p) /\ Attached(p) /\ Served(p)

(* What connectFlow() and initiate() leave alone. *)
SameStreams(p, q) ==
    /\ q.flow = p.flow /\ q.link = p.link /\ q.att = p.att
    /\ q.data = p.data /\ q.wait = p.wait

-----------------------------------------------------------------------------
(* The count of stalls starts within its range. *)
LEMMA StallZero == 0 \in 0 .. StallMax
  BY PeerAssumption

(* flowFailed() only tells those who wait. *)
LEMMA FlowFailedGood ==
    ASSUME NEW p, Good(p)
    PROVE  Good(FlowFailed(p)) /\ SameStreams(p, FlowFailed(p))
  BY DEF Good, Typed, Alive, Attached, Served, SameStreams, FlowFailed,
         PeerState, Attempts

(* initiate() starts attempts at known endpoints and touches no stream. *)
LEMMA InitiateGood ==
    ASSUME NEW p, Good(p), NEW es, es \subseteq p.addrs
    PROVE  Good(Initiate(p, es)) /\ SameStreams(p, Initiate(p, es))
<1> DEFINE q == [p EXCEPT !.initors =
                      [e \in Addr |-> IF e \in (es \ Attempts(p)) \ Full
                                        THEN FirstStage ELSE @[e]]]
<1>1. Good(q) /\ SameStreams(p, q)
  BY PeerAssumption DEF Good, Typed, Alive, Attached, Served, SameStreams,
                        PeerState, Attempts
<1>2. Good(FlowFailed(q)) /\ SameStreams(q, FlowFailed(q))
  BY <1>1, FlowFailedGood
<1>3. Good(p) /\ SameStreams(p, p)
  BY DEF SameStreams
<1> QED
  BY <1>1, <1>2, <1>3 DEF Initiate, SameStreams

(* connectFlow() looks the peer up and tries what is known. *)
LEMMA ConnectGood ==
    ASSUME NEW p, Good(p), NEW r
    PROVE  Good(ConnectWith(p, r)) /\ SameStreams(p, ConnectWith(p, r))
<1> DEFINE q == [p EXCEPT !.lookups = @ \cup {c \in Client : r[c] = "on"}]
<1>1. Good(q) /\ SameStreams(p, q) /\ p.addrs \subseteq q.addrs
  BY DEF Good, Typed, Alive, Attached, Served, SameStreams, PeerState, Attempts
<1>2. Good(Initiate(q, p.addrs)) /\ SameStreams(q, Initiate(q, p.addrs))
  BY <1>1, InitiateGood
<1> QED
  BY <1>1, <1>2 DEF ConnectWith, SameStreams

(* foundEndpoint() tries what is new. *)
LEMMA FoundGood ==
    ASSUME NEW p, Good(p), NEW es \in SUBSET Addr
    PROVE  Good(FoundEndpoints(p, es)) /\ SameStreams(p, FoundEndpoints(p, es))
<1> DEFINE q == [p EXCEPT !.addrs = @ \cup es]
<1>1. Good(q) /\ SameStreams(p, q) /\ es \ p.addrs \subseteq q.addrs
  BY DEF Good, Typed, Alive, Attached, Served, SameStreams, PeerState, Attempts
<1>2. Good(Initiate(q, es \ p.addrs)) /\ SameStreams(q, Initiate(q, es \ p.addrs))
  BY <1>1, InitiateGood
<1> QED
  BY <1>1, <1>2 DEF FoundEndpoints, SameStreams

(* tattach() attaches to the primary, or waits for one. *)
LEMMA TAttachGood ==
    ASSUME NEW p, Good(p), NEW ss \in SUBSET Strm
    PROVE  /\ Good(TAttach(p, ss))
           /\ TAttach(p, ss).flow = p.flow /\ TAttach(p, ss).link = p.link
<1> DEFINE new == {s \in ss : p.att[s] = NoFlow}
           w   == [p EXCEPT !.wait = @ \cup new, !.due = @ \cup new]
           a   == [p EXCEPT !.att = [s \in Strm |-> IF s \in new THEN p.flow ELSE @[s]]]
<1>1. CASE new = {}
  BY <1>1 DEF TAttach
<1>2. CASE new # {} /\ p.flow = NoFlow
  <2>1. Good(w) /\ w.flow = p.flow /\ w.link = p.link
    BY <1>2 DEF Good, Typed, Alive, Attached, Served, PeerState, Attempts
  <2>2. Good(ConnectFlow(w)) /\ SameStreams(w, ConnectFlow(w))
    BY <2>1, ConnectGood DEF ConnectFlow
  <2> QED
    BY <1>2, <2>1, <2>2 DEF TAttach, SameStreams
<1>3. CASE new # {} /\ p.flow # NoFlow
  <2>1. Good(a) /\ a.flow = p.flow /\ a.link = p.link
    BY <1>3 DEF Good, Typed, Alive, Attached, Served, PeerState, Attempts
  <2> QED
    BY <1>3, <2>1 DEF TAttach
<1> QED
  BY <1>1, <1>2, <1>3

(* detachAll() of the primary and of a primary that is gone: afterwards    *)
(* nobody is attached, and who has packets back waits for another flow.    *)
LEMMA ClearPrimaryGood ==
    ASSUME NEW p, Typed(p), Attached(p), Served(p)
    PROVE  /\ Good(ClearPrimary(p))
           /\ ClearPrimary(p).flow = NoFlow /\ ClearPrimary(p).link = p.link
<1>1. CASE p.flow = NoFlow
  BY <1>1 DEF ClearPrimary, Good, Alive
<1>2. CASE p.flow # NoFlow
  <2> DEFINE c    == [p EXCEPT !.flow = NoFlow]
             on   == {s \in Strm : c.att[s] = p.flow}
             back == {s \in on : c.data[s] = "flight"}
             q    == [c EXCEPT
                   !.att  = [s \in Strm |-> IF s \in on THEN NoFlow ELSE @[s]],
                   !.data = [s \in Strm |-> IF s \in back THEN "queued" ELSE @[s]]]
  <2>1. Good(q) /\ q.flow = NoFlow /\ q.link = p.link
    BY <1>2 DEF Good, Typed, Alive, Attached, Served, PeerState, Attempts
  <2>2. back \in SUBSET Strm
    OBVIOUS
  <2>3. /\ Good(TAttach(q, back))
        /\ TAttach(q, back).flow = NoFlow /\ TAttach(q, back).link = p.link
    BY <2>1, <2>2, TAttachGood
  <2> QED
    BY <1>2, <2>3 DEF ClearPrimary, DetachAll
<1> QED
  BY <1>1, <1>2

(* flowStarted() with a new flow that is up: it becomes the primary unless *)
(* a working one is there, and whoever waits, even since the old primary   *)
(* was cleared a moment ago, is attached to it.                            *)
LEMMA FlowStartedGood ==
    ASSUME NEW p, Good(p), NEW f \in Flow, p.link[f] = "up"
    PROVE  Good(FlowStarted(p, f))
<1>1. CASE Working(p)
  BY <1>1 DEF FlowStarted
<1>2. CASE ~Working(p)
  <2> DEFINE c == ClearPrimary(p)
             q == [c EXCEPT !.flow = f, !.stallcount = 0]
             d == [q EXCEPT !.wait = {}, !.due = {}]
  <2>1. Good(c) /\ c.flow = NoFlow /\ c.link = p.link
    BY ClearPrimaryGood DEF Good
  <2> HIDE DEF c
  <2>2. Typed(d) /\ q.wait \in SUBSET Strm
    BY <2>1, StallZero DEF Good, Typed, PeerState, Attempts
  <2>3. Alive(d) /\ Attached(d) /\ Served(d)
    BY <2>1 DEF Good, Typed, Alive, Attached, Served, PeerState
  <2> HIDE DEF q
  <2>4. Good(TAttach(d, q.wait))
    BY <2>2, <2>3, TAttachGood DEF Good
  <2> QED
    BY <1>2, <2>4 DEF FlowStarted, FlowConnected, q, c
<1> QED
  BY <1>1, <1>2

(* A link that comes up cancels early attempts and touches no stream. *)
LEMMA PrimaryUpGood ==
    ASSUME NEW p, Good(p)
    PROVE  Good(PrimaryUp(p))
<1>1. Typed(PrimaryUp(p))
  BY StallZero DEF PrimaryUp, Good, Typed, PeerState, Attempts
<1>2. Alive(PrimaryUp(p)) /\ Attached(PrimaryUp(p)) /\ Served(PrimaryUp(p))
  BY DEF PrimaryUp, Good, Typed, Alive, Attached, Served, PeerState
<1> QED
  BY <1>1, <1>2 DEF Good

(* A stalled primary is counted, and given up as the only way at StallMax. *)
LEMMA PrimaryStalledGood ==
    ASSUME NEW p, Good(p)
    PROVE  Good(PrimaryStalled(p))
<1> DEFINE more == [p EXCEPT !.stallcount = @ + 1]
           full == [p EXCEPT !.stallcount = StallMax]
<1>1. p.stallcount + 1 < StallMax => Good(more)
  BY PeerAssumption DEF Good, Typed, Alive, Attached, Served, PeerState, Attempts
<1>2. Good(full)
  BY PeerAssumption DEF Good, Typed, Alive, Attached, Served, PeerState, Attempts
<1>3. Good(ConnectFlow(full))
  BY <1>2, ConnectGood DEF ConnectFlow
<1> QED
  BY <1>1, <1>3 DEF PrimaryStalled

(* lookupDone() passes on what was found. *)
LEMMA LookupDoneGood ==
    ASSUME NEW p, Good(p), NEW c, NEW es \in SUBSET Addr
    PROVE  Good(LookupDone(p, c, es))
<1> DEFINE q == [p EXCEPT !.lookups = @ \ {c}]
<1>1. Good(q)
  BY DEF Good, Typed, Alive, Attached, Served, PeerState, Attempts
<1>2. Good(FoundEndpoints(q, es)) /\ Good(FlowFailed(q))
  BY <1>1, FoundGood, FlowFailedGood
<1> QED
  BY <1>1, <1>2 DEF LookupDone

-----------------------------------------------------------------------------
(* The inductive invariant holds at first ...                              *)
LEMMA GoodInit == Init => Good(peer)
  BY PeerAssumption DEF Init, Good, Typed, Alive, Attached, Served, PeerState,
                        Attempts

(* ... and every handler keeps it.                                         *)
LEMMA GoodNext ==
    ASSUME Good(peer), [Next]_vars
    PROVE  Good(peer')
<1> USE DEF PeerState
<1>1. ASSUME NEW e \in Addr, AttemptAdvances(e)
      PROVE  Good(peer')
  BY <1>1 DEF AttemptAdvances, Good, Typed, Alive, Attached, Served, Attempts
<1>2. ASSUME NEW e \in Addr, CompletedFalse(e)
      PROVE  Good(peer')
  <2> DEFINE p == [peer EXCEPT !.initors[e] = "none"]
  <2>1. Good(p)
    BY DEF Good, Typed, Alive, Attached, Served, Attempts
  <2>2. Good(FlowFailed(p))
    BY <2>1, FlowFailedGood
  <2> QED
    BY <1>2, <2>1, <2>2 DEF CompletedFalse
<1>3. ASSUME NEW e \in Addr, LocationHint(e)
      PROVE  Good(peer')
  BY <1>3, FoundGood DEF LocationHint
<1>4. ASSUME NEW f \in Flow, peer.link[f] = "none"
      PROVE  /\ Good([peer EXCEPT !.link[f] = "up"])
             /\ [peer EXCEPT !.link[f] = "up"].link[f] = "up"
  BY <1>4 DEF Good, Typed, Alive, Attached, Served, Attempts
<1>5. ASSUME NEW e \in Addr, NEW f \in Flow, CompletedTrue(e, f)
      PROVE  Good(peer')
  <2> DEFINE q == FlowStarted([peer EXCEPT !.link[f] = "up"], f)
  <2>1. Good(q)
    BY <1>4, <1>5, FlowStartedGood DEF CompletedTrue
  <2>2. peer' = [q EXCEPT !.initors[e] = "none"]
    BY <1>5 DEF CompletedTrue
  <2> HIDE DEF q
  <2> QED
    BY <2>1, <2>2 DEF Good, Typed, Alive, Attached, Served, Attempts
<1>6. ASSUME NEW f \in Flow, IncomingFlow(f)
      PROVE  Good(peer')
  BY <1>4, <1>6, FlowStartedGood DEF IncomingFlow
<1>7. ASSUME NEW f \in Flow, LinkStalled(f)
      PROVE  Good(peer')
  <2> DEFINE p == [peer EXCEPT !.link[f] = "stalled"]
  <2>1. Good(p)
    BY <1>7 DEF LinkStalled, Good, Typed, Alive, Attached, Served, Attempts
  <2>2. Good(PrimaryStalled(p))
    BY <2>1, PrimaryStalledGood
  <2> QED
    BY <1>7, <2>1, <2>2 DEF LinkStalled
<1>8. ASSUME NEW f \in Flow, LinkUp(f)
      PROVE  Good(peer')
  <2> DEFINE p == [peer EXCEPT !.link[f] = "up"]
  <2>1. Good(p)
    BY <1>8 DEF LinkUp, Good, Typed, Alive, Attached, Served, Attempts
  <2>2. Good(PrimaryUp(p))
    BY <2>1, PrimaryUpGood
  <2> QED
    BY <1>8, <2>1, <2>2 DEF LinkUp
<1>9. ASSUME NEW f \in Flow, LinkDown(f)
      PROVE  Good(peer')
  <2> DEFINE p == [peer EXCEPT !.link[f] = "gone"]
  <2>1. Typed(p) /\ Attached(p) /\ Served(p) /\ (p.flow # f => Good(p))
    BY <1>9 DEF LinkDown, Good, Typed, Alive, Attached, Served, Attempts
  <2>2. Good(ClearPrimary(p))
    BY <2>1, ClearPrimaryGood
  <2> QED
    BY <1>9, <2>1, <2>2 DEF LinkDown
<1>10. ASSUME NEW c \in Client, LookupAnswered(c)
       PROVE  Good(peer')
  BY <1>10, LookupDoneGood DEF LookupAnswered
<1>11. ASSUME NEW c \in Client, RegConnected(c)
       PROVE  Good(peer')
  BY <1>11, ConnectGood DEF RegConnected
<1>12. ASSUME NEW c \in Client, RegBusy(c)
       PROVE  Good(peer')
  BY <1>12 DEF RegBusy
<1>13. ASSUME NEW c, NEW r
       PROVE  Good(ConnectWith(LookupDone(peer, c, {}), r))
  <2>1. Good(LookupDone(peer, c, {}))
    BY LookupDoneGood
  <2> QED
    BY <2>1, ConnectGood
<1>14. ASSUME NEW c \in Client, RegDisconnected(c)
       PROVE  Good(peer')
  BY <1>13, <1>14 DEF RegDisconnected
<1>15. ASSUME NEW c \in Client, RegDestroyed(c)
       PROVE  Good(peer')
  <2> DEFINE r == [reg EXCEPT ![c] = "gone"]
             p == IF reg[c] = "off" THEN peer
                  ELSE ConnectWith(LookupDone(peer, c, {}), r)
  <2>1. Good(p)
    BY <1>13
  <2>2. peer' = [p EXCEPT !.lookups = @ \ {c}]
    BY <1>15 DEF RegDestroyed
  <2> HIDE DEF p
  <2> QED
    BY <2>1, <2>2 DEF Good, Typed, Alive, Attached, Served, Attempts
<1>16. ASSUME NEW s \in Strm, TxEnqueue(s)
       PROVE  Good(peer')
  <2> DEFINE p == [peer EXCEPT !.data[s] = "queued"]
  <2>1. Good(p)
    BY <1>16 DEF TxEnqueue, Good, Typed, Alive, Attached, Served, Attempts
  <2>2. Good(TAttach(p, {s}))
    BY <2>1, TAttachGood
  <2> QED
    BY <1>16, <2>2 DEF TxEnqueue
<1>17. ASSUME NEW s \in Strm, Transmit(s)
       PROVE  Good(peer')
  BY <1>17 DEF Transmit, Good, Typed, Alive, Attached, Served, Attempts
<1>18. ASSUME NEW s \in Strm, Acked(s)
       PROVE  Good(peer')
  BY <1>18 DEF Acked, Good, Typed, Alive, Attached, Served, Attempts
<1>19. CASE UNCHANGED vars
  BY <1>19 DEF vars
<1> QED
  BY <1>1, <1>2, <1>3, <1>5, <1>6, <1>7, <1>8, <1>9, <1>10, <1>11, <1>12, <1>14,
     <1>15, <1>16, <1>17, <1>18, <1>19 DEF Next

LEMMA GoodAlways == Spec => []Good(peer)
<1>1. Good(peer) /\ [Next]_vars => Good(peer)'
  BY GoodNext
<1> QED
  BY GoodInit, <1>1, PTL DEF Spec

-----------------------------------------------------------------------------
(* Type correctness of the peer, and that it tries only endpoints that it  *)
(* knows and can bind a flow to.                                           *)
THEOREM PeerTypeCorrect == Spec => []TypeOK
<1>1. Good(peer) => TypeOK
  BY DEF Good, Typed, PeerState, TypeOK
<1> QED
  BY GoodAlways, <1>1, PTL

(* However flows start, stall, fail and replace one another, and whatever  *)
(* streams do in the middle of it, a stream is attached to the primary or  *)
(* to nothing, and the primary has not destroyed itself.                   *)
THEOREM OnlyPrimary == Spec => []AttachedToPrimary
<1>1. Good(peer) => AttachedToPrimary
  BY DEF Good, Alive, Attached, AttachedToPrimary
<1> QED
  BY GoodAlways, <1>1, PTL

(* No stream is left waiting by clearPrimary() and flowStarted() when a    *)
(* primary comes up.                                                       *)
THEOREM NobodyWaits == Spec => []WaitersServed
<1>1. Good(peer) => WaitersServed
  BY DEF Good, Served, WaitersServed
<1> QED
  BY GoodAlways, <1>1, PTL
=============================================================================
