----------------------------- MODULE KeyExchange -----------------------------
(***************************************************************************)
(* The key exchange that sets up flows between two hosts: KeyInitiator and *)
(* KeyResponder, the channel tables of their sockets and the hosts'        *)
(* Diffie-Hellman keys.                                                    *)
(*                                                                         *)
(* An attempt is one KeyInitiator object; its nonce ni, the hash nhi of it *)
(* and its checksum key are unique and stand for the attempt itself.       *)
(* Cryptography is ideal: a key derived from a master secret is the tuple  *)
(* of what it is derived from, a signed or encrypted block is its          *)
(* contents, and the cookie hhkr is determined by what it covers.  The     *)
(* network loses, delays, reorders and repeats messages.                   *)
(***************************************************************************)
EXTENDS Integers, Sequences, FiniteSets

CONSTANTS
    Host,           \* the two hosts
    Attempt,        \* KeyInitiator objects
    Home,           \* the host of an attempt
    At,             \* the host that answers at the attempt's endpoint
    Idr,            \* the identity the attempt wants to reach
    Method,         \* "AES" or "CHK", from the scheme of Idr
    NoFlow,
    MaxChan,        \* free channels of a host for the other's endpoint, at most 255
    Tries,          \* timeouts until txtimer's hard deadline, 20 s
    MaxNonces,      \* bound: nonces responders draw
    MaxFaults       \* bound: repeated deliveries, prompts, expired keys, lost flows

ASSUME KeyAssumption ==
    /\ Home \in [Attempt -> Host] /\ At \in [Attempt -> Host]
    /\ \A i \in Attempt : Home[i] # At[i]
    /\ Method \in [Attempt -> {"AES", "CHK"}]
    /\ MaxChan \in [Host -> Nat] /\ Tries \in Nat \ {0}
    /\ MaxNonces \in Nat /\ MaxFaults \in Nat

VARIABLES
    ini,            \* the members of each KeyInitiator
    initeps,        \* h->initeps: attempts under way, latest first
    dhkey,          \* h->dhkeys: generation of the host's current key
    r2cache,        \* hk->r2cache of all keys, as the cached packets
    flows,          \* Socket::flows: the flow bound to each channel
    made,           \* history: responder flows created per nonce
    nonces,         \* nonces and responder checksum keys drawn so far
    msgs,           \* the network
    faults          \* disturbances so far

vars == <<ini, initeps, dhkey, r2cache, flows, made, nonces, msgs, faults>>

Chan(h) == 1 .. MaxChan[h]

Nonce == 1 .. MaxNonces

PubKey(h) == <<h, dhkey[h]>>

Idle == [state |-> "Idle", early |-> TRUE, armed |-> FALSE, tries |-> 0,
         chan |-> 0, dhi |-> <<>>, nr |-> 0, dhr |-> <<>>, ok |-> FALSE]

Init ==
    /\ ini = [i \in Attempt |-> Idle]
    /\ initeps = [h \in Host |-> <<>>]
    /\ dhkey = [h \in Host |-> 1]
    /\ r2cache = {}
    /\ flows = [h \in Host |-> [c \in Chan(h) |-> NoFlow]]
    /\ made = [n \in Nonce |-> <<>>]
    /\ nonces = 0
    /\ msgs = {}
    /\ faults = 0

-----------------------------------------------------------------------------
(* Messages, by the kind of their chunk, and the keys of a flow.           *)
Message(i, kind, nr, dhi, dhr, chan) ==
    [att |-> i, kind |-> kind, nr |-> nr, dhi |-> dhi, dhr |-> dhr, chan |-> chan]

(* KeyInitiator::sendI1 with the host key that is current then. *)
I1(i, chan) ==
    IF Method[i] = "CHK"
      THEN Message(i, "ChkI1", 0, <<>>, <<>>, chan)
      ELSE Message(i, "DhI1", 0, PubKey(Home[i]), <<>>, 0)

I2(i, k) == Message(i, "DhI2", k.nr, k.dhi, k.dhr, k.chan)

R0(h) == [to |-> h, kind |-> "R0"]

Fault == faults < MaxFaults /\ faults' = faults + 1

(* Delivery of m, answered by out. *)
Deliver(m, out) ==
    /\ m \in msgs
    /\ \/ msgs' = (msgs \ {m}) \cup out /\ faults' = faults
       \/ Fault /\ msgs' = msgs \cup out

(* What both ends derive the armor keys and channel IDs from.  AES keys    *)
(* come from the master secret, which the two public keys determine, and   *)
(* the nonces with the sender's first; checksum keys are used as they are. *)
AesKey(k, first, second) == <<{k.dhi, k.dhr}, first, second>>

InitiatorKeys(i, k) ==
    IF Method[i] = "CHK" THEN [tx |-> <<i>>, rx |-> <<k.nr>>]
    ELSE [tx |-> AesKey(k, i, k.nr), rx |-> AesKey(k, k.nr, i)]

ResponderKeys(i, k) ==
    IF Method[i] = "CHK" THEN [tx |-> <<k.nr>>, rx |-> <<i>>]
    ELSE [tx |-> AesKey(k, k.nr, i), rx |-> AesKey(k, i, k.nr)]

FlowOf(i, role, active, n, keys, rchan) ==
    [att |-> i, role |-> role, active |-> active, nonce |-> n, tx |-> keys.tx,
     rx |-> keys.rx, rchan |-> rchan]

(* SocketFlow::bind: the lowest free channel number, 0 if there is none. *)
FreeChan(h) ==
    LET free == {c \in Chan(h) : flows[h][c] = NoFlow}
    IN  IF free = {} THEN 0 ELSE CHOOSE c \in free : \A d \in free : c <= d

-----------------------------------------------------------------------------
(* StreamPeer::initiate and the constructor of KeyInitiator, for one of    *)
(* the identity schemes it knows.                                          *)
Initiate(i) ==
    LET h == Home[i]
        c == FreeChan(h)
    IN  /\ ini[i].state = "Idle" /\ c # 0
        /\ flows' = [flows EXCEPT
               ![h][c] = FlowOf(i, "I", FALSE, 0, [tx |-> <<>>, rx |-> <<>>], 0)]
        /\ ini' = [ini EXCEPT ![i] =
               [@ EXCEPT !.state = "I1", !.early = Method[i] # "CHK",
                         !.armed = TRUE, !.chan = c, !.dhi = PubKey(h)]]
        /\ initeps' = [initeps EXCEPT ![h] = <<i>> \o @]
        /\ msgs' = msgs \cup {I1(i, c)}
        /\ UNCHANGED <<dhkey, r2cache, made, nonces, faults>>

(* sendI1() of an initiator that exists: what an R1 had set is cleared. *)
BackToI1(i) ==
    [ini[i] EXCEPT !.state = "I1", !.dhi = PubKey(Home[i]), !.nr = 0, !.dhr = <<>>]

(* completed(false), and StreamPeer::completed: the initiator leaves the   *)
(* tables and is deleted together with its flow.                           *)
Place(i) == CHOOSE k \in 1 .. Len(initeps[Home[i]]) : initeps[Home[i]][k] = i

Remove(i) ==
    [initeps EXCEPT ![Home[i]] =
        [x \in 1 .. Len(@) - 1 |-> @[IF x < Place(i) THEN x ELSE x + 1]]]

Abandon(i) ==
    /\ ini' = [ini EXCEPT ![i] = [@ EXCEPT !.state = "Done", !.armed = FALSE]]
    /\ initeps' = Remove(i)
    /\ flows' = [flows EXCEPT ![Home[i]][ini[i].chan] = NoFlow]

(* KeyInitiator::retransmit, the slot of txtimer. *)
Expired(i) == ini[i].tries + 1 >= Tries

ResentOnce(i) ==                \* fault: the timer is not restarted
    [(IF ini[i].state = "I1" THEN BackToI1(i) ELSE ini[i])
        EXCEPT !.tries = @ + 1, !.armed = FALSE]

Resent(i) ==
    [(IF ini[i].state = "I1" THEN BackToI1(i) ELSE ini[i]) EXCEPT !.tries = @ + 1]

Retransmit(i) ==
    /\ ini[i].armed
    /\ \/ Expired(i) /\ Abandon(i) /\ UNCHANGED msgs
       \/ /\ ~Expired(i)
          /\ ini' = [ini EXCEPT ![i] = Resent(i)]
          /\ msgs' = msgs \cup {IF ini[i].state = "I1" THEN I1(i, ini[i].chan)
                                ELSE I2(i, ini[i])}
          /\ UNCHANGED <<initeps, flows>>
    /\ UNCHANGED <<dhkey, r2cache, made, nonces, faults>>

(* StreamPeer::primaryStatusChanged(LinkUp) gives up the attempts for      *)
(* which isEarly() says that the responder knows nothing of them yet.      *)
CancelEarly(i) ==
    /\ ini[i].state \in {"I1", "I2"} /\ ini[i].early
    /\ Abandon(i)
    /\ UNCHANGED <<dhkey, r2cache, made, nonces, msgs, faults>>

-----------------------------------------------------------------------------
(* KeyResponder.  newFlow() binds a flow or fails for want of a channel;   *)
(* the flow is started in the same handler.                                *)
NewFlow(m, h, n, keys) ==
    LET c == FreeChan(h)
        f == FlowOf(m.att, "R", TRUE, n, keys, m.chan)
    IN  /\ flows' = [flows EXCEPT ![h][c] = f]
        /\ made' = [made EXCEPT ![n] = Append(@, [flow |-> f, chan |-> c])]

(* KeyResponder::gotChkI1.  chkflows holds the armor of every checksum     *)
(* flow this host accepted and has not deleted.                            *)
ChkFlows(h) ==
    {flows[h][c].att : c \in {d \in Chan(h) : flows[h][d] # NoFlow
                                /\ flows[h][d].role = "R"
                                /\ Method[flows[h][d].att] = "CHK"}}

GotChkI1(m) ==
    LET h == At[m.att]
        n == nonces + 1
        k == [nr |-> n]
    IN  /\ m \in msgs /\ m.kind = "ChkI1"
        /\ \/ /\ m.att \in ChkFlows(h) \/ FreeChan(h) = 0
              /\ Deliver(m, {})
              /\ UNCHANGED <<flows, made, nonces>>
           \/ /\ m.att \notin ChkFlows(h) /\ FreeChan(h) # 0 /\ n <= MaxNonces
              /\ nonces' = n
              /\ NewFlow(m, h, n, ResponderKeys(m.att, k))
              /\ Deliver(m, {Message(m.att, "ChkR1", n, <<>>, <<>>, FreeChan(h))})
    /\ UNCHANGED <<ini, initeps, dhkey, r2cache>>

(* KeyResponder::gotDhI1: no state, only an answer with a fresh nonce. *)
R1(m) == Message(m.att, "DhR1", nonces + 1, m.dhi, PubKey(At[m.att]), 0)

GotDhI1(m) ==
    /\ m \in msgs /\ m.kind = "DhI1"
    /\ nonces < MaxNonces /\ nonces' = nonces + 1
    /\ Deliver(m, {R1(m)})
    /\ UNCHANGED <<ini, initeps, dhkey, r2cache, flows, made>>

(* KeyResponder::gotDhI2.  An outdated host key is answered with a new R1, *)
(* an I2 answered before with the cached R2; otherwise the flow is set up. *)
Outdated(m) == m.dhr # PubKey(At[m.att])

CachedNothing(m) == {}          \* fault: the R2 is not cached

Cached(m) == {r \in r2cache : r.att = m.att /\ r.nr = m.nr /\ r.dhr = m.dhr}

GotDhI2Outdated(m) ==
    /\ m \in msgs /\ m.kind = "DhI2" /\ Outdated(m)
    /\ nonces < MaxNonces /\ nonces' = nonces + 1
    /\ Deliver(m, {R1(m)})
    /\ UNCHANGED <<ini, initeps, dhkey, r2cache, flows, made>>

GotDhI2Again(m) ==
    /\ m \in msgs /\ m.kind = "DhI2" /\ ~Outdated(m) /\ Cached(m) # {}
    /\ Deliver(m, Cached(m))
    /\ UNCHANGED <<ini, initeps, dhkey, r2cache, flows, made, nonces>>

GotDhI2(m) ==
    LET h == At[m.att]
        r2 == Message(m.att, "DhR2", m.nr, m.dhi, m.dhr, FreeChan(h))
    IN  /\ m \in msgs /\ m.kind = "DhI2" /\ ~Outdated(m) /\ Cached(m) = {}
        /\ \/ /\ FreeChan(h) = 0
              /\ Deliver(m, {})
              /\ UNCHANGED <<flows, made, r2cache>>
           \/ /\ FreeChan(h) # 0
              /\ NewFlow(m, h, m.nr, ResponderKeys(m.att, m))
              /\ r2cache' = r2cache \cup {r2}
              /\ Deliver(m, {r2})
        /\ UNCHANGED <<ini, initeps, dhkey, nonces>>

-----------------------------------------------------------------------------
(* The initiator's handlers, entered through the host's tables.            *)
Known(i) == \E x \in 1 .. Len(initeps[Home[i]]) : initeps[Home[i]][x] = i

(* start(true), completed(true) and StreamPeer::completed. *)
Complete(i, n, keys, rchan) ==
    /\ ini' = [ini EXCEPT ![i] =
           [@ EXCEPT !.state = "Done", !.armed = FALSE, !.ok = TRUE]]
    /\ initeps' = Remove(i)
    /\ flows' = [flows EXCEPT ![Home[i]][ini[i].chan] =
           FlowOf(i, "I", TRUE, n, keys, rchan)]

(* KeyInitiator::gotChkR1.  This responder never asks for a cookie. *)
GotChkR1(m) ==
    /\ m \in msgs /\ m.kind = "ChkR1"
    /\ IF Known(m.att)
         THEN Complete(m.att, m.nr, InitiatorKeys(m.att, m), m.chan)
         ELSE UNCHANGED <<ini, initeps, flows>>
    /\ Deliver(m, {})
    /\ UNCHANGED <<dhkey, r2cache, made, nonces>>

(* KeyInitiator::gotDhR1: the latest answer replaces an earlier one, and   *)
(* the timer with its deadline starts again.                               *)
SendDhI2Early(i, m) ==          \* fault: early is not cleared
    [ini[i] EXCEPT !.state = "I2", !.armed = TRUE, !.tries = 0,
                   !.nr = m.nr, !.dhr = m.dhr]

SendDhI2(i, m) ==
    [ini[i] EXCEPT !.state = "I2", !.early = FALSE, !.armed = TRUE, !.tries = 0,
                   !.nr = m.nr, !.dhr = m.dhr]

GotDhR1(m) ==
    LET i == m.att
    IN  /\ m \in msgs /\ m.kind = "DhR1"
        /\ \/ /\ ~Known(i)
              /\ Deliver(m, {})
              /\ UNCHANGED ini
           \/ /\ Known(i) /\ ini[i].dhi # PubKey(Home[i])
              /\ ini' = [ini EXCEPT ![i] = BackToI1(i)]
              /\ Deliver(m, {I1(i, ini[i].chan)})
           \/ /\ Known(i) /\ ini[i].dhi = PubKey(Home[i])
              /\ ini' = [ini EXCEPT ![i] = SendDhI2(i, m)]
              /\ Deliver(m, {I2(i, SendDhI2(i, m))})
        /\ UNCHANGED <<initeps, dhkey, r2cache, flows, made, nonces>>

(* KeyInitiator::gotDhR2: the MAC and the signature of the R2 are right    *)
(* only for the parameters of the last I2, and the identity in it is the   *)
(* responder's.                                                            *)
R2AnyNonce(i, m) == At[i] = Idr[i]  \* fault: the MAC is not verified

R2Authentic(i, m) ==
    /\ m.nr = ini[i].nr /\ m.dhi = ini[i].dhi /\ m.dhr = ini[i].dhr
    /\ At[i] = Idr[i]

GotDhR2(m) ==
    LET i == m.att
    IN  /\ m \in msgs /\ m.kind = "DhR2"
        /\ \/ /\ ~Known(i) \/ ini[i].state # "I2"
              /\ Deliver(m, {})
              /\ UNCHANGED <<ini, initeps, flows>>
           \/ /\ Known(i) /\ ini[i].state = "I2" /\ ini[i].dhi # PubKey(Home[i])
              /\ ini' = [ini EXCEPT ![i] = BackToI1(i)]
              /\ Deliver(m, {I1(i, ini[i].chan)})
              /\ UNCHANGED <<initeps, flows>>
           \/ /\ Known(i) /\ ini[i].state = "I2" /\ ini[i].dhi = PubKey(Home[i])
              /\ IF R2Authentic(i, m)
                   THEN Complete(i, ini[i].nr, InitiatorKeys(i, ini[i]), m.chan)
                   ELSE UNCHANGED <<ini, initeps, flows>>
              /\ Deliver(m, {})
        /\ UNCHANGED <<dhkey, r2cache, made, nonces>>

(* KeyResponder::sendR0, prompted by a lookup through the registry, and    *)
(* KeyInitiator::gotR0, which returns at the first initiator past I1.      *)
SendR0(h) ==
    /\ msgs' = msgs \cup {R0(h)}
    /\ R0(h) \notin msgs /\ Fault
    /\ UNCHANGED <<ini, initeps, dhkey, r2cache, flows, made, nonces>>

Prompted(h) ==
    {initeps[h][x] : x \in {y \in 1 .. Len(initeps[h]) :
                              \A z \in 1 .. y : ini[initeps[h][z]].state = "I1"}}

GotR0(h) ==
    /\ ini' = [i \in Attempt |-> IF i \in Prompted(h) THEN BackToI1(i) ELSE ini[i]]
    /\ Deliver(R0(h), {I1(i, ini[i].chan) : i \in Prompted(h)})
    /\ UNCHANGED <<initeps, dhkey, r2cache, flows, made, nonces>>

(* DHKey::timeout and the key that the next getDHKey() generates: the      *)
(* responses cached with the old key go with it.                           *)
KeyTimeout(h) ==
    /\ Fault
    /\ dhkey' = [dhkey EXCEPT ![h] = @ + 1]
    /\ r2cache' = {r \in r2cache : At[r.att] # h}
    /\ UNCHANGED <<ini, initeps, flows, made, nonces, msgs>>

(* A flow that is up goes down for good: StreamFlow stops, unbinds and     *)
(* deletes itself, and its armor leaves chkflows.                          *)
FlowDown(h, c) ==
    /\ flows[h][c] # NoFlow /\ flows[h][c].active /\ Fault
    /\ flows' = [flows EXCEPT ![h][c] = NoFlow]
    /\ UNCHANGED <<ini, initeps, dhkey, r2cache, made, nonces, msgs>>

(* KeyResponder::receive. *)
Receive ==
    \E m \in msgs :
        \/ GotChkI1(m) \/ GotChkR1(m)
        \/ GotDhI1(m) \/ GotDhR1(m)
        \/ GotDhI2(m) \/ GotDhI2Again(m) \/ GotDhI2Outdated(m)
        \/ GotDhR2(m)

Next ==
    \/ \E i \in Attempt : Initiate(i) \/ Retransmit(i) \/ CancelEarly(i)
    \/ Receive
    \/ \E h \in Host : SendR0(h) \/ GotR0(h) \/ KeyTimeout(h)
    \/ \E h \in Host : \E c \in Chan(h) : FlowDown(h, c)

Spec == Init /\ [][Next]_vars

(* A started timer expires in the end; the network has to do nothing. *)
FairSpec == Spec /\ \A i \in Attempt : WF_vars(Retransmit(i))

-----------------------------------------------------------------------------
(* Type correctness of the initiators, the channel tables and the counters. *)
TypeOK ==
    /\ \A i \in Attempt :
           /\ ini[i].state \in {"Idle", "I1", "I2", "Done"}
           /\ ini[i].chan \in 0 .. MaxChan[Home[i]] /\ ini[i].tries \in 0 .. Tries
           /\ ini[i].nr \in 0 .. nonces
    /\ \A h \in Host : \A c \in Chan(h) :
           flows[h][c] # NoFlow => flows[h][c].att \in Attempt
    /\ nonces \in 0 .. MaxNonces /\ faults \in 0 .. MaxFaults

(* Agreement: when an initiator's flow is up, the responder made a flow    *)
(* for the same attempt whose keys are its own in the opposite order, and  *)
(* each end sends on the channel the other listens on.                     *)
Agreement ==
    \A h \in Host : \A c \in Chan(h) :
        LET f == flows[h][c]
        IN  f # NoFlow /\ f.role = "I" /\ f.active =>
                \E x \in 1 .. Len(made[f.nonce]) :
                    LET g == made[f.nonce][x].flow
                    IN  /\ g.att = f.att
                        /\ f.tx = g.rx /\ f.rx = g.tx
                        /\ f.rchan = made[f.nonce][x].chan /\ g.rchan = c

(* isEarly() keeps its word: as long as it holds, and for ever if the      *)
(* attempt is cancelled while it does, the responder has no flow for it.   *)
EarlyLeavesNoState ==
    \A i \in Attempt : ini[i].early =>
        \A n \in Nonce : \A x \in 1 .. Len(made[n]) : made[n][x].flow.att # i

(* An exchange, whatever of it is repeated, makes one flow: the cache of   *)
(* R2 packets may forget only what a new host key makes useless.           *)
OneFlowPerExchange == \A n \in Nonce : Len(made[n]) <= 1

(* Every key exchange ends: completed() is signalled although the network  *)
(* may lose everything and host keys expire on the way.                    *)
Terminates ==
    \A i \in Attempt : (ini[i].state = "I1") ~> (ini[i].state = "Done")
=============================================================================
