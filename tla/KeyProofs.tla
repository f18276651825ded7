------------------------------ MODULE KeyProofs ------------------------------
(***************************************************************************)
(* Theorems about KeyExchange, for any attempts between any hosts, with    *)
(* any number of channels, nonces, timeouts and disturbances.              *)
(*                                                                         *)
(* The argument follows the nonce a responder draws.  It reaches the       *)
(* network in one R1, so whatever speaks of it later names one attempt and *)
(* one host key (Binding); a flow is made for it only while that key is    *)
(* current and the R2 is not cached (Spent); and every answer that speaks  *)
(* of it describes the flow that was made (Sent).                          *)
(***************************************************************************)
EXTENDS KeyExchange, WellFoundedInduction, SequenceTheorems, TLAPS

Keys == {<<>>} \cup (Host \X Nat)

Initiator ==
    [state : {"Idle", "I1", "I2", "Done"}, early : BOOLEAN, armed : BOOLEAN,
     tries : Nat, chan : Nat, dhi : Keys, nr : Nat, dhr : Keys, ok : BOOLEAN]

Typed ==
    /\ ini \in [Attempt -> Initiator]
    /\ initeps \in [Host -> Seq(Attempt)]
    /\ dhkey \in [Host -> Nat]
    /\ DOMAIN flows = Host /\ \A h \in Host : DOMAIN flows[h] = Chan(h)
    /\ DOMAIN made = Nonce
    /\ nonces \in Nat /\ nonces <= MaxNonces
    /\ faults \in Nat /\ faults <= MaxFaults

(* How far an initiator got. *)
Staged ==
    \A i \in Attempt :
        /\ ini[i].armed => ini[i].state \in {"I1", "I2"}
        /\ ini[i].state = "I2" => ~ini[i].early
        /\ ini[i].state # "Idle" /\ Method[i] = "CHK" => ~ini[i].early

(* A flow for nonce n and attempt i, as its initiator will be told. *)
Answered(i, n, keys, chan) ==
    /\ n \in Nonce /\ Len(made[n]) = 1
    /\ made[n][1].chan = chan
    /\ made[n][1].flow.att = i
    /\ made[n][1].flow.tx = keys.tx /\ made[n][1].flow.rx = keys.rx
    /\ made[n][1].flow.rchan = ini[i].chan

(* What a message says is true of its sender. *)
Sent(m) ==
    m.kind # "R0" =>
        /\ m.att \in Attempt /\ ini[m.att].state # "Idle"
        /\ m.nr \in Nat /\ m.dhi \in Keys /\ m.dhr \in Keys /\ m.chan \in Nat
        /\ m.kind = "ChkI1" => Method[m.att] = "CHK" /\ m.chan = ini[m.att].chan
        /\ m.kind = "DhI2" => ~ini[m.att].early /\ m.chan = ini[m.att].chan
        /\ m.kind \in {"ChkR1", "DhR2"} =>
               Answered(m.att, m.nr, ResponderKeys(m.att, m), m.chan)
        /\ m.kind = "ChkR1" => Method[m.att] = "CHK"

Truthful ==
    /\ \A m \in msgs : Sent(m)
    /\ \A r \in r2cache : r.kind = "DhR2" /\ Sent(r)

(* Somebody speaks of nonce n, for attempt i and the responder's key d. *)
Says(i, n, d) ==
    \/ \E m \in msgs : /\ m.kind \in {"DhR1", "DhI2"}
                       /\ m.att = i /\ m.nr = n /\ m.dhr = d
    \/ /\ i \in Attempt /\ ini[i].state = "I2"
       /\ ini[i].nr = n /\ ini[i].dhr = d

(* A nonce that was drawn, and a key of the responder, maybe an old one. *)
Drawn ==
    \A i, n, d : Says(i, n, d) =>
        /\ i \in Attempt /\ n \in Nonce /\ n <= nonces
        /\ \E g \in Nat : d = <<At[i], g>> /\ g <= dhkey[At[i]]

(* A nonce belongs to one attempt and one key. *)
Binding ==
    \A i, j, n, d, e : Says(i, n, d) /\ Says(j, n, e) => i = j /\ d = e

(* An I2 that says so is outdated or answered from the cache. *)
Refused(i, n, d) ==
    \/ d # PubKey(At[i])
    \/ \E r \in r2cache : r.att = i /\ r.nr = n /\ r.dhr = d

(* A nonce for which there is a flow makes no other. *)
Spent ==
    \A i, n, d : Says(i, n, d) /\ made[n] # <<>> => Refused(i, n, d)

(* The flows made: at most one for a nonce, none for a nonce not drawn, *)
(* each for an attempt that is no longer early.                         *)
Flows ==
    \A n \in Nonce :
        \/ made[n] = <<>>
        \/ /\ n <= nonces
           /\ \E e : made[n] = <<e>> /\ e.flow.att \in Attempt
                       /\ ini[e.flow.att].state # "Idle"
                       /\ ~ini[e.flow.att].early

(* The initiator's flow f on channel c and the one made for its nonce. *)
Paired(f, c) ==
    /\ f.nonce \in Nonce /\ Len(made[f.nonce]) = 1
    /\ made[f.nonce][1].flow.att = f.att
    /\ f.tx = made[f.nonce][1].flow.rx /\ f.rx = made[f.nonce][1].flow.tx
    /\ f.rchan = made[f.nonce][1].chan /\ made[f.nonce][1].flow.rchan = c

Up(f) == f # NoFlow /\ f.role = "I" /\ f.active

Agreed ==
    \A h \in Host : \A c \in Chan(h) : Up(flows[h][c]) => Paired(flows[h][c], c)

Inv ==
    /\ Typed /\ TypeOK /\ Staged /\ Truthful
    /\ Drawn /\ Binding /\ Spent /\ Flows
    /\ Agreed

(* What no step takes back. *)
Monotone ==
    /\ \A i \in Attempt : ini[i].state # "Idle" =>
           /\ ini'[i].state # "Idle" /\ ini'[i].chan = ini[i].chan
           /\ ~ini[i].early => ~ini'[i].early
    /\ nonces <= nonces'
    /\ \A n \in Nonce : made[n] # <<>> => made'[n] = made[n]

(* Nobody starts to speak of a nonce. *)
Quiet == \A i, n, d : Says(i, n, d)' => Says(i, n, d)

-----------------------------------------------------------------------------
(* A set of channel numbers that is not empty has a lowest one. *)
LEMMA Lowest ==
    ASSUME NEW S \in SUBSET Nat, S # {}
    PROVE  \E c \in S : \A d \in S : c <= d
<1>1. PICK c \in S : \A d \in S : ~(<<d, c>> \in OpToRel(<, Nat))
  BY NatLessThanWellFounded, WFMin
<1>2. \A d \in S : ~(d < c)
  BY <1>1 DEF OpToRel
<1> QED
  BY <1>2

(* bind() finds a channel of the socket, or none. *)
LEMMA FreeChanType ==
    ASSUME NEW h \in Host
    PROVE  FreeChan(h) \in Nat /\ FreeChan(h) <= MaxChan[h]
<1> DEFINE free == {c \in Chan(h) : flows[h][c] = NoFlow}
<1>1. MaxChan[h] \in Nat
  BY KeyAssumption
<1>2. free \in SUBSET Nat
  BY <1>1 DEF Chan
<1>3. CASE free = {}
  BY <1>1, <1>3 DEF FreeChan
<1>4. CASE free # {}
  <2>1. \E c \in free : \A d \in free : c <= d
    BY <1>2, <1>4, Lowest
  <2>2. FreeChan(h) \in free
    BY <2>1, <1>4 DEF FreeChan
  <2> QED
    BY <2>2, <1>1 DEF Chan
<1> QED
  BY <1>3, <1>4

(* The two ends take the same keys, each the other way round. *)
LEMMA KeysMatch ==
    ASSUME NEW i, NEW k, NEW l, k.nr = l.nr,
           Method[i] = "CHK" \/ (k.dhi = l.dhi /\ k.dhr = l.dhr)
    PROVE  /\ InitiatorKeys(i, k).tx = ResponderKeys(i, l).rx
           /\ InitiatorKeys(i, k).rx = ResponderKeys(i, l).tx
  BY DEF InitiatorKeys, ResponderKeys, AesKey

(* What was true of a message stays true. *)
LEMMA Persist ==
    ASSUME Typed, Monotone, NEW m, Sent(m)
    PROVE  Sent(m)'
<1>1. ASSUME NEW i \in Attempt, NEW n, NEW keys, NEW chan,
             ini[i].state # "Idle", Answered(i, n, keys, chan)
      PROVE  Answered(i, n, keys, chan)'
  <2>1. made'[n] = made[n]
    BY <1>1 DEF Answered, Monotone
  <2> QED
    BY <1>1, <2>1 DEF Answered, Monotone
<1>2. m.kind # "R0" /\ m.kind \in {"ChkR1", "DhR2"} =>
          Answered(m.att, m.nr, ResponderKeys(m.att, m), m.chan)'
  BY <1>1 DEF Sent
<1>3. ResponderKeys(m.att, m)' = ResponderKeys(m.att, m)
  BY DEF ResponderKeys, AesKey
<1> QED
  BY <1>2, <1>3 DEF Sent, Monotone, Typed

(* An initiator's flow that agreed with the responder's still does. *)
LEMMA PairedKept ==
    ASSUME Monotone, NEW f, NEW c, Paired(f, c)
    PROVE  Paired(f, c)'
<1>1. made'[f.nonce] = made[f.nonce]
  BY DEF Paired, Monotone
<1> QED
  BY <1>1 DEF Paired

(* Flows that do not change, go away or are not an initiator's keep the    *)
(* agreement.                                                              *)
LEMMA AgreedKept ==
    ASSUME Agreed, Monotone,
           \A h \in Host : \A c \in Chan(h) :
               flows'[h][c] = flows[h][c] \/ ~Up(flows[h][c])'
                 \/ Paired(flows[h][c], c)'
    PROVE  Agreed'
<1> SUFFICES ASSUME NEW h \in Host, NEW c \in Chan(h), Up(flows[h][c])'
             PROVE  Paired(flows[h][c], c)'
  BY DEF Agreed, Up, Chan
<1>1. CASE flows'[h][c] = flows[h][c]
  BY <1>1, PairedKept DEF Agreed
<1>2. CASE Paired(flows[h][c], c)'
  BY <1>2
<1> QED
  BY <1>1, <1>2

(* A step of an initiator, or of the network, that draws no nonce. *)
LEMMA QuietStep ==
    ASSUME Inv, Typed', TypeOK', Staged', Agreed', Monotone, Quiet,
           \A m \in msgs' : m \in msgs \/ m \in r2cache \/ Sent(m)',
           UNCHANGED <<dhkey, r2cache, made, nonces>>
    PROVE  Inv'
<1> USE DEF Inv
<1>1. Truthful'
  <2>1. \A m : Sent(m) => Sent(m)'
    BY Persist
  <2> QED
    BY <2>1 DEF Truthful
<1>2. Drawn'
  BY DEF Drawn, Quiet
<1>3. Binding'
  BY DEF Binding, Quiet
<1>4. Spent'
  BY DEF Spent, Quiet, PubKey, Refused
<1>5. Flows'
  BY DEF Flows, Monotone
<1> QED
  BY <1>1, <1>2, <1>3, <1>4, <1>5

(* The first message is true of an initiator that is on its way. *)
LEMMA I1Sent ==
    ASSUME NEW i \in Attempt, NEW c, NEW m, m = I1(i, c), Typed, Typed',
           ini'[i].state # "Idle", c = ini'[i].chan
    PROVE  Sent(m)' /\ m.kind \in {"ChkI1", "DhI1"}
<1>1. PubKey(Home[i]) \in Keys /\ <<>> \in Keys
  BY KeyAssumption DEF PubKey, Keys, Typed
<1>2. c \in Nat
  BY DEF Typed, Initiator
<1> QED
  BY <1>1, <1>2, KeyAssumption DEF I1, Message, Sent

(* A delivery takes no message from nowhere. *)
LEMMA DeliverType ==
    ASSUME NEW m, NEW out, Deliver(m, out), Typed
    PROVE  /\ msgs' \subseteq msgs \cup out
           /\ faults' \in Nat /\ faults' <= MaxFaults
  BY KeyAssumption DEF Deliver, Fault, Typed

LEMMA RemoveType ==
    ASSUME Typed, NEW i \in Attempt
    PROVE  Remove(i) \in [Host -> Seq(Attempt)]
<1> DEFINE q == initeps[Home[i]]
           r == [x \in 1 .. Len(q) - 1 |-> q[IF x < Place(i) THEN x ELSE x + 1]]
<1>1. q \in Seq(Attempt) /\ Len(q) \in Nat
  BY KeyAssumption DEF Typed
<1>2. \A x \in 1 .. Len(q) - 1 : r[x] \in Attempt
  BY <1>1
<1>3. r \in Seq(Attempt)
  <2>1. CASE Len(q) = 0
    BY <2>1, <1>1, <1>2
  <2>2. CASE Len(q) # 0
    <3>1. Len(q) - 1 \in Nat
      BY <1>1, <2>2
    <3>2. r \in [1 .. Len(q) - 1 -> Attempt]
      BY <1>2
    <3> QED
      BY <3>1, <3>2, SeqDef
  <2> QED
    BY <2>1, <2>2
<1> QED
  BY <1>3 DEF Remove, Typed

-----------------------------------------------------------------------------
(* The initiator. *)
LEMMA StartedType ==
    ASSUME NEW r \in Initiator, NEW e \in BOOLEAN, NEW c \in Nat, NEW d \in Keys
    PROVE  [r EXCEPT !.state = "I1", !.early = e, !.armed = TRUE,
                     !.chan = c, !.dhi = d] \in Initiator
  BY DEF Initiator

LEMMA InitiateInv ==
    ASSUME Inv, NEW i \in Attempt, Initiate(i)
    PROVE  Inv'
<1> DEFINE h == Home[i]
           c == FreeChan(h)
<1> USE DEF Inv
<1>1. h \in Host /\ c \in Nat /\ c <= MaxChan[h]
  BY FreeChanType, KeyAssumption
<1>2. PubKey(h) \in Keys
  BY <1>1 DEF PubKey, Keys, Typed
<1>3. Typed'
  <2>1. ini' \in [Attempt -> Initiator]
    <3>1. ini[i] \in Initiator /\ (Method[i] # "CHK") \in BOOLEAN
      BY DEF Typed
    <3>2. [ini[i] EXCEPT !.state = "I1", !.early = Method[i] # "CHK",
                         !.armed = TRUE, !.chan = c, !.dhi = PubKey(h)] \in Initiator
      BY <1>1, <1>2, <3>1, StartedType
    <3> QED
      BY <3>2 DEF Initiate, Typed
  <2>2. initeps' \in [Host -> Seq(Attempt)]
    BY <1>1 DEF Initiate, Typed
  <2> QED
    BY <2>1, <2>2 DEF Initiate, Typed, Chan, Nonce
<1>4. TypeOK'
  <2>1. \A g \in Host : \A d \in Chan(g) :
            flows'[g][d] = flows[g][d] \/ flows'[g][d].att = i
    BY DEF Initiate, Typed, FlowOf
  <2>2. ASSUME NEW j \in Attempt
        PROVE  /\ ini'[j].state \in {"Idle", "I1", "I2", "Done"}
               /\ ini'[j].chan \in 0 .. MaxChan[Home[j]]
               /\ ini'[j].tries \in 0 .. Tries /\ ini'[j].nr \in 0 .. nonces
    <3>1. CASE j # i
      BY <3>1 DEF Initiate, Typed, TypeOK
    <3>2. CASE j = i
      <4>1. /\ ini'[i].state = "I1" /\ ini'[i].chan = c
            /\ ini'[i].tries = ini[i].tries /\ ini'[i].nr = ini[i].nr
        BY DEF Initiate, Typed, Initiator
      <4> HIDE DEF c
      <4>2. c \in 0 .. MaxChan[h]
        BY <1>1, KeyAssumption
      <4> QED
        BY <3>2, <4>1, <4>2 DEF TypeOK
    <3> QED
      BY <3>1, <3>2
  <2> QED
    BY <2>1, <2>2 DEF Initiate, TypeOK
<1>5. Staged'
  BY DEF Initiate, Staged, Typed, Initiator
<1>6. Monotone
  BY DEF Initiate, Monotone, Typed, Initiator
<1>7. Agreed'
  BY <1>6, AgreedKept DEF Initiate, Typed, FlowOf, Up
<1>8. \A m \in msgs' : m \in msgs \/ (Sent(m)' /\ m.kind \in {"ChkI1", "DhI1"})
  <2>1. ini'[i].state # "Idle" /\ c = ini'[i].chan
    BY <1>1 DEF Initiate, Typed, Initiator
  <2> QED
    BY <2>1, <1>3, I1Sent DEF Initiate
<1>9. Quiet
  BY <1>8 DEF Quiet, Says, Initiate, Typed, Initiator
<1> QED
  BY <1>3, <1>4, <1>5, <1>6, <1>7, <1>8, <1>9, QuietStep DEF Initiate

(* An initiator that gets further, goes back to I1 or ends. *)
LEMMA OneInitiator ==
    ASSUME Inv, NEW i \in Attempt, ini[i].state # "Idle",
           NEW k \in Initiator, ini' = [ini EXCEPT ![i] = k],
           k.state # "Idle", k.chan = ini[i].chan,
           k.tries <= Tries, k.nr <= nonces, ~ini[i].early => ~k.early,
           k.armed => k.state \in {"I1", "I2"},
           k.state = "I2" => ~k.early,
           UNCHANGED <<nonces, made>>
    PROVE  /\ ini' \in [Attempt -> Initiator]
           /\ Staged' /\ Monotone
           /\ \A j \in Attempt :
                  /\ ini'[j].state \in {"Idle", "I1", "I2", "Done"}
                  /\ ini'[j].chan \in 0 .. MaxChan[Home[j]]
                  /\ ini'[j].tries \in 0 .. Tries /\ ini'[j].nr \in 0 .. nonces
<1> USE DEF Inv
<1>1. ini' \in [Attempt -> Initiator] /\ ini'[i] = k
  BY DEF Typed
<1>2. \A j \in Attempt \ {i} : ini'[j] = ini[j]
  BY DEF Typed
<1>3. k.state \in {"Idle", "I1", "I2", "Done"} /\ k.tries \in Nat /\ k.nr \in Nat
  BY DEF Initiator
<1>4. Staged'
  BY <1>1, <1>2 DEF Staged
<1>5. Monotone
  BY <1>1, <1>2 DEF Monotone, Typed
<1>6. ASSUME NEW j \in Attempt
      PROVE  /\ ini'[j].state \in {"Idle", "I1", "I2", "Done"}
             /\ ini'[j].chan \in 0 .. MaxChan[Home[j]]
             /\ ini'[j].tries \in 0 .. Tries /\ ini'[j].nr \in 0 .. nonces
  <2>1. CASE j = i
    <3>1. k.tries \in 0 .. Tries /\ k.nr \in 0 .. nonces
      BY <1>3, KeyAssumption DEF Typed
    <3> QED
      BY <2>1, <3>1, <1>1, <1>3 DEF TypeOK
  <2>2. CASE j # i
    BY <2>2, <1>2 DEF TypeOK
  <2> QED
    BY <2>1, <2>2
<1> QED
  BY <1>1, <1>4, <1>5, <1>6

(* A flow that is bound to a channel, or taken from it. *)
LEMMA OneFlow ==
    ASSUME Typed, TypeOK, NEW h \in Host, NEW c, NEW f,
           flows' = [flows EXCEPT ![h][c] = f],
           f = NoFlow \/ f.att \in Attempt
    PROVE  /\ DOMAIN flows' = Host /\ \A g \in Host : DOMAIN flows'[g] = Chan(g)
           /\ \A g \in Host : \A d \in Chan(g) :
                  flows'[g][d] # NoFlow => flows'[g][d].att \in Attempt
           /\ \A g \in Host : \A d \in Chan(g) :
                  flows'[g][d] = flows[g][d]
                    \/ (g = h /\ d = c /\ flows'[g][d] = f)
  BY DEF Typed, TypeOK

(* Its members once it is done, on its way back or one try further. *)
LEMMA InitiatorType ==
    ASSUME Typed, NEW i \in Attempt, NEW b \in BOOLEAN
    PROVE  /\ [ini[i] EXCEPT !.state = "Done", !.armed = FALSE] \in Initiator
           /\ [ini[i] EXCEPT !.state = "Done", !.armed = FALSE, !.ok = b] \in Initiator
           /\ BackToI1(i) \in Initiator
           /\ Resent(i) \in Initiator
<1>1. ini[i] \in Initiator
  BY DEF Typed
<1>2. PubKey(Home[i]) \in Keys /\ <<>> \in Keys
  BY KeyAssumption DEF PubKey, Keys, Typed
<1>3. BackToI1(i) \in Initiator
  BY <1>1, <1>2 DEF BackToI1, Initiator
<1>4. \A r \in Initiator : [r EXCEPT !.tries = @ + 1] \in Initiator
  BY DEF Initiator
<1>5. Resent(i) \in Initiator
  BY <1>1, <1>3, <1>4 DEF Resent
<1>6. \A r \in Initiator :
          /\ [r EXCEPT !.state = "Done", !.armed = FALSE] \in Initiator
          /\ [r EXCEPT !.state = "Done", !.armed = FALSE, !.ok = b] \in Initiator
  BY DEF Initiator
<1> QED
  BY <1>1, <1>3, <1>5, <1>6

(* completed(false) by its timer, or by the peer that has a primary. *)
LEMMA AbandonInv ==
    ASSUME Inv, NEW i \in Attempt, ini[i].state # "Idle", Abandon(i),
           UNCHANGED <<dhkey, r2cache, made, nonces, msgs, faults>>
    PROVE  Inv'
<1> DEFINE k == [ini[i] EXCEPT !.state = "Done", !.armed = FALSE]
<1> USE DEF Inv
<1>1. k \in Initiator /\ ini' = [ini EXCEPT ![i] = k]
  BY InitiatorType DEF Abandon
<1>2. /\ k.state = "Done" /\ k.armed = FALSE /\ k.chan = ini[i].chan
      /\ k.tries = ini[i].tries /\ k.nr = ini[i].nr /\ k.early = ini[i].early
  BY DEF Typed, Initiator
<1>3. k.tries <= Tries /\ k.nr <= nonces
  BY <1>2, KeyAssumption DEF TypeOK, Typed
<1> HIDE DEF k
<1>4. /\ ini' \in [Attempt -> Initiator] /\ Staged' /\ Monotone
      /\ \A j \in Attempt :
             /\ ini'[j].state \in {"Idle", "I1", "I2", "Done"}
             /\ ini'[j].chan \in 0 .. MaxChan[Home[j]]
             /\ ini'[j].tries \in 0 .. Tries /\ ini'[j].nr \in 0 .. nonces
  BY <1>1, <1>2, <1>3, OneInitiator
<1>5. flows' = [flows EXCEPT ![Home[i]][ini[i].chan] = NoFlow] /\ Home[i] \in Host
  BY KeyAssumption DEF Abandon
<1>6. Typed'
  BY <1>4, <1>5, OneFlow, RemoveType DEF Abandon, Typed, Nonce, Chan
<1>7. TypeOK'
  BY <1>4, <1>5, OneFlow DEF TypeOK
<1>8. Agreed'
  BY <1>4, <1>5, OneFlow, AgreedKept DEF Up
<1>9. Quiet
  BY <1>1, <1>2 DEF Quiet, Says, Typed
<1> QED
  BY <1>4, <1>6, <1>7, <1>8, <1>9, QuietStep

(* An initiator that goes on, with what it sends or without it. *)
LEMMA GoOn ==
    ASSUME Inv, NEW i \in Attempt, ini[i].state # "Idle",
           NEW k \in Initiator, ini' = [ini EXCEPT ![i] = k],
           k.state # "Idle", k.chan = ini[i].chan,
           k.tries <= Tries, k.nr <= nonces, ~ini[i].early => ~k.early,
           k.armed => k.state \in {"I1", "I2"},
           k.state = "I2" => ~k.early,
           faults' \in Nat, faults' <= MaxFaults,
           UNCHANGED <<initeps, dhkey, r2cache, flows, made, nonces>>
    PROVE  Typed' /\ TypeOK' /\ Staged' /\ Agreed' /\ Monotone
<1> USE DEF Inv
<1>1. /\ ini' \in [Attempt -> Initiator] /\ Staged' /\ Monotone
      /\ \A j \in Attempt :
             /\ ini'[j].state \in {"Idle", "I1", "I2", "Done"}
             /\ ini'[j].chan \in 0 .. MaxChan[Home[j]]
             /\ ini'[j].tries \in 0 .. Tries /\ ini'[j].nr \in 0 .. nonces
  BY OneInitiator
<1>2. Typed'
  BY <1>1 DEF Typed, Nonce, Chan
<1>3. TypeOK'
  BY <1>1, KeyAssumption DEF TypeOK, Chan
<1>4. Agreed'
  BY <1>1, AgreedKept
<1> QED
  BY <1>1, <1>2, <1>3, <1>4

(* Going back to I1 keeps what the invariant speaks of. *)
LEMMA BackFields ==
    ASSUME Inv, NEW i \in Attempt
    PROVE  LET k == BackToI1(i)
           IN  /\ k.state = "I1" /\ k.early = ini[i].early /\ k.armed = ini[i].armed
               /\ k.chan = ini[i].chan /\ k.tries = ini[i].tries /\ k.nr = 0
  BY DEF Inv, Typed, Initiator, BackToI1

LEMMA ResentFields ==
    ASSUME Inv, NEW i \in Attempt
    PROVE  LET k == Resent(i)
           IN  /\ k.state = ini[i].state /\ k.early = ini[i].early
               /\ k.armed = ini[i].armed /\ k.chan = ini[i].chan
               /\ k.tries = ini[i].tries + 1
               /\ ini[i].state = "I1" => k.nr = 0
               /\ ini[i].state # "I1" => k.nr = ini[i].nr /\ k.dhr = ini[i].dhr
<1>1. BackToI1(i) \in Initiator /\ ini[i] \in Initiator
  BY InitiatorType DEF Inv, Typed
<1>2. CASE ini[i].state = "I1"
  <2>1. Resent(i) = [BackToI1(i) EXCEPT !.tries = @ + 1]
    BY <1>2 DEF Resent
  <2> QED
    BY <1>1, <1>2, <2>1, BackFields DEF Initiator
<1>3. CASE ini[i].state # "I1"
  <2>1. Resent(i) = [ini[i] EXCEPT !.tries = @ + 1]
    BY <1>3 DEF Resent
  <2> QED
    BY <1>1, <1>3, <2>1 DEF Initiator
<1> QED
  BY <1>2, <1>3

LEMMA RetransmitInv ==
    ASSUME Inv, NEW i \in Attempt, Retransmit(i)
    PROVE  Inv'
<1> USE DEF Inv
<1>1. ini[i].state \in {"I1", "I2"}
  BY DEF Retransmit, Staged
<1>2. CASE Expired(i) /\ Abandon(i) /\ UNCHANGED msgs
  BY <1>1, <1>2, AbandonInv DEF Retransmit
<1>3. CASE /\ ~Expired(i) /\ ini' = [ini EXCEPT ![i] = Resent(i)]
           /\ msgs' = msgs \cup {IF ini[i].state = "I1" THEN I1(i, ini[i].chan)
                                 ELSE I2(i, ini[i])}
           /\ UNCHANGED <<initeps, flows>>
  <2> DEFINE k == Resent(i)
  <2>1. k \in Initiator
    BY InitiatorType
  <2>2. /\ k.state = ini[i].state /\ k.early = ini[i].early
        /\ k.armed = ini[i].armed /\ k.chan = ini[i].chan
        /\ k.tries = ini[i].tries + 1 /\ (k.nr = 0 \/ k.nr = ini[i].nr)
        /\ ini[i].state = "I2" => k.nr = ini[i].nr /\ k.dhr = ini[i].dhr
    BY ResentFields
  <2>3. k.tries <= Tries /\ k.nr <= nonces
    BY <1>3, <2>2, KeyAssumption DEF Expired, TypeOK, Typed
  <2>0. ini' = [ini EXCEPT ![i] = k]
    BY <1>3
  <2> HIDE DEF k
  <2>4. Typed' /\ TypeOK' /\ Staged' /\ Agreed' /\ Monotone
    BY <1>1, <1>3, <2>0, <2>1, <2>2, <2>3, GoOn DEF Retransmit, Staged, Typed
  <2>5. ASSUME NEW m \in msgs'
        PROVE  \/ m \in msgs
               \/ Sent(m)' /\ m.kind \in {"ChkI1", "DhI1"}
               \/ /\ Sent(m)' /\ ini[i].state = "I2" /\ m.kind = "DhI2"
                  /\ m.att = i /\ m.nr = ini[i].nr /\ m.dhr = ini[i].dhr
    <3>1. ini'[i] = k
      BY <2>0 DEF Typed
    <3>2. CASE ini[i].state = "I1" /\ m = I1(i, ini[i].chan)
      BY <3>1, <3>2, <2>2, <2>4, I1Sent
    <3>3. CASE ini[i].state # "I1" /\ m = I2(i, ini[i])
      <4>1. ini[i].state = "I2" /\ ~ini[i].early
        BY <1>1, <3>3 DEF Staged
      <4>2. ini[i] \in Initiator
        BY DEF Typed
      <4> QED
        BY <3>1, <3>3, <4>1, <4>2, <2>2 DEF Sent, I2, Message, Initiator
    <3> QED
      BY <1>3, <3>2, <3>3
  <2>6. Quiet
    <3>1. ASSUME NEW j \in Attempt, ini'[j].state = "I2"
          PROVE  /\ ini[j].state = "I2"
                 /\ ini'[j].nr = ini[j].nr /\ ini'[j].dhr = ini[j].dhr
      BY <3>1, <2>0, <2>2 DEF Typed
    <3>2. ASSUME NEW m \in msgs', m.kind \in {"DhR1", "DhI2"}
          PROVE  Says(m.att, m.nr, m.dhr)
      BY <3>2, <2>5 DEF Says
    <3> QED
      BY <3>1, <3>2 DEF Quiet, Says
  <2> QED
    BY <1>3, <2>4, <2>5, <2>6, QuietStep DEF Retransmit
<1> QED
  BY <1>2, <1>3 DEF Retransmit

LEMMA CancelEarlyInv ==
    ASSUME Inv, NEW i \in Attempt, CancelEarly(i)
    PROVE  Inv'
  BY AbandonInv DEF CancelEarly

(* A step that changes nothing but the network. *)
LEMMA NothingInv ==
    ASSUME Inv, msgs' \subseteq msgs, faults' \in Nat, faults' <= MaxFaults,
           UNCHANGED <<ini, initeps, dhkey, r2cache, flows, made, nonces>>
    PROVE  Inv'
<1> USE DEF Inv
<1>1. Monotone
  BY DEF Monotone, Typed
<1>2. Typed' /\ TypeOK'
  BY KeyAssumption DEF Typed, TypeOK, Nonce, Chan
<1>3. Staged'
  BY DEF Staged
<1>4. Agreed'
  BY <1>1, AgreedKept
<1>5. Quiet
  BY DEF Quiet, Says
<1> QED
  BY <1>1, <1>2, <1>3, <1>4, <1>5, QuietStep

(* sendI1() in answer to a message. *)
LEMMA BackInv ==
    ASSUME Inv, NEW i \in Attempt, ini[i].state # "Idle", NEW m,
           ini' = [ini EXCEPT ![i] = BackToI1(i)],
           Deliver(m, {I1(i, ini[i].chan)}),
           UNCHANGED <<initeps, dhkey, r2cache, flows, made, nonces>>
    PROVE  Inv'
<1> DEFINE k == BackToI1(i)
<1> USE DEF Inv
<1>1. k \in Initiator /\ ini' = [ini EXCEPT ![i] = k]
  BY InitiatorType
<1>2. /\ k.state = "I1" /\ k.early = ini[i].early
      /\ k.chan = ini[i].chan /\ k.tries = ini[i].tries /\ k.nr = 0
  BY BackFields
<1>3. k.tries <= Tries /\ k.nr <= nonces
  BY <1>2, KeyAssumption DEF TypeOK, Typed
<1> HIDE DEF k
<1>4. /\ msgs' \subseteq msgs \cup {I1(i, ini[i].chan)}
      /\ faults' \in Nat /\ faults' <= MaxFaults
  BY DeliverType
<1>5. Typed' /\ TypeOK' /\ Staged' /\ Agreed' /\ Monotone
  BY <1>1, <1>2, <1>3, <1>4, GoOn
<1>6. ini'[i] = k
  BY <1>1 DEF Typed
<1>7. \A x \in msgs' : x \in msgs \/ (Sent(x)' /\ x.kind \in {"ChkI1", "DhI1"})
  BY <1>2, <1>4, <1>5, <1>6, I1Sent
<1>8. Quiet
  <2>1. \A j \in Attempt : j # i => ini'[j] = ini[j]
    BY <1>1 DEF Typed
  <2> QED
    BY <1>2, <1>6, <1>7, <2>1 DEF Quiet, Says
<1> QED
  BY <1>5, <1>7, <1>8, QuietStep

(* completed(true): the flow made for the answer is the initiator's match. *)
LEMMA CompleteInv ==
    ASSUME Inv, NEW i \in Attempt, ini[i].state # "Idle",
           NEW n, NEW keys, NEW other, NEW chan, Complete(i, n, keys, chan),
           Answered(i, n, other, chan),
           keys.tx = other.rx, keys.rx = other.tx,
           msgs' \subseteq msgs, faults' \in Nat, faults' <= MaxFaults,
           UNCHANGED <<dhkey, r2cache, made, nonces>>
    PROVE  Inv'
<1> DEFINE k == [ini[i] EXCEPT !.state = "Done", !.armed = FALSE, !.ok = TRUE]
           f == FlowOf(i, "I", TRUE, n, keys, chan)
<1> USE DEF Inv
<1>1. k \in Initiator /\ ini' = [ini EXCEPT ![i] = k]
  BY InitiatorType DEF Complete
<1>2. /\ k.state = "Done" /\ k.armed = FALSE /\ k.chan = ini[i].chan
      /\ k.tries = ini[i].tries /\ k.nr = ini[i].nr /\ k.early = ini[i].early
  BY DEF Typed, Initiator
<1>3. k.tries <= Tries /\ k.nr <= nonces
  BY <1>2, KeyAssumption DEF TypeOK, Typed
<1>4. /\ f.att = i /\ f.nonce = n /\ f.tx = keys.tx /\ f.rx = keys.rx
      /\ f.rchan = chan
  BY DEF FlowOf
<1>5. flows' = [flows EXCEPT ![Home[i]][ini[i].chan] = f] /\ Home[i] \in Host
  BY KeyAssumption DEF Complete
<1> HIDE DEF k, f
<1>6. /\ ini' \in [Attempt -> Initiator] /\ Staged' /\ Monotone
      /\ \A j \in Attempt :
             /\ ini'[j].state \in {"Idle", "I1", "I2", "Done"}
             /\ ini'[j].chan \in 0 .. MaxChan[Home[j]]
             /\ ini'[j].tries \in 0 .. Tries /\ ini'[j].nr \in 0 .. nonces
  BY <1>1, <1>2, <1>3, OneInitiator
<1>7. /\ DOMAIN flows' = Host /\ \A g \in Host : DOMAIN flows'[g] = Chan(g)
      /\ \A g \in Host : \A d \in Chan(g) :
             flows'[g][d] # NoFlow => flows'[g][d].att \in Attempt
      /\ \A g \in Host : \A d \in Chan(g) :
             flows'[g][d] = flows[g][d]
               \/ (g = Home[i] /\ d = ini[i].chan /\ flows'[g][d] = f)
  <2>1. f.att \in Attempt /\ Typed /\ TypeOK
    BY <1>4
  <2> QED
    BY <1>5, <2>1 DEF Typed, TypeOK
<1>8. Typed'
  BY <1>6, <1>7, RemoveType DEF Complete, Typed, Nonce, Chan
<1>9. TypeOK'
  BY <1>6, <1>7, KeyAssumption DEF TypeOK, Chan
<1>10. Paired(f, ini[i].chan)
  BY <1>4 DEF Paired, Answered
<1>11. Agreed'
  <2>1. ASSUME NEW g \in Host, NEW d \in Chan(g), flows'[g][d] # flows[g][d]
        PROVE  Paired(flows[g][d], d)'
    <3>1. d = ini[i].chan /\ flows'[g][d] = f
      BY <2>1, <1>7
    <3>2. Paired(flows'[g][d], d)
      BY <3>1, <1>10
    <3> QED
      BY <3>2 DEF Paired, Nonce
  <2> QED
    BY <2>1, <1>6, AgreedKept
<1>12. Quiet
  BY <1>1, <1>2 DEF Quiet, Says, Typed
<1> QED
  BY <1>6, <1>8, <1>9, <1>11, <1>12, QuietStep

LEMMA GotChkR1Inv ==
    ASSUME Inv, NEW m \in msgs, GotChkR1(m)
    PROVE  Inv'
<1> USE DEF Inv
<1>1. /\ m.kind = "ChkR1" /\ m.att \in Attempt /\ ini[m.att].state # "Idle"
      /\ Method[m.att] = "CHK"
      /\ Answered(m.att, m.nr, ResponderKeys(m.att, m), m.chan)
  BY DEF GotChkR1, Truthful, Sent
<1>2. msgs' \subseteq msgs /\ faults' \in Nat /\ faults' <= MaxFaults
  BY DeliverType DEF GotChkR1
<1>3. CASE Known(m.att)
  <2>1. Complete(m.att, m.nr, InitiatorKeys(m.att, m), m.chan)
    BY <1>3 DEF GotChkR1
  <2>2. /\ InitiatorKeys(m.att, m).tx = ResponderKeys(m.att, m).rx
        /\ InitiatorKeys(m.att, m).rx = ResponderKeys(m.att, m).tx
    BY KeysMatch
  <2> QED
    BY <1>1, <1>2, <2>1, <2>2, CompleteInv DEF GotChkR1
<1>4. CASE UNCHANGED <<ini, initeps, flows>>
  BY <1>2, <1>4, NothingInv DEF GotChkR1
<1> QED
  BY <1>3, <1>4 DEF GotChkR1

LEMMA GotDhR1Inv ==
    ASSUME Inv, NEW m \in msgs, GotDhR1(m)
    PROVE  Inv'
<1> DEFINE i == m.att
<1> USE DEF Inv
<1>1. /\ m.kind = "DhR1" /\ i \in Attempt /\ ini[i].state # "Idle"
      /\ m.nr \in Nat /\ m.dhr \in Keys /\ Says(i, m.nr, m.dhr)
  BY DEF GotDhR1, Truthful, Sent, Says
<1>2. m.nr <= nonces
  BY <1>1 DEF Drawn
<1>3. CASE ~Known(i) /\ Deliver(m, {}) /\ UNCHANGED ini
  BY <1>3, DeliverType, NothingInv DEF GotDhR1
<1>4. CASE ini' = [ini EXCEPT ![i] = BackToI1(i)] /\ Deliver(m, {I1(i, ini[i].chan)})
  BY <1>1, <1>4, BackInv DEF GotDhR1
<1>5. CASE ini' = [ini EXCEPT ![i] = SendDhI2(i, m)] /\ Deliver(m, {I2(i, SendDhI2(i, m))})
  <2> DEFINE k == SendDhI2(i, m)
  <2>1. ini[i] \in Initiator
    BY <1>1 DEF Typed
  <2>2. /\ k \in Initiator
        /\ k.state = "I2" /\ k.early = FALSE /\ k.tries = 0 /\ k.nr = m.nr
        /\ k.dhr = m.dhr /\ k.chan = ini[i].chan /\ k.dhi = ini[i].dhi
    BY <1>1, <2>1 DEF SendDhI2, Initiator
  <2>3. ini' = [ini EXCEPT ![i] = k] /\ Deliver(m, {I2(i, k)})
    BY <1>5
  <2> HIDE DEF k
  <2>4. /\ msgs' \subseteq msgs \cup {I2(i, k)}
        /\ faults' \in Nat /\ faults' <= MaxFaults
    BY <2>3, DeliverType
  <2>5. Typed' /\ TypeOK' /\ Staged' /\ Agreed' /\ Monotone
    <3>1. k.tries <= Tries /\ k.nr <= nonces
      BY <1>2, <2>2, KeyAssumption
    <3>2. k.state = "I2" /\ k.state # "Idle" /\ k.state \in {"I1", "I2"}
      BY <2>2
    <3>3. UNCHANGED <<initeps, dhkey, r2cache, flows, made, nonces>>
      BY DEF GotDhR1
    <3> QED
      BY <1>1, <2>2, <2>3, <2>4, <3>1, <3>2, <3>3, GoOn
  <2>6. ini'[i] = k
    BY <1>1, <2>3 DEF Typed
  <2>7. ASSUME NEW x \in msgs', x = I2(i, k)
        PROVE  /\ Sent(x)' /\ x.att = i /\ x.nr = m.nr /\ x.dhr = m.dhr
    BY <1>1, <2>1, <2>2, <2>6, <2>7 DEF Sent, I2, Message, Initiator
  <2>8. Quiet
    <3>1. \A j \in Attempt : j # i => ini'[j] = ini[j]
      BY <2>3 DEF Typed
    <3>2. \A x \in msgs' : x.kind \in {"DhR1", "DhI2"} => Says(x.att, x.nr, x.dhr)
      BY <1>1, <2>4, <2>7 DEF Says
    <3> QED
      BY <1>1, <2>2, <2>6, <3>1, <3>2 DEF Quiet, Says
  <2> QED
    BY <2>4, <2>5, <2>7, <2>8, QuietStep DEF GotDhR1
<1> QED
  BY <1>3, <1>4, <1>5 DEF GotDhR1

LEMMA GotDhR2Inv ==
    ASSUME Inv, NEW m \in msgs, GotDhR2(m)
    PROVE  Inv'
<1> DEFINE i == m.att
<1> USE DEF Inv
<1>1. /\ m.kind = "DhR2" /\ i \in Attempt /\ ini[i].state # "Idle"
      /\ Answered(i, m.nr, ResponderKeys(i, m), m.chan)
  BY DEF GotDhR2, Truthful, Sent
<1>2. CASE Deliver(m, {}) /\ UNCHANGED <<ini, initeps, flows>>
  BY <1>2, DeliverType, NothingInv DEF GotDhR2
<1>3. CASE /\ ini' = [ini EXCEPT ![i] = BackToI1(i)]
           /\ Deliver(m, {I1(i, ini[i].chan)})
           /\ UNCHANGED <<initeps, flows>>
  BY <1>1, <1>3, BackInv DEF GotDhR2
<1>4. CASE /\ R2Authentic(i, m) /\ Deliver(m, {})
           /\ Complete(i, ini[i].nr, InitiatorKeys(i, ini[i]), m.chan)
  <2>1. /\ InitiatorKeys(i, ini[i]).tx = ResponderKeys(i, m).rx
        /\ InitiatorKeys(i, ini[i]).rx = ResponderKeys(i, m).tx
    BY <1>4, KeysMatch DEF R2Authentic
  <2>2. Answered(i, ini[i].nr, ResponderKeys(i, m), m.chan)
    BY <1>1, <1>4 DEF R2Authentic
  <2>3. msgs' \subseteq msgs /\ faults' \in Nat /\ faults' <= MaxFaults
    BY <1>4, DeliverType
  <2> QED
    BY <1>1, <1>4, <2>1, <2>2, <2>3, CompleteInv DEF GotDhR2
<1> QED
  BY <1>2, <1>3, <1>4 DEF GotDhR2

LEMMA GotR0Inv ==
    ASSUME Inv, NEW h \in Host, GotR0(h)
    PROVE  Inv'
<1> DEFINE P == Prompted(h)
<1> USE DEF Inv
<1>1. \A i \in P : i \in Attempt /\ ini[i].state = "I1"
  <2>1. initeps[h] \in Seq(Attempt)
    BY DEF Typed
  <2>2. ASSUME NEW y \in 1 .. Len(initeps[h]),
               \A z \in 1 .. y : ini[initeps[h][z]].state = "I1"
        PROVE  initeps[h][y] \in Attempt /\ ini[initeps[h][y]].state = "I1"
    BY <2>1, <2>2
  <2> QED
    BY <2>2 DEF Prompted
<1>2. \A i \in Attempt : ini'[i] = IF i \in P THEN BackToI1(i) ELSE ini[i]
  BY DEF GotR0
<1> HIDE DEF P
<1>3. \A i \in Attempt :
          /\ ini'[i] \in Initiator /\ ini'[i].state = ini[i].state
          /\ ini'[i].early = ini[i].early /\ ini'[i].armed = ini[i].armed
          /\ ini'[i].chan = ini[i].chan /\ ini'[i].tries = ini[i].tries
          /\ ini'[i].nr = 0 \/ ini'[i].nr = ini[i].nr
          /\ ini[i].state = "I2" => ini'[i] = ini[i]
  BY <1>1, <1>2, BackFields, InitiatorType DEF Typed
<1>4. ini' \in [Attempt -> Initiator]
  BY <1>3 DEF GotR0
<1>5. /\ msgs' \subseteq msgs \cup {I1(i, ini[i].chan) : i \in P}
      /\ faults' \in Nat /\ faults' <= MaxFaults
  BY DeliverType DEF GotR0, P
<1>6. Typed'
  BY <1>4, <1>5 DEF GotR0, Typed, Nonce, Chan
<1>7. TypeOK'
  <2>1. \A i \in Attempt : 0 \in 0 .. nonces
    BY DEF Typed
  <2> QED
    BY <1>3, <1>5, <2>1, KeyAssumption DEF GotR0, TypeOK, Chan
<1>8. Staged'
  BY <1>3 DEF Staged
<1>9. Monotone
  BY <1>3 DEF GotR0, Monotone, Typed
<1>10. Agreed'
  BY <1>9, AgreedKept DEF GotR0
<1>11. ASSUME NEW x \in msgs'
       PROVE  x \in msgs \/ (Sent(x)' /\ x.kind \in {"ChkI1", "DhI1"})
  <2>1. CASE x \in msgs
    BY <2>1
  <2>2. CASE \E i \in P : x = I1(i, ini[i].chan)
    <3>1. PICK i \in P : x = I1(i, ini[i].chan)
      BY <2>2
    <3>2. i \in Attempt /\ ini'[i].state # "Idle" /\ ini[i].chan = ini'[i].chan
      BY <1>1, <1>3
    <3> QED
      BY <1>6, <3>1, <3>2, I1Sent
  <2> QED
    BY <1>5, <2>1, <2>2
<1>12. Quiet
  BY <1>3, <1>11 DEF Quiet, Says
<1> QED
  BY <1>6, <1>7, <1>8, <1>9, <1>10, <1>11, <1>12, QuietStep DEF GotR0

-----------------------------------------------------------------------------
(* The responder. *)
LEMMA SendR0Inv ==
    ASSUME Inv, NEW h \in Host, SendR0(h)
    PROVE  Inv'
<1> USE DEF Inv
<1>1. Monotone
  BY DEF SendR0, Monotone, Typed
<1>2. Typed' /\ TypeOK' /\ Staged'
  BY KeyAssumption DEF SendR0, Fault, Typed, TypeOK, Staged, Nonce, Chan
<1>3. Agreed'
  BY <1>1, AgreedKept DEF SendR0
<1>4. \A x \in msgs' : x \in msgs \/ (Sent(x)' /\ x.kind = "R0")
  BY DEF SendR0, R0, Sent
<1>5. Quiet
  BY <1>4 DEF SendR0, Quiet, Says
<1> QED
  BY <1>1, <1>2, <1>3, <1>4, <1>5, QuietStep DEF SendR0

LEMMA FlowDownInv ==
    ASSUME Inv, NEW h \in Host, NEW c \in Chan(h), FlowDown(h, c)
    PROVE  Inv'
<1> USE DEF Inv
<1>1. Monotone
  BY DEF FlowDown, Monotone, Typed
<1>2. flows' = [flows EXCEPT ![h][c] = NoFlow]
  BY DEF FlowDown
<1>3. Typed'
  BY <1>2, KeyAssumption DEF FlowDown, Fault, Typed, Nonce, Chan
<1>4. TypeOK' /\ Staged'
  <2>1. faults' \in 0 .. MaxFaults
    BY KeyAssumption DEF FlowDown, Fault, Typed
  <2> QED
    BY <1>2, <2>1 DEF FlowDown, Typed, TypeOK, Staged, Chan
<1>5. Agreed'
  BY <1>1, <1>2, AgreedKept DEF Typed, Up
<1>6. Quiet
  BY DEF FlowDown, Quiet, Says
<1> QED
  BY <1>1, <1>3, <1>4, <1>5, <1>6, QuietStep DEF FlowDown

(* An expired host key makes every nonce it was sent with useless. *)
LEMMA KeyTimeoutInv ==
    ASSUME Inv, NEW h \in Host, KeyTimeout(h)
    PROVE  Inv'
<1> USE DEF Inv
<1>1. Monotone
  BY DEF KeyTimeout, Monotone, Typed
<1>2. /\ dhkey' \in [Host -> Nat] /\ dhkey'[h] = dhkey[h] + 1
      /\ \A g \in Host : g # h => dhkey'[g] = dhkey[g]
  BY DEF KeyTimeout, Typed
<1>3. Typed'
  BY <1>2, KeyAssumption DEF KeyTimeout, Fault, Typed, Nonce, Chan
<1>4. TypeOK' /\ Staged'
  <2>1. faults' \in 0 .. MaxFaults
    BY KeyAssumption DEF KeyTimeout, Fault, Typed
  <2> QED
    BY <2>1 DEF KeyTimeout, TypeOK, Staged, Chan
<1>5. Agreed'
  BY <1>1, AgreedKept DEF KeyTimeout
<1>6. Truthful'
  <2>1. \A m : Sent(m) => Sent(m)'
    BY <1>1, Persist
  <2> QED
    BY <2>1 DEF KeyTimeout, Truthful
<1>7. \A i, n, d : Says(i, n, d)' => Says(i, n, d)
  <2>1. UNCHANGED <<ini, msgs>>
    BY DEF KeyTimeout
  <2> QED
    BY <2>1 DEF Says
<1>8. Drawn'
  <2>1. ASSUME NEW g \in Host
        PROVE  dhkey[g] \in Nat /\ dhkey[g] <= dhkey'[g]
    <3>1. dhkey[g] \in Nat
      BY DEF Typed
    <3> QED
      BY <3>1, <1>2
  <2>2. ASSUME NEW i, NEW n, NEW d, Says(i, n, d)'
        PROVE  /\ i \in Attempt /\ n \in Nonce /\ n <= nonces'
               /\ \E g \in Nat : d = <<At[i], g>> /\ g <= dhkey'[At[i]]
    <3>1. i \in Attempt /\ n \in Nonce /\ n <= nonces
      BY <1>7, <2>2 DEF Drawn
    <3>2. PICK g \in Nat : d = <<At[i], g>> /\ g <= dhkey[At[i]]
      BY <1>7, <2>2 DEF Drawn
    <3>3. At[i] \in Host
      BY <3>1, KeyAssumption
    <3>4. g <= dhkey'[At[i]]
      BY <1>2, <2>1, <3>2, <3>3
    <3> QED
      BY <3>1, <3>2, <3>4 DEF KeyTimeout
  <2> QED
    BY <2>2 DEF Drawn
<1>9. Binding'
  BY <1>7 DEF Binding
<1>10. Spent'
  <2>1. ASSUME NEW i, NEW n, NEW d, Says(i, n, d)', made'[n] # <<>>
        PROVE  Refused(i, n, d)'
    <3>1. Says(i, n, d) /\ made[n] # <<>> /\ i \in Attempt
      BY <1>7, <2>1 DEF KeyTimeout, Drawn
    <3>2. PICK g \in Nat : d = <<At[i], g>> /\ g <= dhkey[At[i]]
      BY <3>1 DEF Drawn
    <3>3. At[i] \in Host
      BY <3>1, KeyAssumption
    <3>4. CASE At[i] = h
      <4>1. g # dhkey'[h]
        BY <1>2, <3>2, <3>4 DEF Typed
      <4> QED
        BY <3>2, <3>4, <4>1 DEF PubKey, Refused
    <3>5. CASE At[i] # h
      <4>1. PubKey(At[i])' = PubKey(At[i])
        BY <1>2, <3>3, <3>5 DEF PubKey
      <4>2. Refused(i, n, d)
        BY <3>1 DEF Spent
      <4> QED
        BY <3>5, <4>1, <4>2 DEF KeyTimeout, Refused
    <3> QED
      BY <3>4, <3>5
  <2> QED
    BY <2>1 DEF Spent
<1>11. Flows'
  BY DEF KeyTimeout, Flows
<1> QED
  BY <1>3, <1>4, <1>5, <1>6, <1>8, <1>9, <1>10, <1>11

(* A fresh R1: nobody has spoken of its nonce before. *)
LEMMA FreshR1Inv ==
    ASSUME Inv, NEW m \in msgs, m.kind \in {"DhI1", "DhI2"},
           nonces < MaxNonces, nonces' = nonces + 1, Deliver(m, {R1(m)}),
           UNCHANGED <<ini, initeps, dhkey, r2cache, flows, made>>
    PROVE  Inv'
<1> DEFINE i == m.att
           d0 == PubKey(At[i])
<1> USE DEF Inv
<1>1. i \in Attempt /\ ini[i].state # "Idle" /\ m.dhi \in Keys /\ At[i] \in Host
  BY KeyAssumption DEF Truthful, Sent
<1>2. /\ msgs' \subseteq msgs \cup {R1(m)}
      /\ faults' \in Nat /\ faults' <= MaxFaults
  BY DeliverType
<1>3. Monotone
  BY DEF Monotone, Typed
<1>4. Typed' /\ Staged'
  BY <1>2, KeyAssumption DEF Typed, Staged, Nonce, Chan
<1>5. TypeOK'
  <2>1. nonces' \in 0 .. MaxNonces /\ faults' \in 0 .. MaxFaults
    BY <1>2, KeyAssumption DEF Typed
  <2>2. \A j \in Attempt : ini[j].nr \in 0 .. nonces => ini[j].nr \in 0 .. nonces'
    BY DEF Typed
  <2> QED
    BY <2>1, <2>2 DEF TypeOK, Chan
<1>6. Agreed'
  BY <1>3, AgreedKept
<1>7. d0 \in Keys /\ d0 = <<At[i], dhkey[At[i]]>> /\ dhkey[At[i]] \in Nat
  BY <1>1 DEF PubKey, Keys, Typed
<1>8. ASSUME NEW x \in msgs', x = R1(m)
      PROVE  /\ Sent(x)' /\ x.att = i /\ x.nr = nonces + 1 /\ x.dhr = d0
  BY <1>1, <1>7, <1>8 DEF Sent, R1, Message, Typed
<1>9. Truthful'
  <2>1. \A x : Sent(x) => Sent(x)'
    BY <1>3, Persist
  <2> QED
    BY <2>1, <1>2, <1>8 DEF Truthful
<1>10. ASSUME NEW j, NEW n, NEW d, Says(j, n, d)'
       PROVE  Says(j, n, d) \/ (j = i /\ n = nonces + 1 /\ d = d0)
  BY <1>2, <1>8, <1>10 DEF Says
<1> HIDE DEF d0
<1>11. nonces + 1 \in Nonce
  BY KeyAssumption DEF Nonce, Typed
<1>12. Drawn'
  <2>1. ASSUME NEW j, NEW n, NEW d, Says(j, n, d)'
        PROVE  /\ j \in Attempt /\ n \in Nonce /\ n <= nonces + 1
               /\ \E g \in Nat : d = <<At[j], g>> /\ g <= dhkey[At[j]]
    <3>1. CASE Says(j, n, d)
      BY <3>1 DEF Drawn, Typed, Nonce
    <3>2. CASE j = i /\ n = nonces + 1 /\ d = d0
      BY <3>2, <1>1, <1>7, <1>11 DEF Nonce, Typed
    <3> QED
      BY <1>10, <2>1, <3>1, <3>2
  <2> QED
    BY <2>1 DEF Drawn
<1>13. \A j, d : ~Says(j, nonces + 1, d)
  BY DEF Drawn, Typed
<1>14. Binding'
  BY <1>10, <1>13 DEF Binding
<1>15. made[nonces + 1] = <<>>
  BY <1>11 DEF Flows, Typed
<1>16. Spent'
  BY <1>10, <1>15 DEF Spent, Refused, PubKey
<1>17. Flows'
  <2>1. \A n \in Nonce : n <= nonces => n <= nonces'
    BY DEF Nonce, Typed
  <2> QED
    BY <2>1 DEF Flows
<1> QED
  BY <1>4, <1>5, <1>6, <1>9, <1>12, <1>14, <1>16, <1>17

(* A flow made for a nonce that has none. *)
LEMMA NewFlowFacts ==
    ASSUME Inv, NEW m, NEW h \in Host, NEW n \in Nonce, NEW keys, NEW c,
           m.att \in Attempt, m.chan = ini[m.att].chan,
           made[n] = <<>>, NewFlow(m, h, n, keys), c = FreeChan(h),
           ini' = ini, nonces <= nonces'
    PROVE  /\ Monotone /\ Agreed'
           /\ DOMAIN flows' = Host /\ \A g \in Host : DOMAIN flows'[g] = Chan(g)
           /\ \A g \in Host : \A d \in Chan(g) :
                  flows'[g][d] # NoFlow => flows'[g][d].att \in Attempt
           /\ DOMAIN made' = Nonce
           /\ Answered(m.att, n, keys, c)'
           /\ \A x \in Nonce : x # n => made'[x] = made[x]
           /\ \E e : made'[n] = <<e>> /\ e.flow.att = m.att
<1> DEFINE f == FlowOf(m.att, "R", TRUE, n, keys, m.chan)
           e == [flow |-> f, chan |-> c]
<1> USE DEF Inv
<1>1. /\ flows' = [flows EXCEPT ![h][c] = f]
      /\ made' = [made EXCEPT ![n] = Append(@, e)]
  BY DEF NewFlow
<1>2. /\ f.att = m.att /\ f.role = "R" /\ f.tx = keys.tx /\ f.rx = keys.rx
      /\ f.rchan = m.chan
  BY DEF FlowOf
<1>3. e.flow = f /\ e.chan = c
  OBVIOUS
<1> HIDE DEF f, e
<1>4. Append(<<>>, e) = <<e>>
  OBVIOUS
<1>5. /\ DOMAIN made' = Nonce /\ made'[n] = <<e>>
      /\ \A x \in Nonce : x # n => made'[x] = made[x]
  BY <1>1, <1>4 DEF Typed
<1>6. Monotone
  BY <1>5 DEF Monotone, Typed
<1>7. /\ DOMAIN flows' = Host /\ \A g \in Host : DOMAIN flows'[g] = Chan(g)
      /\ \A g \in Host : \A d \in Chan(g) :
             flows'[g][d] = flows[g][d] \/ flows'[g][d] = f
  BY <1>1 DEF Typed
<1>8. \A g \in Host : \A d \in Chan(g) :
          flows'[g][d] # NoFlow => flows'[g][d].att \in Attempt
  BY <1>2, <1>7 DEF TypeOK
<1>9. Agreed'
  <2>1. \A g \in Host : \A d \in Chan(g) :
            flows'[g][d] = flows[g][d] \/ ~Up(flows[g][d])'
    BY <1>2, <1>7 DEF Up
  <2> QED
    BY <1>6, <2>1, AgreedKept
<1>10. Answered(m.att, n, keys, c)'
  <2>1. Len(made'[n]) = 1 /\ made'[n][1] = e
    BY <1>5
  <2> QED
    BY <1>2, <1>3, <2>1 DEF Answered, Nonce
<1> QED
  BY <1>2, <1>3, <1>5, <1>6, <1>7, <1>8, <1>9, <1>10

LEMMA GotChkI1Inv ==
    ASSUME Inv, NEW m \in msgs, GotChkI1(m)
    PROVE  Inv'
<1> DEFINE h == At[m.att]
<1> USE DEF Inv
<1>1. /\ m.kind = "ChkI1" /\ m.att \in Attempt /\ ini[m.att].state # "Idle"
      /\ Method[m.att] = "CHK" /\ m.chan = ini[m.att].chan /\ h \in Host
  BY KeyAssumption DEF GotChkI1, Truthful, Sent
<1>2. CASE Deliver(m, {}) /\ UNCHANGED <<flows, made, nonces>>
  BY <1>2, DeliverType, NothingInv DEF GotChkI1
<1>3. ASSUME NEW n, n = nonces + 1, n <= MaxNonces, nonces' = n,
             NewFlow(m, h, n, ResponderKeys(m.att, [nr |-> n])),
             Deliver(m, {Message(m.att, "ChkR1", n, <<>>, <<>>, FreeChan(h))})
      PROVE  Inv'
  <2> DEFINE keys == ResponderKeys(m.att, [nr |-> n])
  <2>1. n \in Nonce /\ n \in Nat /\ nonces <= n
    BY <1>3, KeyAssumption DEF Nonce, Typed
  <2>2. made[n] = <<>>
    BY <1>3, <2>1 DEF Flows, Typed
  <2>3. PICK c \in Nat : c = FreeChan(h)
    BY <1>1, FreeChanType
  <2>4. UNCHANGED <<ini, initeps, dhkey, r2cache>>
    BY DEF GotChkI1
  <2>5. /\ Monotone /\ Agreed'
        /\ DOMAIN flows' = Host /\ \A g \in Host : DOMAIN flows'[g] = Chan(g)
        /\ \A g \in Host : \A d \in Chan(g) :
               flows'[g][d] # NoFlow => flows'[g][d].att \in Attempt
        /\ DOMAIN made' = Nonce
        /\ Answered(m.att, n, keys, c)'
        /\ \A x \in Nonce : x # n => made'[x] = made[x]
        /\ \E e : made'[n] = <<e>> /\ e.flow.att = m.att
    <3>1. ini' = ini /\ nonces <= nonces' /\ NewFlow(m, h, n, keys)
      BY <1>3, <2>1, <2>4
    <3> HIDE DEF keys
    <3> QED
      BY <1>1, <2>1, <2>2, <2>3, <3>1, NewFlowFacts
  <2>6. /\ msgs' \subseteq msgs \cup {Message(m.att, "ChkR1", n, <<>>, <<>>, c)}
        /\ faults' \in Nat /\ faults' <= MaxFaults
    BY <1>3, <2>3, DeliverType
  <2>7. Typed' /\ Staged'
    BY <1>3, <2>1, <2>4, <2>5, <2>6 DEF Typed, Staged, Nonce, Chan
  <2>8. TypeOK'
    <3>1. nonces' \in 0 .. MaxNonces /\ faults' \in 0 .. MaxFaults
      BY <1>3, <2>1, <2>6, KeyAssumption
    <3>2. \A j \in Attempt : ini[j].nr \in 0 .. nonces => ini[j].nr \in 0 .. nonces'
      BY <1>3, <2>1 DEF Typed
    <3> QED
      BY <2>4, <2>5, <3>1, <3>2 DEF TypeOK, Chan
  <2>9. ASSUME NEW x \in msgs', x = Message(m.att, "ChkR1", n, <<>>, <<>>, c)
        PROVE  Sent(x)' /\ x.kind = "ChkR1"
    <3>1. ResponderKeys(m.att, x) = keys
      BY <1>1, <2>9 DEF ResponderKeys, Message
    <3>2. Answered(x.att, x.nr, ResponderKeys(x.att, x), x.chan)'
      BY <2>5, <2>9, <3>1 DEF Message
    <3>3. <<>> \in Keys
      BY DEF Keys
    <3>4. /\ x.att = m.att /\ x.kind = "ChkR1" /\ x.nr = n
          /\ x.dhi = <<>> /\ x.dhr = <<>> /\ x.chan = c
      BY <2>9 DEF Message
    <3> QED
      BY <1>1, <2>1, <2>4, <3>2, <3>3, <3>4 DEF Sent
  <2>10. Truthful'
    <3>1. \A x : Sent(x) => Sent(x)'
      BY <2>5, Persist
    <3> QED
      BY <2>4, <2>6, <2>9, <3>1 DEF Truthful
  <2>11. Quiet
    BY <2>4, <2>6, <2>9 DEF Quiet, Says
  <2>12. Drawn'
    <3>1. \A x : x <= nonces /\ x \in Nonce => x <= nonces'
      BY <1>3, <2>1 DEF Nonce, Typed
    <3> QED
      BY <2>4, <2>11, <3>1 DEF Drawn, Quiet
  <2>13. Binding'
    BY <2>11 DEF Binding, Quiet
  <2>14. Spent'
    <3>1. \A i, d : ~Says(i, n, d)
      BY <1>3 DEF Drawn, Typed
    <3>2. \A i, x, d : Says(i, x, d) => x \in Nonce
      BY DEF Drawn
    <3> QED
      BY <2>4, <2>5, <2>11, <3>1, <3>2 DEF Spent, Quiet, Refused, PubKey
  <2>15. Flows'
    <3>1. ~ini[m.att].early
      BY <1>1 DEF Staged
    <3>2. \A x \in Nonce : x <= nonces => x <= nonces'
      BY <1>3, <2>1 DEF Nonce, Typed
    <3> QED
      BY <1>1, <1>3, <2>1, <2>4, <2>5, <3>1, <3>2 DEF Flows
  <2> QED
    BY <2>5, <2>7, <2>8, <2>10, <2>12, <2>13, <2>14, <2>15
<1> QED
  BY <1>2, <1>3 DEF GotChkI1

LEMMA GotDhI2AgainInv ==
    ASSUME Inv, NEW m \in msgs, GotDhI2Again(m)
    PROVE  Inv'
<1> USE DEF Inv
<1>1. /\ msgs' \subseteq msgs \cup Cached(m)
      /\ faults' \in Nat /\ faults' <= MaxFaults
  BY DeliverType DEF GotDhI2Again
<1>2. \A x \in Cached(m) : x \in r2cache /\ x.kind = "DhR2"
  BY DEF Cached, Truthful
<1>3. Monotone
  BY DEF GotDhI2Again, Monotone, Typed
<1>4. Typed' /\ TypeOK' /\ Staged'
  BY <1>1, KeyAssumption DEF GotDhI2Again, Typed, TypeOK, Staged, Nonce, Chan
<1>5. Agreed'
  BY <1>3, AgreedKept DEF GotDhI2Again
<1>6. Quiet
  BY <1>1, <1>2 DEF GotDhI2Again, Quiet, Says
<1> QED
  BY <1>1, <1>2, <1>3, <1>4, <1>5, <1>6, QuietStep DEF GotDhI2Again

(* The first I2 with a current key: nobody has made a flow for its nonce, *)
(* or the R2 would be cached.                                             *)
LEMMA GotDhI2Inv ==
    ASSUME Inv, NEW m \in msgs, GotDhI2(m)
    PROVE  Inv'
<1> DEFINE h == At[m.att]
<1> USE DEF Inv
<1>1. /\ m.kind = "DhI2" /\ m.att \in Attempt /\ ini[m.att].state # "Idle"
      /\ ~ini[m.att].early /\ m.chan = ini[m.att].chan /\ h \in Host
      /\ m.nr \in Nat /\ m.dhi \in Keys /\ m.dhr \in Keys
  BY KeyAssumption DEF GotDhI2, Truthful, Sent
<1>2. Says(m.att, m.nr, m.dhr)
  BY <1>1 DEF Says
<1>3. m.nr \in Nonce /\ m.nr <= nonces
  BY <1>2 DEF Drawn
<1>4. UNCHANGED <<ini, initeps, dhkey, nonces>>
  BY DEF GotDhI2
<1>5. CASE Deliver(m, {}) /\ UNCHANGED <<flows, made, r2cache>>
  BY <1>4, <1>5, DeliverType, NothingInv
<1>6. ASSUME NEW c \in Nat, c = FreeChan(h), NEW r2,
             r2 = Message(m.att, "DhR2", m.nr, m.dhi, m.dhr, c),
             NewFlow(m, h, m.nr, ResponderKeys(m.att, m)),
             r2cache' = r2cache \cup {r2}, Deliver(m, {r2})
      PROVE  Inv'
  <2> DEFINE keys == ResponderKeys(m.att, m)
             n == m.nr
  <2>1. made[n] = <<>>
    <3>1. m.dhr = PubKey(At[m.att]) /\ Cached(m) = {}
      BY DEF GotDhI2, Outdated
    <3>2. ~Refused(m.att, m.nr, m.dhr)
      BY <3>1 DEF Refused, Cached
    <3> QED
      BY <1>2, <3>2 DEF Spent
  <2>2. /\ Monotone /\ Agreed'
        /\ DOMAIN flows' = Host /\ \A g \in Host : DOMAIN flows'[g] = Chan(g)
        /\ \A g \in Host : \A d \in Chan(g) :
               flows'[g][d] # NoFlow => flows'[g][d].att \in Attempt
        /\ DOMAIN made' = Nonce
        /\ Answered(m.att, n, keys, c)'
        /\ \A x \in Nonce : x # n => made'[x] = made[x]
        /\ \E e : made'[n] = <<e>> /\ e.flow.att = m.att
    <3>1. ini' = ini /\ nonces <= nonces' /\ NewFlow(m, h, n, keys)
      BY <1>4, <1>6 DEF Typed
    <3> HIDE DEF keys
    <3> QED
      BY <1>1, <1>3, <1>6, <2>1, <3>1, NewFlowFacts
  <2>3. /\ msgs' \subseteq msgs \cup {r2}
        /\ faults' \in Nat /\ faults' <= MaxFaults
    BY <1>6, DeliverType
  <2>4. Typed' /\ Staged'
    BY <1>4, <2>2, <2>3 DEF Typed, Staged, Nonce, Chan
  <2>5. TypeOK'
    BY <1>4, <2>2, <2>3, KeyAssumption DEF TypeOK, Chan
  <2>6. /\ r2.att = m.att /\ r2.kind = "DhR2" /\ r2.nr = n
        /\ r2.dhi = m.dhi /\ r2.dhr = m.dhr /\ r2.chan = c
    BY <1>6 DEF Message
  <2>7. Sent(r2)'
    <3>1. ResponderKeys(m.att, r2) = keys
      BY <2>6 DEF ResponderKeys, AesKey
    <3>2. Answered(r2.att, r2.nr, ResponderKeys(r2.att, r2), r2.chan)'
      BY <2>2, <2>6, <3>1
    <3> QED
      BY <1>1, <1>4, <1>6, <2>6, <3>2 DEF Sent
  <2>8. Truthful'
    <3>1. \A x : Sent(x) => Sent(x)'
      BY <2>2, Persist
    <3> QED
      BY <1>6, <2>3, <2>6, <2>7, <3>1 DEF Truthful
  <2>9. Quiet
    BY <1>4, <2>3, <2>6 DEF Quiet, Says
  <2>10. Drawn' /\ Binding'
    BY <1>4, <2>9 DEF Drawn, Binding, Quiet
  <2>11. Spent'
    <3>1. ASSUME NEW i, NEW x, NEW d, Says(i, x, d)', made'[x] # <<>>
          PROVE  Refused(i, x, d)'
      <4>1. Says(i, x, d) /\ x \in Nonce
        BY <2>9, <3>1 DEF Quiet, Drawn
      <4>2. CASE x = n
        <5>1. i = m.att /\ d = m.dhr
          BY <1>2, <4>1, <4>2 DEF Binding
        <5> QED
          BY <1>6, <2>6, <4>2, <5>1 DEF Refused
      <4>3. CASE x # n
        <5>1. Refused(i, x, d)
          BY <2>2, <3>1, <4>1, <4>3 DEF Spent
        <5> QED
          BY <1>4, <1>6, <5>1 DEF Refused, PubKey
      <4> QED
        BY <4>2, <4>3
    <3> QED
      BY <3>1 DEF Spent
  <2>12. Flows'
    BY <1>1, <1>3, <1>4, <2>2 DEF Flows
  <2> QED
    BY <2>2, <2>4, <2>5, <2>8, <2>10, <2>11, <2>12
<1>7. CASE /\ NewFlow(m, h, m.nr, ResponderKeys(m.att, m))
           /\ r2cache' = r2cache \cup
                  {Message(m.att, "DhR2", m.nr, m.dhi, m.dhr, FreeChan(h))}
           /\ Deliver(m, {Message(m.att, "DhR2", m.nr, m.dhi, m.dhr, FreeChan(h))})
  <2>1. PICK c \in Nat : c = FreeChan(h)
    BY <1>1, FreeChanType
  <2>2. PICK r2 : r2 = Message(m.att, "DhR2", m.nr, m.dhi, m.dhr, c)
    OBVIOUS
  <2> QED
    BY <1>6, <1>7, <2>1, <2>2
<1> QED
  BY <1>5, <1>7 DEF GotDhI2

-----------------------------------------------------------------------------
(* All steps. *)
LEMMA ReceiveInv ==
    ASSUME Inv, Receive
    PROVE  Inv'
<1>1. PICK m \in msgs : \/ GotChkI1(m) \/ GotChkR1(m)
                        \/ GotDhI1(m) \/ GotDhR1(m)
                        \/ GotDhI2(m) \/ GotDhI2Again(m) \/ GotDhI2Outdated(m)
                        \/ GotDhR2(m)
  BY DEF Receive
<1>2. CASE GotDhI1(m) \/ GotDhI2Outdated(m)
  BY <1>2, FreshR1Inv DEF GotDhI1, GotDhI2Outdated
<1> QED
  BY <1>1, <1>2, GotChkI1Inv, GotChkR1Inv, GotDhR1Inv, GotDhI2Inv,
     GotDhI2AgainInv, GotDhR2Inv

LEMMA InvStep ==
    ASSUME Inv, [Next]_vars
    PROVE  Inv'
<1>1. CASE UNCHANGED vars
  BY <1>1, NothingInv DEF vars, Inv, Typed
<1>2. CASE \E i \in Attempt : Initiate(i) \/ Retransmit(i) \/ CancelEarly(i)
  BY <1>2, InitiateInv, RetransmitInv, CancelEarlyInv
<1>3. CASE Receive
  BY <1>3, ReceiveInv
<1>4. CASE \E h \in Host : SendR0(h) \/ GotR0(h) \/ KeyTimeout(h)
  BY <1>4, SendR0Inv, GotR0Inv, KeyTimeoutInv
<1>5. CASE \E h \in Host : \E c \in Chan(h) : FlowDown(h, c)
  BY <1>5, FlowDownInv
<1> QED
  BY <1>1, <1>2, <1>3, <1>4, <1>5 DEF Next

LEMMA InvInit ==
    ASSUME Init
    PROVE  Inv
<1>1. Idle \in Initiator
  BY DEF Idle, Initiator, Keys
<1>2. Typed
  BY <1>1, KeyAssumption DEF Init, Typed
<1>3. TypeOK
  BY KeyAssumption DEF Init, TypeOK, Idle
<1>4. Staged /\ Truthful
  BY DEF Init, Idle, Staged, Truthful
<1>5. \A i, n, d : ~Says(i, n, d)
  BY DEF Init, Idle, Says
<1>6. Drawn /\ Binding /\ Spent /\ Flows
  BY <1>5 DEF Init, Drawn, Binding, Spent, Flows
<1>7. Agreed
  BY DEF Init, Agreed, Up
<1> QED
  BY <1>2, <1>3, <1>4, <1>6, <1>7 DEF Inv

LEMMA InvAlways == Spec => []Inv
<1>1. Init => Inv
  BY InvInit
<1>2. Inv /\ [Next]_vars => Inv'
  BY InvStep
<1> QED
  BY <1>1, <1>2, PTL DEF Spec

-----------------------------------------------------------------------------
(* The members of an initiator, the channel tables and the counters stay   *)
(* in their ranges.                                                        *)
THEOREM KeyTypeCorrect == Spec => []TypeOK
<1>1. Inv => TypeOK
  BY DEF Inv
<1> QED
  BY <1>1, InvAlways, PTL

(* When an initiator's flow is up, the responder made the flow at its      *)
(* other end, with the same keys and each other's channels.                *)
THEOREM EndsAgree == Spec => []Agreement
<1>1. ASSUME Agreed PROVE Agreement
  <2>1. ASSUME NEW h \in Host, NEW c \in Chan(h), Up(flows[h][c])
        PROVE  \E x \in 1 .. Len(made[flows[h][c].nonce]) :
                   LET f == flows[h][c]
                       g == made[f.nonce][x].flow
                   IN  /\ g.att = f.att
                       /\ f.tx = g.rx /\ f.rx = g.tx
                       /\ f.rchan = made[f.nonce][x].chan /\ g.rchan = c
    <3>1. Paired(flows[h][c], c)
      BY <1>1, <2>1 DEF Agreed
    <3>2. 1 \in 1 .. Len(made[flows[h][c].nonce])
      BY <3>1 DEF Paired
    <3> QED
      BY <3>1, <3>2 DEF Paired
  <2> QED
    BY <2>1 DEF Agreement, Up
<1>2. Inv => Agreement
  BY <1>1 DEF Inv
<1> QED
  BY <1>2, InvAlways, PTL

(* An attempt that isEarly() can be cancelled: the responder has no flow   *)
(* for it and cannot be told to make one.                                  *)
THEOREM EarlyIsHarmless == Spec => []EarlyLeavesNoState
<1>1. ASSUME Flows PROVE EarlyLeavesNoState
  <2>1. ASSUME NEW i \in Attempt, ini[i].early,
               NEW n \in Nonce, NEW x \in 1 .. Len(made[n])
        PROVE  made[n][x].flow.att # i
    <3>1. made[n] # <<>>
      OBVIOUS
    <3>2. PICK e : made[n] = <<e>> /\ ~ini[e.flow.att].early
      BY <1>1, <3>1 DEF Flows
    <3>3. x = 1 /\ made[n][1] = e
      BY <3>2
    <3> QED
      BY <2>1, <3>2, <3>3
  <2> QED
    BY <2>1 DEF EarlyLeavesNoState
<1>2. Inv => EarlyLeavesNoState
  BY <1>1 DEF Inv
<1> QED
  BY <1>2, InvAlways, PTL

(* Whatever is lost, late or repeated, one exchange makes one flow.        *)
THEOREM ExchangeMakesOneFlow == Spec => []OneFlowPerExchange
<1>1. ASSUME Flows PROVE OneFlowPerExchange
  <2>1. ASSUME NEW n \in Nonce
        PROVE  Len(made[n]) <= 1
    <3>1. CASE made[n] = <<>>
      BY <3>1
    <3>2. CASE \E e : made[n] = <<e>>
      BY <3>2
    <3> QED
      BY <1>1, <3>1, <3>2 DEF Flows
  <2> QED
    BY <2>1 DEF OneFlowPerExchange
<1>2. Inv => OneFlowPerExchange
  BY <1>1 DEF Inv
<1> QED
  BY <1>2, InvAlways, PTL
=============================================================================
