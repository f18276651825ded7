------------------------ MODULE StreamPromiseProofs -------------------------
(***************************************************************************)
(* Theorems about a stream from end to end, for every value of its         *)
(* constants: the reader finds the ends of messages where the writer put   *)
(* them, and the two halves implement the reliable stream that lib/stream.h *)
(* describes.                                                              *)
(***************************************************************************)
EXTENDS StreamRxProofs

-----------------------------------------------------------------------------
(* The segments that the sender and the network hold.                      *)

Sent == Range(tqueue) \cup {pkts[n].seg : n \in inflight \cup wire}

LEMMA SettledSent ==
    ASSUME TxTyped, NEW S \in SUBSET inflight, Settle(S),
           tqueue' = tqueue \/ tqueue' = Requeued(S)
    PROVE  Sent' \subseteq Sent
<1>1. /\ inflight' = inflight \ S /\ wire' = wire
      /\ pkts' = [n \in inflight' \cup wire |-> pkts[n]]
  BY DEF Settle
<1>2. Range(tqueue') \subseteq Sent
  <2>1. Range(Requeued(S))
          = Range(tqueue) \cup {pkts[m].seg : m \in {i \in S : pkts[i].type # "attach"}}
    BY RequeuedRange
  <2>2. Range(Requeued(S)) \subseteq Sent
    BY <2>1 DEF Sent
  <2>3. Range(tqueue) \subseteq Sent
    BY DEF Sent
  <2> QED
    BY <2>2, <2>3
<1>3. ASSUME NEW n \in inflight' \cup wire' PROVE pkts'[n].seg \in Sent
  <2>1. pkts'[n] = pkts[n] /\ n \in inflight \cup wire
    BY <1>1
  <2> QED
    BY <2>1 DEF Sent
<1> QED
  BY <1>2, <1>3 DEF Sent

LEMMA TransmittedSent ==
    ASSUME TxTyped, Transmit
    PROVE  Sent' \subseteq Sent \cup {NoSegment}
<1>1. /\ tqueue \in Seq(Segment) /\ LiveQueue \in Seq(Segment)
      /\ Range(LiveQueue) \subseteq Range(tqueue)
  BY LiveQueueRange DEF TxTyped
<1>2. CASE TransmitNothing
  <2>1. tqueue' = <<>> /\ UNCHANGED <<inflight, wire, pkts>>
    BY <1>2 DEF TransmitNothing
  <2>2. Range(tqueue') = {}
    BY <2>1 DEF Range
  <2> QED
    BY <2>1, <2>2 DEF Sent
<1>3. ASSUME NEW type, NEW seg \in Sent \cup {NoSegment}, Put(type, seg),
             Range(tqueue') \subseteq Sent
      PROVE  Sent' \subseteq Sent \cup {NoSegment}
  <2>1. /\ inflight' \cup wire' = inflight \cup wire \cup {npkts'}
        /\ \A n \in inflight \cup wire \cup {npkts'} :
              pkts'[n].seg = IF n = npkts' THEN seg ELSE pkts[n].seg
    BY <1>3 DEF Put
  <2>2. ASSUME NEW n \in inflight' \cup wire' PROVE pkts'[n].seg \in Sent \cup {NoSegment}
    BY <1>3, <2>1 DEF Sent
  <2> QED
    BY <1>3, <2>2 DEF Sent
<1>4. ASSUME LiveQueue # <<>>
      PROVE  Head(LiveQueue) \in Sent /\ Range(Tail(LiveQueue)) \subseteq Sent
  BY <1>1, <1>4, HeadTail DEF Sent
<1>5. Range(LiveQueue) \subseteq Sent
  BY <1>1 DEF Sent
<1>6. CASE TransmitData
  BY <1>3, <1>4, <1>6 DEF TransmitData
<1>7. CASE TransmitInit
  BY <1>3, <1>4, <1>7 DEF TransmitInit
<1>8. CASE TransmitAttach
  BY <1>3, <1>5, <1>8 DEF TransmitAttach
<1> QED
  BY <1>2, <1>6, <1>7, <1>8 DEF Transmit

(* Only writeData() makes segments: every other step passes on those there *)
(* are, and Attach packets, which carry none.                              *)
LEMMA NothingMadeUp ==
    ASSUME TxTyped, [Next]_vars, ~AppWrite
    PROVE  Sent' \subseteq Sent \cup {NoSegment}
<1>1. ASSUME UNCHANGED <<tqueue, inflight, wire, pkts>> PROVE Sent' \subseteq Sent
  BY <1>1 DEF Sent
<1>2. ASSUME NEW n, tqueue' = tqueue, inflight' = inflight, wire' = wire \ {n},
             pkts' = [m \in inflight \cup wire' |-> pkts[m]]
      PROVE  Sent' \subseteq Sent
  BY <1>2 DEF Sent
<1>3. CASE Sender
  <2>1. CASE WindowUpdate \/ FlowStarted
    BY <1>1, <2>1 DEF WindowUpdate, FlowStarted
  <2>2. CASE ClearPrimary
    <3>1. Settle(inflight) /\ tqueue' = Requeued(inflight)
      BY <2>2 DEF ClearPrimary
    <3> QED
      BY <3>1, SettledSent
  <2>3. ASSUME NEW n \in inflight, Acked(n) \/ Missed(n) PROVE Sent' \subseteq Sent
    <3>1. Settle({n}) /\ (tqueue' = tqueue \/ tqueue' = Requeued({n}))
      BY <2>3 DEF Acked, Missed
    <3>2. {n} \in SUBSET inflight
      OBVIOUS
    <3> QED
      BY <3>1, <3>2, SettledSent
  <2> QED
    BY <1>3, <2>1, <2>2, <2>3, TransmittedSent DEF Sender
<1>4. CASE Network
  BY <1>2, <1>4 DEF Network, Lose
<1>5. CASE App \/ UNCHANGED vars
  BY <1>1, <1>5 DEF App, vars, txvars
<1>6. ASSUME NEW n \in wire, Deliver(n) PROVE Sent' \subseteq Sent
  <2>1. \E ack \in BOOLEAN : Arrive(n, ack)
    BY <1>6 DEF Deliver, RxInitPacket, RxInitDelayed, RxDataPacket, RxAttachKnown, RxAttachUnknown
  <2> QED
    BY <1>2, <2>1 DEF Arrive
<1> QED
  BY <1>3, <1>4, <1>5, <1>6 DEF Next


-----------------------------------------------------------------------------
(* Segments and the ends of messages.                                      *)

(* s ends a message or the stream. *)
Marked(s) == s.flags \cap {"message", "close"} # {}

(* How a segment lies when t bytes are written, with message ends M, and,   *)
(* if e, the stream closed: it does not reach across the end of a message,  *)
(* and says so if it reaches it.  Only an empty close may come later.       *)
WellMarked(s, t, e, M) ==
    /\ s.tsn + s.size <= t
    /\ "close" \in s.flags => e /\ s.tsn + s.size = t
    /\ Marked(s) => s.tsn + s.size \in M
    /\ \A m \in M : s.tsn < m => s.tsn + s.size <= m
    /\ \A m \in M : s.tsn < m /\ m = s.tsn + s.size => Marked(s) \/ (e /\ m = t)

LEMMA MarkedTrim ==
    ASSUME NEW s \in Segment, NEW t \in Nat, NEW e, NEW M \in SUBSET Nat,
           WellMarked(s, t, e, M), NEW at \in Nat, NEW act \in Nat, s.tsn <= at,
           at + act = s.tsn + s.size
    PROVE  WellMarked([tsn |-> at, size |-> act, flags |-> s.flags], t, e, M)
<1>1. PICK x \in Segment : x = [tsn |-> at, size |-> act, flags |-> s.flags]
  BY DEF Segment
<1>2. x.tsn = at /\ x.size = act /\ x.flags = s.flags /\ (Marked(x) <=> Marked(s))
  BY <1>1 DEF Marked
<1>3. s.tsn \in Nat /\ s.size \in Nat
  BY DEF Segment
<1>4. \A m \in M : x.tsn < m => s.tsn < m
  BY <1>2, <1>3
<1>5. x.tsn + x.size = s.tsn + s.size
  BY <1>2
<1>6. WellMarked(x, t, e, M)
  BY <1>2, <1>4, <1>5 DEF WellMarked
<1> QED
  BY <1>1, <1>6

(* The ends of messages are still M after a write of n bytes, or there is one more. *)
OneMore(M, N, t, n, e) == N = M \/ (N = M \cup {t + n} /\ (n # 0 \/ e))

\* Nothing was written after the end marker.
MayWrite(d) == ~d

(* What a write does to the segments there are. *)
LEMMA MarkedStill ==
    ASSUME NEW s \in Segment, NEW t \in Nat, NEW M \in SUBSET (0 .. t),
           NEW d, MayWrite(d), WellMarked(s, t, d, M), NEW n \in Nat, NEW e \in BOOLEAN, NEW N,
           OneMore(M, N, t, n, e)
    PROVE  WellMarked(s, t + n, e, N)
<1>1. s.tsn \in Nat /\ s.size \in Nat /\ s.tsn + s.size <= t /\ "close" \notin s.flags
  BY DEF Segment, WellMarked, MayWrite
<1>2. s.tsn + s.size <= t + n
  BY <1>1
<1>3. Marked(s) => s.tsn + s.size \in N
  BY DEF WellMarked, OneMore
<1>4. ASSUME NEW m \in N, s.tsn < m PROVE s.tsn + s.size <= m
  <2>1. CASE m \in M
    BY <1>4, <2>1 DEF WellMarked
  <2>2. CASE m = t + n
    BY <1>2, <2>2
  <2> QED
    BY <2>1, <2>2 DEF OneMore
<1>5. ASSUME NEW m \in N, s.tsn < m, m = s.tsn + s.size
      PROVE  Marked(s) \/ (e /\ m = t + n)
  <2>1. CASE m \in M
    BY <1>5, <2>1 DEF WellMarked, MayWrite
  <2>2. CASE m = t + n /\ (n # 0 \/ e)
    BY <1>1, <1>5, <2>2
  <2> QED
    BY <2>1, <2>2 DEF OneMore
<1> QED
  BY <1>1, <1>2, <1>3, <1>4, <1>5 DEF WellMarked

(* The segments of one write, between tasn and tasn + n. *)
LEMMA SegmentsLie ==
    ASSUME TxTyped, NEW n \in Nat, NEW f \in SUBSET Flag, NEW s \in Range(Segments(n, f))
    PROVE  /\ s \in Segment /\ tasn <= s.tsn
           /\ \/ s.tsn + s.size = tasn + n /\ s.flags = {"push"} \cup f
              \/ s.tsn + s.size < tasn + n /\ s.flags = {}
<1> DEFINE k == IF n = 0 THEN 1 ELSE (n + MTU - 1) \div MTU
           sg(j) == [tsn |-> tasn + (j - 1) * MTU, size |-> Min2(MTU, n - (j - 1) * MTU),
                     flags |-> IF j = k THEN {"push"} \cup f ELSE {}]
<1>1. MTU \in Nat \ {0} /\ tasn \in Nat
  BY StreamTxAssumption DEF TxTyped
<1>2. k \in Nat
  BY <1>1
<1>3. Segments(n, f) \in Seq(Segment)
  BY SegmentsType
<1>4. Segments(n, f) = [j \in 1 .. k |-> sg(j)]
  BY DEF Segments
<1>5. PICK i \in 1 .. k : s = sg(i)
  BY <1>4 DEF Range
<1>6. s \in Segment
  BY <1>3, RangeOf
<1>7. /\ (i - 1) * MTU \in Nat
      /\ i = k => (i - 1) * MTU <= n /\ n - (i - 1) * MTU <= MTU
      /\ i # k => (i - 1) * MTU + MTU < n
  <2>1. CASE n = 0
    BY <1>1, <2>1
  <2>2. CASE n # 0
    <3>1. PICK m \in Nat : m = n + MTU - 1
      BY <1>1
    <3>2. PICK d \in Nat : d = m \div MTU
      BY <1>1
    <3>3. MTU * d <= m /\ m < MTU * d + MTU
      BY <1>1, <3>1, <3>2
    <3>4. i <= d /\ i >= 1 /\ i \in Nat /\ k = d
      BY <2>2, <3>1, <3>2, <1>2
    <3>5. PICK j \in Nat : j = i - 1
      BY <3>4
    <3>6. PICK a \in Nat : a = j * MTU
      BY <1>1
    <3>7. CASE i = k
      <4>1. j = d - 1
        BY <3>4, <3>5, <3>7
      <4>2. a = MTU * d - MTU
        BY <1>1, <3>2, <3>6, <4>1
      <4> QED
        BY <1>1, <3>1, <3>3, <3>5, <3>6, <3>7, <4>2
    <3>8. CASE i # k
      <4>1. PICK g \in Nat : g = (d - 1) - (j + 1)
        <5>1. (d - 1) - (j + 1) \in Nat
          BY <3>4, <3>5, <3>8
        <5> QED
          BY <5>1, Zenon
      <4>2. d = ((j + g) + 1) + 1
        BY <4>1
      <4>3. MTU * d = (a + MTU * g + MTU) + MTU /\ MTU * g \in Nat
        BY <1>1, <3>6, <4>2
      <4>4. a + MTU < n
        BY <1>1, <3>1, <3>3, <3>6, <4>3
      <4> QED
        BY <3>5, <3>6, <3>8, <4>4
    <3> QED
      BY <3>7, <3>8
  <2> QED
    BY <2>1, <2>2
<1> HIDE DEF k
<1>8. PICK a \in Nat : a = (i - 1) * MTU
  BY <1>7
<1>9. s.tsn = tasn + a /\ s.size = Min2(MTU, n - a) /\ s.flags = IF i = k THEN {"push"} \cup f ELSE {}
  BY <1>5, <1>8
<1>10. CASE i = k
  <2>1. a <= n /\ n - a <= MTU
    BY <1>7, <1>8, <1>10
  <2>2. s.size = n - a
    BY <1>1, <1>9, <2>1 DEF Min2
  <2> QED
    BY <1>1, <1>6, <1>9, <1>10, <2>2
<1>11. CASE i # k
  <2>1. a + MTU < n
    BY <1>7, <1>8, <1>11
  <2>2. s.size = MTU
    BY <1>1, <1>9, <2>1 DEF Min2
  <2> QED
    BY <1>1, <1>6, <1>9, <1>11, <2>1, <2>2
<1> QED
  BY <1>10, <1>11

LEMMA MarkedNew ==
    ASSUME NEW s \in Segment, NEW t \in Nat, NEW n \in Nat, t <= s.tsn, NEW M \in SUBSET (0 .. t),
           NEW f, \/ s.tsn + s.size = t + n /\ s.flags = {"push"} \cup f
                  \/ s.tsn + s.size < t + n /\ s.flags = {}
    PROVE  /\ f = {"push"} => WellMarked(s, t + n, FALSE, M)
           /\ f = {"message"} => WellMarked(s, t + n, FALSE, M \cup {t + n})
           /\ f = {"close"} => WellMarked(s, t + n, TRUE, M \cup {t + n})
<1>1. s.tsn \in Nat /\ s.size \in Nat
  BY DEF Segment
<1>2. \A m \in M : ~(s.tsn < m)
  <2>1. ASSUME NEW m \in M PROVE ~(s.tsn < m)
    <3>1. m \in 0 .. t
      OBVIOUS
    <3> QED
      BY <1>1, <3>1
  <2> QED
    BY <2>1
<1>3. s.tsn + s.size <= t + n
  BY <1>1
<1>4. s.flags = {} => ~Marked(s)
  BY DEF Marked
<1>5. f = {"push"} => ~Marked(s) /\ "close" \notin s.flags
  BY DEF Marked
<1>6. f = {"message"} /\ s.tsn + s.size = t + n => Marked(s) /\ "close" \notin s.flags
  <2>1. s.tsn + s.size = t + n => s.flags = {"push"} \cup f
    BY <1>1
  <2> QED
    BY <2>1 DEF Marked
<1>7. f = {"message"} => "close" \notin s.flags
  OBVIOUS
<1>8. CASE f = {"push"}
  BY <1>2, <1>3, <1>5, <1>8 DEF WellMarked
<1>9. CASE f = {"message"}
  <2>1. Marked(s) => s.tsn + s.size = t + n
    BY <1>4
  <2>2. WellMarked(s, t + n, FALSE, M \cup {t + n})
    BY <1>2, <1>3, <1>6, <1>7, <1>9, <2>1 DEF WellMarked
  <2> QED
    BY <1>9, <2>2
<1>10. CASE f = {"close"}
  <2>1. Marked(s) => s.tsn + s.size = t + n
    BY <1>4
  <2>2. "close" \in s.flags => s.tsn + s.size = t + n
    OBVIOUS
  <2>3. WellMarked(s, t + n, TRUE, M \cup {t + n})
    BY <1>2, <1>3, <1>10, <2>1, <2>2 DEF WellMarked
  <2> QED
    BY <1>10, <2>3
<1> QED
  BY <1>8, <1>9, <1>10


-----------------------------------------------------------------------------
(* What rxData() makes of the ends of messages.                            *)

(* f is where the messages of sizes q end, the first of them starting at    *)
(* from.                                                                    *)
EndRun(f, q, from) ==
    /\ f \in [0 .. Len(q) -> Nat] /\ f[0] = from
    /\ \A i \in 1 .. Len(q) : f[i - 1] < f[i] /\ f[i] = f[i - 1] + q[i]

(* The messages of sizes q, and avail bytes of the next, lie between from    *)
(* and to, and end where M says, except for the end t of a closed stream.    *)
EndsAt(f, q, avail, from, to, t, e, M) ==
    /\ EndRun(f, q, from)
    /\ avail \in Nat /\ f[Len(q)] + avail = to
    /\ \A i \in 1 .. Len(q) : f[i] \in M
    /\ \A m \in M : from < m /\ m <= to => (\E i \in 1 .. Len(q) : m = f[i]) \/ (e /\ m = t)

Framed(q, avail, from, to, t, e, M) == \E f : EndsAt(f, q, avail, from, to, t, e, M)

(* The outcomes of Take, with what it does about messages. *)
SameFrames(rx, new) ==
    /\ new.rmsgsize = rx.rmsgsize /\ new.rmsgavail = rx.rmsgavail /\ new.closed = rx.closed

AddsFrame(rx, s, new, msg) ==
    /\ new.closed = (rx.closed \/ "close" \in s.flags)
    /\ \/ /\ Marked(s) /\ msg > 0
          /\ new.rmsgsize = Append(rx.rmsgsize, msg) /\ new.rmsgavail = 0
       \/ /\ ~(Marked(s) /\ msg > 0)
          /\ new.rmsgsize = rx.rmsgsize /\ new.rmsgavail = msg

LEMMA TakeMarks ==
    ASSUME NEW rx \in RxRec, NEW s \in Segment
    PROVE  \/ Keeps(rx, s, Take(rx, s)) /\ SameFrames(rx, Take(rx, s))
           \/ Drops(rx, s, Take(rx, s)) /\ SameFrames(rx, Take(rx, s))
           \/ \E act \in Nat : /\ Appends(rx, s, Take(rx, s), act)
                               /\ AddsFrame(rx, s, Take(rx, s), rx.rmsgavail + act)
<1> DEFINE act == s.size - (rx.rsn - s.tsn)
           msg == rx.rmsgavail + act
           framed == EndsMessage(s, msg)
<1>1. /\ rx.rsn \in Nat /\ rx.ravail \in Int /\ rx.rbufused \in Int
      /\ rx.rmsgavail \in Int /\ rx.closed \in BOOLEAN
      /\ s.tsn \in Nat /\ s.size \in Nat /\ s.flags \in SUBSET Flag
  BY DEF RxRec, Segment
<1>3. CASE s.tsn > rx.rsn
  <2>1. Take(rx, s) = [rx EXCEPT !.rahead = Append(@, s)]
    BY <1>3 DEF Take
  <2>3. Keeps(rx, s, Take(rx, s)) /\ SameFrames(rx, Take(rx, s))
    BY <1>3, <2>1 DEF RxRec, Keeps, SameFrames
  <2> QED
    BY <2>3
<1>4. CASE ~(s.tsn > rx.rsn) /\ (act < 0 \/ (act = 0 /\ s.flags = {}))
  <2>1. Take(rx, s) = [rx EXCEPT !.rbufused = @ - s.size]
    BY <1>4 DEF Take
  <2>2. s.tsn <= rx.rsn /\ s.tsn + s.size <= rx.rsn
    BY <1>1, <1>4
  <2>3. Drops(rx, s, Take(rx, s)) /\ SameFrames(rx, Take(rx, s))
    BY <2>1, <2>2 DEF RxRec, Drops, SameFrames
  <2> QED
    BY <2>3
<1>5. CASE ~(s.tsn > rx.rsn) /\ ~(act < 0 \/ (act = 0 /\ s.flags = {}))
  <2> DEFINE t == [tsn |-> rx.rsn, size |-> act, flags |-> s.flags]
             sz == IF framed THEN Append(rx.rmsgsize, msg) ELSE rx.rmsgsize
             av == IF framed THEN 0 ELSE msg
             cl == rx.closed \/ "close" \in s.flags
             bu == rx.rbufused - s.size + act
  <2>1. s.tsn <= rx.rsn /\ act \in Nat /\ rx.rsn + act = s.tsn + s.size
    BY <1>1, <1>5
  <2>2. Trim(s, rx.rsn) = t
    BY DEF Trim
  <2>3. framed <=> Marked(s) /\ msg > 0
    BY DEF EndsMessage, Marked
  <2> HIDE DEF t
  <2>5. Take(rx, s) = [rx EXCEPT !.rsegs = Append(@, t), !.rsn = @ + act,
                                 !.ravail = @ + act, !.rbufused = bu,
                                 !.rmsgsize = sz, !.rmsgavail = av, !.closed = cl]
    BY <1>5, <2>2 DEF Take
  <2>6. sz = (IF framed THEN Append(rx.rmsgsize, msg) ELSE rx.rmsgsize)
        /\ av = (IF framed THEN 0 ELSE msg)
    OBVIOUS
  <2>7. msg = rx.rmsgavail + act
    OBVIOUS
  <2> HIDE DEF act, sz, av, bu, msg, framed
  <2>9. Take(rx, s).rmsgsize = sz /\ Take(rx, s).rmsgavail = av
        /\ Take(rx, s).closed = (rx.closed \/ "close" \in s.flags)
    BY <2>5 DEF RxRec
  <2>10. Appends(rx, s, Take(rx, s), act)
    BY <2>1, <2>5 DEF Appends, RxRec, t, bu
  <2>11. AddsFrame(rx, s, Take(rx, s), msg)
    BY <2>3, <2>6, <2>9 DEF AddsFrame
  <2> QED
    BY <2>1, <2>7, <2>10, <2>11
<1> QED
  BY <1>3, <1>4, <1>5

(* A message more, or more bytes of the last one. *)
LEMMA FrameAdded ==
    ASSUME NEW q \in Seq(Int), NEW avail, NEW from, NEW to \in Nat, NEW t \in Nat, NEW e,
           NEW M \in SUBSET Nat, Framed(q, avail, from, to, t, e, M), NEW act \in Nat,
           avail + act > 0, to + act \in M,
           \A m \in M : to < m => to + act <= m
    PROVE  Framed(Append(q, avail + act), 0, from, to + act, t, e, M)
<1>1. PICK f : EndsAt(f, q, avail, from, to, t, e, M)
  BY DEF Framed
<1>2. PICK n \in Nat : n = Len(q)
  BY LenProperties
<1>3. avail \in Nat
  BY <1>1 DEF EndsAt
<1>4. PICK msg \in Int : msg = avail + act /\ msg > 0
  BY <1>3
<1>5. PICK p \in Seq(Int) :
         /\ p = Append(q, msg) /\ Len(p) = n + 1
         /\ \A i \in 1 .. n : p[i] = q[i]
         /\ p[n + 1] = msg
  <2>1. /\ Append(q, msg) \in Seq(Int) /\ Len(Append(q, msg)) = n + 1
        /\ \A i \in 1 .. n : Append(q, msg)[i] = q[i]
        /\ Append(q, msg)[n + 1] = msg
    BY <1>2, AppendProperties
  <2> QED
    BY <2>1, Zenon
<1>6. /\ f \in [0 .. n -> Nat] /\ f[0] = from /\ f[n] + avail = to
      /\ \A i \in 1 .. n : f[i - 1] < f[i] /\ f[i] = f[i - 1] + q[i]
      /\ \A i \in 1 .. n : f[i] \in M
      /\ \A m \in M : from < m /\ m <= to => (\E i \in 1 .. n : m = f[i]) \/ (e /\ m = t)
  BY <1>1, <1>2 DEF EndsAt, EndRun
<1> DEFINE g == [i \in 0 .. n + 1 |-> IF i = n + 1 THEN to + act ELSE f[i]]
<1>7. g \in [0 .. n + 1 -> Nat] /\ g[0] = from /\ g[n + 1] = to + act
      /\ \A i \in 0 .. n : g[i] = f[i]
  <2>1. \A i \in 0 .. n + 1 : (IF i = n + 1 THEN to + act ELSE f[i]) \in Nat
    BY <1>6
  <2> QED
    BY <1>6, <2>1
<1> HIDE DEF g
<1>8. ASSUME NEW i \in 1 .. n + 1 PROVE g[i - 1] < g[i] /\ g[i] = g[i - 1] + p[i] /\ g[i] \in M
  <2>1. CASE i = n + 1
    <3>1. g[i - 1] = f[n] /\ f[n] \in Nat
      BY <1>6, <1>7, <2>1
    <3>2. g[i] = to + act /\ p[i] = msg
      BY <1>5, <1>7, <2>1
    <3>3. PICK a \in Nat : a = f[n] /\ a = g[i - 1] /\ a + avail = to
      BY <1>6, <3>1
    <3>4. PICK v \in Nat : a + v = to /\ msg = v + act
      BY <1>3, <1>4, <3>3, Zenon
    <3>5. msg > 0
      BY <1>4
    <3>6. a < to + act /\ to + act = a + msg
      BY ONLY a \in Nat, v \in Nat, to \in Nat, act \in Nat, <3>4, <3>5
    <3> QED
      BY <3>2, <3>3, <3>6
  <2>2. CASE i # n + 1
    <3>1. i \in 1 .. n /\ g[i] = f[i] /\ g[i - 1] = f[i - 1] /\ p[i] = q[i]
      BY <1>5, <1>7, <2>2
    <3> QED
      BY <1>6, <3>1
  <2> QED
    BY <2>1, <2>2
<1>9. ASSUME NEW m \in M, from < m, m <= to + act
      PROVE  (\E i \in 1 .. n + 1 : m = g[i]) \/ (e /\ m = t)
  <2>1. CASE m <= to
    <3>1. CASE e /\ m = t
      BY <3>1
    <3>2. CASE \E i \in 1 .. n : m = f[i]
      <4>1. PICK i \in 1 .. n : m = f[i]
        BY <3>2
      <4>2. i \in 1 .. n + 1 /\ m = g[i]
        BY <1>7, <4>1
      <4> QED
        BY <4>2
    <3> QED
      BY <1>6, <1>9, <2>1, <3>1, <3>2
  <2>2. CASE ~(m <= to)
    <3>1. m = to + act
      BY <1>9, <2>2
    <3>2. n + 1 \in 1 .. n + 1 /\ m = g[n + 1]
      BY <1>7, <3>1
    <3> QED
      BY <3>2
  <2> QED
    BY <2>1, <2>2
<1>10. EndsAt(g, p, 0, from, to + act, t, e, M)
  <2>1. 0 \in Nat /\ g[Len(p)] + 0 = to + act /\ EndRun(g, p, from)
    <3>1. 0 \in Nat /\ g[Len(p)] + 0 = to + act
      BY <1>5, <1>7
    <3>2. g \in [0 .. Len(p) -> Nat] /\ g[0] = from
      BY <1>5, <1>7
    <3>3. \A i \in 1 .. Len(p) : g[i - 1] < g[i] /\ g[i] = g[i - 1] + p[i]
      BY <1>5, <1>8
    <3> QED
      BY <3>1, <3>2, <3>3 DEF EndRun
  <2>2. \A i \in 1 .. Len(p) : g[i] \in M
    BY <1>5, <1>8
  <2>3. \A m \in M : from < m /\ m <= to + act
                     => (\E i \in 1 .. Len(p) : m = g[i]) \/ (e /\ m = t)
    BY <1>5, <1>9
  <2> QED
    BY <2>1, <2>2, <2>3, Zenon DEF EndsAt
<1> QED
  BY <1>4, <1>5, <1>10 DEF Framed

LEMMA FrameGrown ==
    ASSUME NEW q \in Seq(Int), NEW avail, NEW from, NEW to \in Nat, NEW t \in Nat, NEW e,
           NEW M \in SUBSET Nat, Framed(q, avail, from, to, t, e, M), NEW act \in Nat,
           \A m \in M : to < m /\ m <= to + act => e /\ m = t
    PROVE  Framed(q, avail + act, from, to + act, t, e, M)
<1>1. PICK f : EndsAt(f, q, avail, from, to, t, e, M)
  BY DEF Framed
<1>2. PICK n \in Nat : n = Len(q)
  BY LenProperties
<1>3. avail \in Nat /\ f[n] \in Nat /\ f[n] + avail = to
  BY <1>1, <1>2 DEF EndsAt, EndRun
<1>4. avail + act \in Nat /\ f[n] + (avail + act) = to + act
  BY <1>3
<1>5. ASSUME NEW m \in M, from < m, m <= to + act
      PROVE  (\E i \in 1 .. n : m = f[i]) \/ (e /\ m = t)
  <2>1. m <= to \/ to < m
    OBVIOUS
  <2> QED
    BY <1>1, <1>2, <1>5, <2>1 DEF EndsAt
<1>6. EndsAt(f, q, avail + act, from, to + act, t, e, M)
  BY <1>1, <1>2, <1>4, <1>5 DEF EndsAt
<1> QED
  BY <1>6 DEF Framed

LEMMA RangeAppend ==
    ASSUME NEW q \in Seq(Segment), NEW s \in Segment
    PROVE  Range(Append(q, s)) = Range(q) \cup {s}
<1>1. /\ Len(q) \in Nat /\ DOMAIN q = 1 .. Len(q) /\ DOMAIN Append(q, s) = 1 .. Len(q) + 1
      /\ Append(q, s)[Len(q) + 1] = s
      /\ \A i \in 1 .. Len(q) : Append(q, s)[i] = q[i]
  BY Appended
<1>0. PICK a : a = Append(q, s)
  OBVIOUS
<1>2. PICK n \in Nat : n = Len(q) /\ a = Append(q, s)
  BY <1>0, <1>1, Zenon
<1>3. DOMAIN q = 1 .. n /\ DOMAIN a = 1 .. n + 1 /\ a[n + 1] = s /\ \A i \in 1 .. n : a[i] = q[i]
  BY <1>1, <1>2
<1>4. ASSUME NEW i \in 1 .. n + 1 PROVE a[i] \in Range(q) \cup {s}
  <2>1. i = n + 1 \/ i \in 1 .. n
    OBVIOUS
  <2> QED
    BY <1>3, <2>1 DEF Range
<1>5. ASSUME NEW i \in 1 .. n PROVE q[i] \in Range(a)
  <2>1. i \in 1 .. n + 1
    OBVIOUS
  <2> QED
    BY <1>3, <2>1 DEF Range
<1>6. s \in Range(a)
  <2>1. n + 1 \in 1 .. n + 1
    OBVIOUS
  <2> QED
    BY <1>3, <2>1 DEF Range
<1>7. Range(a) \subseteq Range(q) \cup {s}
  BY <1>3, <1>4 DEF Range
<1>8. Range(q) \cup {s} \subseteq Range(a)
  BY <1>3, <1>5, <1>6 DEF Range
<1> QED
  BY <1>2, <1>7, <1>8

(* What rxData() keeps true of messages while it goes through the segments. *)
RxFrames(rx, from, t, e, M) ==
    /\ Framed(rx.rmsgsize, rx.rmsgavail, from, rx.rsn, t, e, M)
    /\ rx.rsn <= t
    /\ rx.closed => e /\ rx.rsn = t
    /\ \A s \in Range(rx.rsegs) \cup Range(rx.rahead) : WellMarked(s, t, e, M)
    /\ \A s \in Range(rx.rsegs) : "close" \in s.flags => rx.rmsgavail = 0 /\ rx.rsn = t

LEMMA TakeFrames ==
    ASSUME NEW rx \in RxRec, NEW s \in Segment, NEW from, NEW t \in Nat, NEW e,
           NEW M \in SUBSET Nat, RxFrames(rx, from, t, e, M), WellMarked(s, t, e, M)
    PROVE  RxFrames(Take(rx, s), from, t, e, M)
<1>1. PICK new \in RxRec :
        /\ new = Take(rx, s)
        /\ \/ Keeps(rx, s, new) /\ SameFrames(rx, new)
           \/ Drops(rx, s, new) /\ SameFrames(rx, new)
           \/ \E act \in Nat : Appends(rx, s, new, act) /\ AddsFrame(rx, s, new, rx.rmsgavail + act)
  BY TakeDoes, TakeMarks, Zenon
<1>2. /\ rx.rsn \in Nat /\ rx.rsegs \in Seq(Segment) /\ rx.rahead \in Seq(Segment)
      /\ rx.rmsgsize \in Seq(Int)
  BY DEF RxRec
<1>3. s.tsn \in Nat /\ s.size \in Nat
  BY DEF Segment
<1>4. CASE Keeps(rx, s, new) /\ SameFrames(rx, new)
  <2>1. Range(new.rahead) = Range(rx.rahead) \cup {s}
    BY <1>2, <1>4, RangeAppend DEF Keeps
  <2> QED
    BY <1>1, <1>4, <2>1 DEF Keeps, SameFrames, RxFrames
<1>5. CASE Drops(rx, s, new) /\ SameFrames(rx, new)
  BY <1>1, <1>5 DEF Drops, SameFrames, RxFrames
<1>6. ASSUME NEW act \in Nat, Appends(rx, s, new, act), AddsFrame(rx, s, new, rx.rmsgavail + act)
      PROVE  RxFrames(new, from, t, e, M)
  <2>1. PICK at \in Nat, av \in Nat, q \in Seq(Int) :
           at = rx.rsn /\ av = rx.rmsgavail /\ q = rx.rmsgsize /\ Framed(q, av, from, at, t, e, M)
    <3>1. rx.rmsgavail \in Nat
      BY DEF RxFrames, Framed, EndsAt
    <3> QED
      BY <1>2, <3>1, Zenon DEF RxFrames
  <2>2. /\ s.tsn <= at /\ at + act = s.tsn + s.size /\ new.rsn = at + act
        /\ new.rahead = rx.rahead /\ at <= t
        /\ new.rsegs = Append(rx.rsegs, [tsn |-> at, size |-> act, flags |-> s.flags])
    BY <1>6, <2>1 DEF Appends, RxFrames
  <2>3. PICK x \in Segment : x = [tsn |-> at, size |-> act, flags |-> s.flags]
    BY DEF Segment
  <2>4. WellMarked(x, t, e, M)
    BY <2>2, <2>3, MarkedTrim
  <2>5. /\ x.tsn = at /\ x.size = act /\ x.flags = s.flags /\ (Marked(x) <=> Marked(s))
    BY <2>3 DEF Marked
  <2>6. Range(new.rsegs) = Range(rx.rsegs) \cup {x}
    BY <1>2, <2>2, <2>3, RangeAppend
  <2>7. at + act <= t /\ ("close" \in s.flags => e /\ at + act = t)
    BY <2>4, <2>5 DEF WellMarked
  <2>8. \A m \in M : at < m => at + act <= m
    BY <2>4, <2>5 DEF WellMarked
  <2>9. ASSUME rx.closed \/ \E y \in Range(rx.rsegs) : "close" \in y.flags PROVE at = t /\ act = 0
    <3>1. at = t
      BY <2>1, <2>9 DEF RxFrames
    <3> QED
      BY <2>7, <3>1
  <2>10. new.closed => e /\ new.rsn = t
    <3>1. new.closed <=> rx.closed \/ "close" \in s.flags
      BY <1>6 DEF AddsFrame
    <3>2. CASE rx.closed
      <4>1. at = t /\ act = 0 /\ e
        BY <2>9, <3>2 DEF RxFrames
      <4> QED
        BY <2>2, <4>1
    <3>3. CASE "close" \in s.flags
      BY <2>2, <2>7, <3>3
    <3> QED
      BY <3>1, <3>2, <3>3
  <2>11. \A y \in Range(new.rsegs) \cup Range(new.rahead) : WellMarked(y, t, e, M)
    BY <2>2, <2>4, <2>6 DEF RxFrames
  <2>12. ASSUME NEW y \in Range(rx.rsegs), "close" \in y.flags
         PROVE  av = 0 /\ act = 0 /\ at = t
    BY <2>1, <2>9, <2>12 DEF RxFrames
  <2>13. CASE Marked(s) /\ av + act > 0
    <3>1. new.rmsgsize = Append(q, av + act) /\ new.rmsgavail = 0
      BY <1>6, <2>1, <2>13 DEF AddsFrame
    <3>2. at + act \in M
      BY <2>4, <2>5, <2>13 DEF WellMarked
    <3>3. Framed(Append(q, av + act), 0, from, at + act, t, e, M)
      BY <2>1, <2>8, <2>13, <3>2, FrameAdded
    <3>4. Framed(new.rmsgsize, new.rmsgavail, from, new.rsn, t, e, M)
      BY <2>2, <3>1, <3>3
    <3>5. ASSUME NEW y \in Range(new.rsegs), "close" \in y.flags
          PROVE  new.rmsgavail = 0 /\ new.rsn = t
      <4>1. CASE y = x
        BY <2>2, <2>5, <2>7, <3>1, <3>5, <4>1
      <4>2. CASE y \in Range(rx.rsegs)
        BY <2>2, <2>12, <3>1, <3>5, <4>2
      <4> QED
        BY <2>6, <4>1, <4>2
    <3> QED
      BY <2>2, <2>7, <2>10, <2>11, <3>4, <3>5 DEF RxFrames
  <2>14. CASE ~(Marked(s) /\ av + act > 0)
    <3>1. new.rmsgsize = q /\ new.rmsgavail = av + act
      BY <1>6, <2>1, <2>14 DEF AddsFrame
    <3>2. ASSUME NEW m \in M, at < m, m <= at + act PROVE e /\ m = t
      <4>1. m = at + act /\ act # 0
        BY <2>8, <3>2
      <4>2. ~Marked(s)
        BY <2>14, <4>1
      <4> QED
        BY <2>4, <2>5, <3>2, <4>1, <4>2 DEF WellMarked
    <3>3. Framed(q, av + act, from, at + act, t, e, M)
      BY <2>1, <3>2, FrameGrown
    <3>4. Framed(new.rmsgsize, new.rmsgavail, from, new.rsn, t, e, M)
      BY <2>2, <3>1, <3>3
    <3>5. ASSUME NEW y \in Range(new.rsegs), "close" \in y.flags
          PROVE  new.rmsgavail = 0 /\ new.rsn = t
      <4>1. CASE y = x
        <5>1. Marked(s) /\ "close" \in s.flags
          BY <2>5, <3>5, <4>1 DEF Marked
        <5>2. av + act = 0
          BY <2>14, <5>1
        <5> QED
          BY <2>2, <2>7, <3>1, <5>1, <5>2
      <4>2. CASE y \in Range(rx.rsegs)
        BY <2>2, <2>12, <3>1, <3>5, <4>2
      <4> QED
        BY <2>6, <4>1, <4>2
    <3> QED
      BY <2>2, <2>7, <2>10, <2>11, <3>4, <3>5 DEF RxFrames
  <2> QED
    BY <2>13, <2>14
<1> QED
  BY <1>1, <1>4, <1>5, <1>6

LEMMA TakeAllFrames ==
    ASSUME NEW base \in RxRec, NEW q \in Seq(Segment), NEW from, NEW t \in Nat, NEW e,
           NEW M \in SUBSET Nat, RxFrames(base, from, t, e, M),
           \A s \in Range(q) : WellMarked(s, t, e, M)
    PROVE  RxFrames(FoldLeft(Take, base, q), from, t, e, M)
<1>1. PICK f : TakeRun(f, base, q) /\ FoldLeft(Take, base, q) = f[Len(q)]
  BY TakeRuns
<1>2. PICK n \in Nat : n = Len(q) /\ DOMAIN q = 1 .. n
  BY LenProperties
<1>3. /\ f \in [0 .. n -> RxRec] /\ f[0] = base
      /\ \A i \in 1 .. n : f[i] = Take(f[i - 1], q[i])
  BY <1>1, <1>2 DEF TakeRun
<1>4. \A i \in 1 .. n : q[i] \in Segment /\ WellMarked(q[i], t, e, M)
  <2>1. \A i \in 1 .. n : q[i] \in Segment
    BY <1>2, ElementOfSeq
  <2>2. \A i \in 1 .. n : q[i] \in Range(q)
    BY <1>2 DEF Range
  <2> QED
    BY <2>1, <2>2
<1> DEFINE P == {i \in 0 .. n : RxFrames(f[i], from, t, e, M)}
<1>5. P \in SUBSET (0 .. n) /\ 0 \in P
  BY <1>3
<1>6. ASSUME NEW i \in 1 .. n, i - 1 \in P PROVE i \in P
  <2>1. f[i - 1] \in RxRec /\ RxFrames(f[i - 1], from, t, e, M) /\ f[i] = Take(f[i - 1], q[i])
    BY <1>3, <1>6
  <2>2. RxFrames(f[i], from, t, e, M)
    BY <1>4, <2>1, TakeFrames
  <2> QED
    BY <2>2
<1>7. n \in P
  <2> HIDE DEF P
  <2>1. \A i \in 0 .. n : i \in P
    BY <1>5, <1>6, Upwards
  <2> QED
    BY <2>1
<1> QED
  BY <1>1, <1>2, <1>7


-----------------------------------------------------------------------------
(* What readData() makes of the ends of messages.                          *)

(* The first end among those that wait is h bytes away. *)
EndsFirst(h, from, to, t, e, M) ==
    /\ from + h \in M /\ from + h <= to
    /\ \A m \in M : from < m /\ m <= to => from + h <= m \/ (e /\ m = t)

LEMMA FirstEnd ==
    ASSUME NEW q \in Seq(Int), NEW avail, NEW from, NEW to \in Nat, NEW t \in Nat, NEW e,
           NEW M \in SUBSET Nat, Framed(q, avail, from, to, t, e, M), q # <<>>
    PROVE  Head(q) \in Nat \ {0} /\ EndsFirst(Head(q), from, to, t, e, M)
<1>1. PICK f : EndsAt(f, q, avail, from, to, t, e, M)
  BY DEF Framed
<1>2. PICK n \in Nat : n = Len(q) /\ n # 0 /\ Head(q) = q[1] /\ q[1] \in Int
  <2>1. Len(q) \in Nat /\ Len(q) # 0
    BY LenProperties, EmptySeq
  <2>2. Head(q) = q[1] /\ Head(q) \in Int
    BY HeadTailProperties
  <2> QED
    BY <2>1, <2>2, Zenon
<1>3. /\ f \in [0 .. n -> Nat] /\ f[0] = from /\ f[n] + avail = to /\ avail \in Nat
      /\ \A i \in 1 .. n : f[i - 1] < f[i] /\ f[i] = f[i - 1] + q[i]
      /\ \A i \in 1 .. n : f[i] \in M
      /\ \A m \in M : from < m /\ m <= to => (\E i \in 1 .. n : m = f[i]) \/ (e /\ m = t)
  BY <1>1, <1>2 DEF EndsAt, EndRun
<1>4. 1 \in 1 .. n /\ f[1 - 1] < f[1] /\ f[1] = f[1 - 1] + q[1] /\ f[1] \in M /\ f[1] \in Nat
  <2>1. 1 \in 1 .. n /\ 1 \in 0 .. n
    BY <1>2
  <2>2. f[1] \in Nat
    BY <1>3, <2>1
  <2> QED
    BY <1>3, <2>1, <2>2, Zenon
<1>5. f[0] < f[1] /\ f[1] = f[0] + q[1] /\ f[0] \in Nat
  BY <1>3, <1>4
<1>6. PICK a \in Nat, b \in Nat, h \in Int : /\ a = from /\ b = f[1] /\ h = Head(q)
                                             /\ a < b /\ b = a + h
  BY <1>2, <1>3, <1>4, <1>5
<1>7. h \in Nat \ {0}
  BY <1>6
<1> DEFINE P == {i \in 0 .. n : i \in 1 .. n => f[1] <= f[i]}
<1>8. P \in SUBSET (0 .. n) /\ 0 \in P
  OBVIOUS
<1>9. ASSUME NEW i \in 1 .. n, i - 1 \in P PROVE i \in P
  <2>1. f[i - 1] < f[i] /\ f[i - 1] \in Nat /\ f[i] \in Nat
    BY <1>3
  <2>2. CASE i = 1
    BY <1>4, <2>2
  <2>3. CASE i # 1
    <3>1. i - 1 \in 1 .. n
      BY <2>3
    <3>2. f[1] <= f[i - 1]
      BY <1>9, <3>1
    <3>3. f[1] <= f[i]
      BY <1>4, <2>1, <3>2
    <3> QED
      BY <3>3
  <2> QED
    BY <2>2, <2>3
<1>10. \A i \in 1 .. n : f[1] <= f[i]
  <2>1. \A i \in 0 .. n : i \in P
    <3> HIDE DEF P
    <3> QED
      BY <1>8, <1>9, Upwards
  <2> QED
    BY <2>1
<1>11. f[1] <= to
  <2>1. f[1] <= f[n] /\ f[n] \in Nat
    BY <1>2, <1>3, <1>10
  <2> QED
    BY <1>3, <1>4, <2>1
<1>12. ASSUME NEW m \in M, from < m, m <= to PROVE f[1] <= m \/ (e /\ m = t)
  BY <1>3, <1>10, <1>12
<1>13. h = Head(q) /\ f[1] = from + h
  BY <1>6
<1>14. EndsFirst(h, from, to, t, e, M)
  BY <1>4, <1>11, <1>12, <1>13 DEF EndsFirst
<1> QED
  BY <1>7, <1>13, <1>14

LEMMA NoEnd ==
    ASSUME NEW avail, NEW from \in Nat, NEW to \in Nat, NEW t \in Nat, NEW e,
           NEW M \in SUBSET Nat, Framed(<<>>, avail, from, to, t, e, M)
    PROVE  /\ avail \in Nat /\ from + avail = to
           /\ \A m \in M : from < m /\ m <= to => e /\ m = t
<1>1. PICK f : EndsAt(f, <<>>, avail, from, to, t, e, M)
  BY DEF Framed
<1>2. Len(<<>>) = 0
  OBVIOUS
<1> QED
  BY <1>1, <1>2 DEF EndsAt, EndRun

LEMMA FrameNone ==
    ASSUME NEW avail, NEW from \in Nat, NEW to \in Nat, NEW t \in Nat, NEW e,
           NEW M \in SUBSET Nat, Framed(<<>>, avail, from, to, t, e, M),
           NEW n \in Nat, from + n <= to
    PROVE  Framed(<<>>, avail - n, from + n, to, t, e, M)
<1>1. /\ avail \in Nat /\ from + avail = to
      /\ \A m \in M : from < m /\ m <= to => e /\ m = t
  BY NoEnd
<1> DEFINE g == [i \in 0 .. 0 |-> from + n]
<1>2. Len(<<>>) = 0 /\ g \in [0 .. 0 -> Nat] /\ g[0] = from + n /\ 1 .. 0 = {}
  OBVIOUS
<1>3. avail - n \in Nat /\ (from + n) + (avail - n) = to
  BY <1>1
<1>4. \A m \in M : from + n < m => from < m
  OBVIOUS
<1> HIDE DEF g
<1>5. EndsAt(g, <<>>, avail - n, from + n, to, t, e, M)
  BY <1>1, <1>2, <1>3, <1>4 DEF EndsAt, EndRun
<1> QED
  BY <1>5 DEF Framed

(* n bytes of the first message are read, but not all. *)
LEMMA FrameShorter ==
    ASSUME NEW q \in Seq(Int), NEW avail, NEW from \in Nat, NEW to \in Nat, NEW t \in Nat, NEW e,
           NEW M \in SUBSET Nat, Framed(q, avail, from, to, t, e, M), q # <<>>,
           NEW n \in Nat, n < Head(q)
    PROVE  /\ Framed(<<Head(q) - n>> \o Tail(q), avail, from + n, to, t, e, M)
           /\ Len(<<Head(q) - n>> \o Tail(q)) = Len(q)
<1>1. PICK f : EndsAt(f, q, avail, from, to, t, e, M)
  BY DEF Framed
<1>2. PICK k \in Nat : k = Len(q) /\ k # 0
  <2>1. Len(q) \in Nat /\ Len(q) # 0
    BY LenProperties, EmptySeq
  <2> QED
    BY <2>1, Zenon
<1>3. /\ f \in [0 .. k -> Nat] /\ f[0] = from /\ f[k] + avail = to /\ avail \in Nat
      /\ \A i \in 1 .. k : f[i - 1] < f[i] /\ f[i] = f[i - 1] + q[i]
      /\ \A i \in 1 .. k : f[i] \in M
      /\ \A m \in M : from < m /\ m <= to => (\E i \in 1 .. k : m = f[i]) \/ (e /\ m = t)
  BY <1>1, <1>2 DEF EndsAt, EndRun
<1>4. PICK h \in Int : h = Head(q) /\ h = q[1]
  BY HeadTailProperties
<1>5. PICK p \in Seq(Int) :
         /\ p = <<h - n>> \o Tail(q) /\ Len(p) = k /\ p[1] = h - n
         /\ \A i \in 2 .. k : p[i] = q[i]
  <2>1. /\ Tail(q) \in Seq(Int) /\ Len(Tail(q)) = k - 1
        /\ \A i \in 1 .. k - 1 : Tail(q)[i] = q[i + 1]
    BY <1>2, HeadTailProperties
  <2>2. PICK r \in Seq(Int) : r = Tail(q) /\ Len(r) = k - 1 /\ \A i \in 1 .. k - 1 : r[i] = q[i + 1]
    BY <2>1, Zenon
  <2>3. PICK c \in Seq(Int) : c = <<h - n>> /\ Len(c) = 1 /\ c[1] = h - n
    <3>1. PICK d \in Int : d = h - n
      OBVIOUS
    <3>2. <<d>> \in Seq(Int) /\ Len(<<d>>) = 1 /\ <<d>>[1] = d
      OBVIOUS
    <3> QED
      BY <3>1, <3>2, Zenon
  <2>4. PICK p \in Seq(Int) :
          /\ p = c \o r /\ Len(p) = 1 + (k - 1)
          /\ \A i \in 1 .. 1 + (k - 1) : p[i] = IF i <= 1 THEN c[i] ELSE r[i - 1]
    <3>1. /\ c \o r \in Seq(Int) /\ Len(c \o r) = Len(c) + Len(r)
          /\ \A i \in 1 .. Len(c) + Len(r) :
                (c \o r)[i] = IF i <= Len(c) THEN c[i] ELSE r[i - Len(c)]
      BY ConcatProperties, Zenon
    <3>2. PICK p \in Seq(Int) :
            /\ p = c \o r /\ Len(p) = Len(c) + Len(r)
            /\ \A i \in 1 .. Len(c) + Len(r) : p[i] = IF i <= Len(c) THEN c[i] ELSE r[i - Len(c)]
      BY <3>1, Zenon
    <3>3. Len(p) = 1 + (k - 1)
          /\ \A i \in 1 .. 1 + (k - 1) : p[i] = IF i <= 1 THEN c[i] ELSE r[i - 1]
      BY <2>2, <2>3, <3>2
    <3> QED
      BY <3>2, <3>3, Zenon
  <2>5. Len(p) = k /\ p[1] = h - n
    BY <1>2, <2>3, <2>4
  <2>6. ASSUME NEW i \in 2 .. k PROVE p[i] = q[i]
    <3>1. p[i] = r[i - 1]
      <4>1. i \in 1 .. 1 + (k - 1) /\ ~(i <= 1)
        BY <1>2
      <4> QED
        BY <2>4, <4>1
    <3>2. PICK j \in 1 .. k - 1 : j = i - 1 /\ j + 1 = i
      OBVIOUS
    <3> QED
      BY <2>2, <3>1, <3>2, Zenon
  <2> QED
    BY <2>2, <2>3, <2>4, <2>5, <2>6
<1>6. PICK c \in Nat : c = from + n /\ from <= c
  OBVIOUS
<1> DEFINE g == [i \in 0 .. k |-> IF i = 0 THEN c ELSE f[i]]
<1>7. g \in [0 .. k -> Nat] /\ g[0] = c /\ \A i \in 1 .. k : g[i] = f[i]
  <2>1. \A i \in 0 .. k : (IF i = 0 THEN c ELSE f[i]) \in Nat
    BY <1>3
  <2> QED
    BY <2>1
<1> HIDE DEF g
<1>8. ASSUME NEW i \in 1 .. k PROVE g[i - 1] < g[i] /\ g[i] = g[i - 1] + p[i] /\ g[i] \in M
  <2>0. g[i] = f[i] /\ f[i] \in Nat /\ f[i - 1] < f[i] /\ f[i] = f[i - 1] + q[i] /\ f[i] \in M
    <3>1. g[i] = f[i]
      BY <1>7
    <3>2. f[i] \in Nat /\ f[i - 1] < f[i] /\ f[i] = f[i - 1] + q[i] /\ f[i] \in M
      BY <1>3
    <3> QED
      BY <3>1, <3>2
  <2>1. CASE i = 1
    <3>1. g[i - 1] = c /\ f[i - 1] = from /\ p[i] = h - n /\ q[i] = h
      BY <1>3, <1>4, <1>5, <1>7, <2>1
    <3>2. PICK b \in Nat : b = g[i] /\ b = from + h /\ b \in M
      BY <2>0, <3>1
    <3>3. n < h /\ c = from + n
      BY <1>4, <1>6
    <3>4. c < b /\ b = c + (h - n)
      BY ONLY c \in Nat, b \in Nat, h \in Int, n \in Nat, from \in Nat, <3>2, <3>3
    <3> QED
      BY <3>1, <3>2, <3>4
  <2>2. CASE i # 1
    <3>1. i \in 2 .. k /\ i - 1 \in 1 .. k
      BY <2>2
    <3>2. g[i - 1] = f[i - 1] /\ p[i] = q[i]
      BY <1>5, <1>7, <3>1
    <3> QED
      BY <2>0, <3>2
  <2> QED
    BY <2>1, <2>2
<1>9. ASSUME NEW m \in M, c < m, m <= to
      PROVE  (\E i \in 1 .. k : m = g[i]) \/ (e /\ m = t)
  <2>1. from < m
    BY <1>6, <1>9
  <2>2. (\E i \in 1 .. k : m = f[i]) \/ (e /\ m = t)
    BY <1>3, <1>9, <2>1
  <2>3. \A i \in 1 .. k : g[i] = f[i]
    BY <1>7
  <2> QED
    BY <2>2, <2>3
<1>10. EndsAt(g, p, avail, c, to, t, e, M)
  <2>1. g[Len(p)] + avail = to /\ EndRun(g, p, c)
    <3>1. k \in 1 .. k /\ g[k] = f[k]
      <4>1. k \in 1 .. k
        BY <1>2
      <4> QED
        BY <1>7, <4>1
    <3> QED
      BY <1>3, <1>5, <1>7, <1>8, <3>1 DEF EndRun
  <2>2. \A i \in 1 .. Len(p) : g[i] \in M
    BY <1>5, <1>8
  <2>3. \A m \in M : c < m /\ m <= to => (\E i \in 1 .. Len(p) : m = g[i]) \/ (e /\ m = t)
    BY <1>5, <1>9
  <2> QED
    BY <1>3, <2>1, <2>2, <2>3, Zenon DEF EndsAt
<1> QED
  BY <1>2, <1>4, <1>5, <1>6, <1>10 DEF Framed

(* The first message is read to its end. *)
LEMMA FrameEnded ==
    ASSUME NEW q \in Seq(Int), NEW avail, NEW from \in Nat, NEW to \in Nat, NEW t \in Nat, NEW e,
           NEW M \in SUBSET Nat, Framed(q, avail, from, to, t, e, M), q # <<>>
    PROVE  /\ Framed(Tail(q), avail, from + Head(q), to, t, e, M)
           /\ Len(Tail(q)) = Len(q) - 1 /\ Len(q) \in Nat /\ Tail(q) \in Seq(Int)
<1>1. PICK f : EndsAt(f, q, avail, from, to, t, e, M)
  BY DEF Framed
<1>2. PICK k \in Nat : k + 1 = Len(q)
  <2>1. Len(q) \in Nat /\ Len(q) # 0
    BY LenProperties, EmptySeq
  <2>2. Len(q) - 1 \in Nat /\ (Len(q) - 1) + 1 = Len(q)
    BY <2>1
  <2> QED
    BY <2>2, Zenon
<1>3. /\ f \in [0 .. k + 1 -> Nat] /\ f[0] = from /\ f[k + 1] + avail = to /\ avail \in Nat
      /\ \A i \in 1 .. k + 1 : f[i - 1] < f[i] /\ f[i] = f[i - 1] + q[i]
      /\ \A i \in 1 .. k + 1 : f[i] \in M
      /\ \A m \in M : from < m /\ m <= to => (\E i \in 1 .. k + 1 : m = f[i]) \/ (e /\ m = t)
  BY <1>1, <1>2 DEF EndsAt, EndRun
<1>4. PICK p \in Seq(Int) : /\ p = Tail(q) /\ Len(p) = k
                            /\ \A i \in 1 .. k : p[i] = q[i + 1]
  <2>1. /\ Tail(q) \in Seq(Int) /\ Len(Tail(q)) = Len(q) - 1
        /\ \A i \in 1 .. Len(q) - 1 : Tail(q)[i] = q[i + 1]
    BY HeadTailProperties
  <2>2. Len(q) - 1 = k
    BY <1>2
  <2> QED
    BY <2>1, <2>2, Zenon
<1>5. PICK c \in Nat : c = from + Head(q) /\ c = f[1] /\ from < c
  <2>1. Head(q) = q[1] /\ 1 \in 1 .. k + 1
    BY HeadTailProperties
  <2>2. f[1 - 1] < f[1] /\ f[1] = f[1 - 1] + q[1] /\ f[1] \in Nat
    BY <1>3, <2>1
  <2> QED
    BY <1>3, <2>1, <2>2
<1> DEFINE g == [i \in 0 .. k |-> f[i + 1]]
<1>6. g \in [0 .. k -> Nat] /\ \A i \in 0 .. k : g[i] = f[i + 1]
  <2>1. \A i \in 0 .. k : f[i + 1] \in Nat
    BY <1>3
  <2> QED
    BY <2>1
<1> HIDE DEF g
<1>7. g[0] = c /\ g[k] = f[k + 1]
  BY <1>5, <1>6
<1>8. ASSUME NEW i \in 1 .. k PROVE g[i - 1] < g[i] /\ g[i] = g[i - 1] + p[i] /\ g[i] \in M
  <2>1. PICK j \in 1 .. k + 1 : j = i + 1 /\ j - 1 = i
    OBVIOUS
  <2>2. g[i] = f[j] /\ p[i] = q[j]
    <3>1. i \in 0 .. k
      OBVIOUS
    <3>2. g[i] = f[i + 1] /\ p[i] = q[i + 1]
      BY <1>4, <1>6, <3>1, Zenon
    <3> QED
      BY <2>1, <3>2, Zenon
  <2>3. g[i - 1] = f[j - 1]
    <3>1. i - 1 \in 0 .. k /\ (i - 1) + 1 = i
      OBVIOUS
    <3> QED
      BY <1>6, <2>1, <3>1
  <2> QED
    BY <1>3, <2>1, <2>2, <2>3
<1>9. ASSUME NEW m \in M, c < m, m <= to
      PROVE  (\E i \in 1 .. k : m = g[i]) \/ (e /\ m = t)
  <2>1. from < m
    BY <1>5, <1>9
  <2>2. CASE e /\ m = t
    BY <2>2
  <2>3. ASSUME NEW j \in 1 .. k + 1, m = f[j] PROVE \E i \in 1 .. k : m = g[i]
    <3>1. j # 1
      BY <1>5, <1>9, <2>3
    <3>2. PICK i \in 1 .. k : j = i + 1
      <4>1. j - 1 \in 1 .. k /\ j = (j - 1) + 1
        BY <3>1
      <4> QED
        BY <4>1, Zenon
    <3>3. m = g[i]
      BY <1>6, <2>3, <3>2
    <3> QED
      BY <3>3
  <2>4. (\E j \in 1 .. k + 1 : m = f[j]) \/ (e /\ m = t)
    BY <1>3, <1>9, <2>1
  <2> QED
    BY <2>2, <2>3, <2>4
<1>10. EndsAt(g, p, avail, c, to, t, e, M)
  <2>1. g[Len(p)] + avail = to /\ EndRun(g, p, c)
    BY <1>3, <1>4, <1>6, <1>7, <1>8 DEF EndRun
  <2>2. \A i \in 1 .. Len(p) : g[i] \in M
    BY <1>4, <1>8
  <2>3. \A m \in M : c < m /\ m <= to => (\E i \in 1 .. Len(p) : m = g[i]) \/ (e /\ m = t)
    BY <1>4, <1>9
  <2> QED
    BY <1>3, <2>1, <2>2, <2>3, Zenon DEF EndsAt
<1> QED
  BY <1>2, <1>4, <1>5, <1>10 DEF Framed

(* What a turn of the loop in readData() does about messages. *)
KeepsFrames(rd, new) ==
    /\ new.rmsgsize = rd.rmsgsize /\ new.rmsgavail = rd.rmsgavail
    /\ new.closed = rd.closed /\ new.stopped = rd.stopped

ReadsFrame(rd, s, new) ==
    \/ /\ rd.rmsgsize = <<>> /\ new.rmsgsize = <<>>
       /\ new.rmsgavail = rd.rmsgavail - s.size
       /\ (new.closed <=> "close" \in s.flags)
    \/ /\ rd.rmsgsize # <<>> /\ Head(rd.rmsgsize) - s.size = 0
       /\ new.rmsgsize = Tail(rd.rmsgsize) /\ new.rmsgavail = rd.rmsgavail
       /\ new.closed = rd.closed /\ new.stopped
    \/ /\ rd.rmsgsize # <<>> /\ Head(rd.rmsgsize) - s.size # 0
       /\ new.rmsgsize = <<Head(rd.rmsgsize) - s.size>> \o Tail(rd.rmsgsize)
       /\ new.rmsgavail = rd.rmsgavail
       /\ (new.closed <=> "close" \in s.flags)

LEMMA ReadMarks ==
    ASSUME NEW rd \in RdRec, NEW s \in Segment, ReadSegment(rd, s).fits
    PROVE  \/ Leaves(rd, s, ReadSegment(rd, s)) /\ KeepsFrames(rd, ReadSegment(rd, s))
           \/ Hands(rd, s, ReadSegment(rd, s)) /\ ReadsFrame(rd, s, ReadSegment(rd, s))
<1> DEFINE head == Head(rd.rmsgsize) - s.size
           out == [rd EXCEPT !.room = @ - s.size, !.ravail = @ - s.size, !.got = @ + s.size]
           cl == "close" \in s.flags
           x == IF rd.rmsgsize = <<>>
                THEN [out EXCEPT !.rmsgavail = @ - s.size, !.closed = cl, !.stopped = cl]
                ELSE IF head = 0
                THEN [out EXCEPT !.rmsgsize = Tail(@), !.stopped = TRUE]
                ELSE [out EXCEPT !.rmsgsize = <<head>> \o Tail(@),
                                 !.closed = cl, !.stopped = cl]
<1>2. CASE Halted(rd)
  <2>1. ReadSegment(rd, s) = [rd EXCEPT !.rsegs = Append(@, s)]
    BY <1>2 DEF ReadSegment, Halted
  <2>2. KeepsFrames(rd, ReadSegment(rd, s))
    BY <2>1 DEF KeepsFrames, RdRec
  <2>3. Leaves(rd, s, ReadSegment(rd, s))
    BY <1>2, <2>1 DEF Leaves, Halted, RdRec
  <2> QED
    BY <2>2, <2>3
<1>3. CASE ~Halted(rd) /\ rd.room < s.size
  <2>1. ReadSegment(rd, s) = [rd EXCEPT !.fits = FALSE, !.stopped = TRUE]
    BY <1>3 DEF ReadSegment, Halted
  <2>2. ReadSegment(rd, s).fits = FALSE
    BY <2>1 DEF RdRec
  <2> QED
    BY <2>2
<1>4. CASE ~Halted(rd) /\ ~(rd.room < s.size)
  <2>1. ReadSegment(rd, s) = x
    BY <1>4 DEF ReadSegment, Halted
  <2>2. Hands(rd, s, ReadSegment(rd, s))
    BY <1>4, ReadDoes DEF Leaves
  <2>3. /\ rd.room - s.size \in Int /\ rd.ravail - s.size \in Int /\ rd.got + s.size \in Nat
    <3>1. rd.ravail \in Int /\ rd.got \in Nat /\ rd.room \in Int /\ s.size \in Nat
      BY DEF RdRec, Segment
    <3> QED
      BY ONLY <3>1
  <2>5. /\ out \in RdRec /\ out.rmsgsize = rd.rmsgsize /\ out.rmsgavail = rd.rmsgavail
        /\ out.closed = rd.closed
    BY <2>3 DEF RdRec
  <2> HIDE DEF out, cl, head
  <2>4. ReadsFrame(rd, s, x)
    <3>1. CASE rd.rmsgsize = <<>>
      <4>1. x = [out EXCEPT !.rmsgavail = @ - s.size, !.closed = cl, !.stopped = cl]
        BY <3>1
      <4>2. x.rmsgsize = rd.rmsgsize /\ x.rmsgavail = rd.rmsgavail - s.size /\ x.closed = cl
        BY <2>5, <4>1 DEF RdRec
      <4> QED
        BY <3>1, <4>2 DEF ReadsFrame, cl
    <3>2. CASE rd.rmsgsize # <<>> /\ head = 0
      <4>1. x = [out EXCEPT !.rmsgsize = Tail(@), !.stopped = TRUE]
        BY <3>2
      <4>2. /\ x.rmsgsize = Tail(rd.rmsgsize) /\ x.rmsgavail = rd.rmsgavail
            /\ x.closed = rd.closed /\ x.stopped = TRUE
        BY <2>5, <4>1 DEF RdRec
      <4> QED
        BY <3>2, <4>2 DEF ReadsFrame, head
    <3>3. CASE rd.rmsgsize # <<>> /\ head # 0
      <4>1. x = [out EXCEPT !.rmsgsize = <<head>> \o Tail(@), !.closed = cl, !.stopped = cl]
        BY <3>3
      <4>2. /\ x.rmsgsize = <<head>> \o Tail(rd.rmsgsize) /\ x.rmsgavail = rd.rmsgavail
            /\ x.closed = cl
        BY <2>5, <4>1 DEF RdRec
      <4> QED
        BY <3>3, <4>2 DEF ReadsFrame, head, cl
    <3> QED
      BY <3>1, <3>2, <3>3
  <2> QED
    BY <2>1, <2>2, <2>4
<1> QED
  BY <1>2, <1>3, <1>4

(* What a read that began at from, with k messages waiting, keeps true.  z   *)
(* says that a segment with the close flag may be among those that wait.     *)
RdFrames(rd, from, to, t, e, M, k, z) ==
    /\ Framed(rd.rmsgsize, rd.rmsgavail, from + rd.got, to, t, e, M)
    /\ ~rd.closed
    /\ Len(rd.rmsgsize) <= k /\ (Len(rd.rmsgsize) < k => rd.stopped)
    /\ \A m \in M : from < m => from + rd.got <= m
    /\ Len(rd.rmsgsize) = k =>
         \A m \in M : from < m => from + rd.got < m \/ from + rd.got = to
    /\ \A s \in Range(rd.rsegs) : WellMarked(s, t, e, M) /\ ("close" \in s.flags => z)
    /\ z => rd.rmsgavail = 0

LEMMA ReadFrames ==
    ASSUME NEW rd \in RdRec, NEW s \in Segment, ReadSegment(rd, s).fits,
           NEW from \in Nat, NEW to \in Nat, NEW t \in Nat, NEW e, NEW M \in SUBSET (0 .. t),
           NEW k \in Nat, NEW z,
           ReadsOn(rd, from, to, s.tsn), s.tsn + s.size <= to, to <= t,
           RdFrames(rd, from, to, t, e, M, k, z),
           WellMarked(s, t, e, M), "close" \in s.flags => z
    PROVE  RdFrames(ReadSegment(rd, s), from, to, t, e, M, k, z)
<1>1. PICK new \in RdRec :
        /\ new = ReadSegment(rd, s)
        /\ \/ Leaves(rd, s, new) /\ KeepsFrames(rd, new)
           \/ Hands(rd, s, new) /\ ReadsFrame(rd, s, new)
  BY ReadDoes, ReadMarks, Zenon
<1>2. /\ rd.rsegs \in Seq(Segment) /\ rd.rmsgsize \in Seq(Int) /\ rd.got \in Nat
      /\ rd.ravail \in Int /\ s.size \in Nat /\ s.tsn \in Nat
  BY DEF RdRec, Segment
<1>3. M \in SUBSET Nat /\ \A m \in M : m <= t
  OBVIOUS
<1>4. CASE Leaves(rd, s, new) /\ KeepsFrames(rd, new)
  <2>1. Range(new.rsegs) = Range(rd.rsegs) \cup {s}
    BY <1>2, <1>4, RangeAppend DEF Leaves
  <2>2. /\ new.got = rd.got /\ new.rmsgsize = rd.rmsgsize /\ new.rmsgavail = rd.rmsgavail
        /\ new.closed = rd.closed /\ new.stopped = rd.stopped
    BY <1>4 DEF Leaves, KeepsFrames
  <2> QED
    BY <1>1, <2>1, <2>2 DEF RdFrames
<1>5. CASE Hands(rd, s, new) /\ ReadsFrame(rd, s, new)
  <2>1. /\ ~rd.stopped /\ rd.ravail # 0 /\ rd.rsegs = <<>> /\ new.rsegs = <<>>
        /\ new.got = rd.got + s.size
    BY <1>5 DEF Hands, Halted, ReadsOn
  <2>2. PICK c \in Nat : c = from + rd.got /\ c = s.tsn /\ c # to
    <3>1. from + rd.got = s.tsn /\ from + rd.got + rd.ravail = to
      BY <2>1 DEF ReadsOn, Contiguous
    <3> QED
      BY <1>2, <2>1, <3>1
  <2>3. PICK n \in Nat : n = s.size /\ from + new.got = c + n /\ c + n <= to
    BY <1>2, <2>1, <2>2
  <2>4. PICK q, v : /\ q \in Seq(Int) /\ q = rd.rmsgsize /\ v = rd.rmsgavail
                    /\ Framed(q, v, c, to, t, e, M)
    BY <1>2, <2>2 DEF RdFrames
  <2>5. Len(q) = k
    <3>1. Len(q) \in Nat /\ Len(q) <= k /\ ~(Len(q) < k)
      BY <2>1, <2>4, LenProperties DEF RdFrames
    <3> QED
      BY <3>1
  <2>6. \A m \in M : from < m => c < m
    BY <2>2, <2>4, <2>5 DEF RdFrames
  <2>7. \A m \in M : c < m => c + n <= m
    BY <2>2, <2>3 DEF WellMarked
  <2>8. \A m \in M : from < m => c + n <= m
    BY <2>6, <2>7
  <2>9. "close" \in s.flags => c + n = t /\ z
    BY <2>2, <2>3 DEF WellMarked
  <2>10. z => v = 0
    BY <2>4 DEF RdFrames
  <2>11. Range(new.rsegs) = {}
    BY <2>1 DEF Range
  <2>12. ~rd.closed
    BY DEF RdFrames
  <2>13. CASE q = <<>>
    <3>1. /\ v \in Nat /\ c + v = to
          /\ \A m \in M : c < m /\ m <= to => e /\ m = t
      <4>1. M \in SUBSET Nat
        BY <1>3
      <4>2. Framed(<<>>, v, c, to, t, e, M)
        BY <2>4, <2>13
      <4> QED
        BY <4>1, <4>2, NoEnd, Zenon
    <3>2. v # 0
      BY <2>2, <3>1
    <3>3. ~z /\ "close" \notin s.flags
      BY <2>9, <2>10, <3>2
    <3>4. new.rmsgsize = <<>> /\ new.rmsgavail = v - n /\ ~new.closed
      BY <1>5, <2>3, <2>4, <2>13, <3>3 DEF ReadsFrame
    <3>5. Framed(<<>>, v - n, c + n, to, t, e, M)
      BY <1>3, <2>3, <2>4, <2>13, FrameNone
    <3>6. ASSUME NEW m \in M, from < m PROVE c + n < m \/ c + n = to
      <4>1. m \in Nat /\ c < m /\ c + n <= m
        BY <1>3, <2>6, <2>8, <3>6
      <4>2. CASE c + n = m
        <5>1. m = t
          BY <2>3, <3>1, <4>1, <4>2
        <5> QED
          BY <2>3, <4>2, <5>1
      <4>3. CASE c + n # m
        BY <4>1, <4>3
      <4> QED
        BY <4>2, <4>3
    <3>7. Framed(new.rmsgsize, new.rmsgavail, from + new.got, to, t, e, M)
      BY <2>3, <3>4, <3>5
    <3>8. Len(new.rmsgsize) = k
      BY <2>5, <2>13, <3>4
    <3> QED
      BY <1>1, <2>3, <2>8, <2>11, <3>3, <3>4, <3>6, <3>7, <3>8 DEF RdFrames
  <2>14. CASE q # <<>>
    <3>1. PICK h \in Nat \ {0} :
            /\ h = Head(q) /\ c + h \in M /\ c + h <= to
            /\ \A m \in M : c < m /\ m <= to => c + h <= m \/ (e /\ m = t)
      <4>1. M \in SUBSET Nat
        BY <1>3
      <4>2. Head(q) \in Nat \ {0} /\ EndsFirst(Head(q), c, to, t, e, M)
        BY <2>4, <2>14, <4>1, FirstEnd, Zenon
      <4> QED
        BY <4>2, Zenon DEF EndsFirst
    <3>2. n <= h
      BY <2>7, <3>1
    <3>3. CASE h - n = 0
      <4>1. new.rmsgsize = Tail(q) /\ new.rmsgavail = v /\ ~new.closed /\ new.stopped
        BY <1>5, <2>3, <2>4, <2>12, <2>14, <3>1, <3>3 DEF ReadsFrame
      <4>2. h = n
        BY <3>3
      <4>3. Framed(Tail(q), v, c + n, to, t, e, M) /\ Len(Tail(q)) = k - 1
        BY <1>3, <2>4, <2>5, <2>14, <3>1, <4>2, FrameEnded
      <4>4. Framed(new.rmsgsize, new.rmsgavail, from + new.got, to, t, e, M)
        BY <2>3, <4>1, <4>3
      <4>5. Len(new.rmsgsize) = k - 1 /\ k - 1 <= k /\ k - 1 # k
        BY <4>1, <4>3
      <4> QED
        BY <1>1, <2>3, <2>8, <2>10, <2>11, <4>1, <4>4, <4>5 DEF RdFrames
    <3>4. CASE h - n # 0
      <4>1. n < h
        BY <3>2, <3>4
      <4>2. "close" \notin s.flags
        BY <2>9, <3>1, <4>1
      <4>3. new.rmsgsize = <<h - n>> \o Tail(q) /\ new.rmsgavail = v /\ ~new.closed
        BY <1>5, <2>3, <2>4, <2>14, <3>1, <3>4, <4>2 DEF ReadsFrame
      <4>4. Framed(<<h - n>> \o Tail(q), v, c + n, to, t, e, M) /\ Len(<<h - n>> \o Tail(q)) = k
        BY <1>3, <2>4, <2>5, <2>14, <3>1, <4>1, FrameShorter
      <4>5. Framed(new.rmsgsize, new.rmsgavail, from + new.got, to, t, e, M)
        BY <2>3, <4>3, <4>4
      <4>6. ASSUME NEW m \in M, from < m PROVE c + n < m \/ c + n = to
        <5>1. m \in Nat /\ c < m /\ c + n <= m
          BY <1>3, <2>6, <2>8, <4>6
        <5>2. CASE c + n = m
          <6>1. m <= to /\ ~(c + h <= m)
            BY <2>3, <4>1, <5>2
          <6>2. m = t
            BY <3>1, <5>1, <6>1
          <6> QED
            BY <2>3, <5>2, <6>2
        <5>3. CASE c + n # m
          BY <5>1, <5>3
        <5> QED
          BY <5>2, <5>3
      <4>7. Len(new.rmsgsize) = k
        BY <4>3, <4>4
      <4> QED
        BY <1>1, <2>3, <2>8, <2>10, <2>11, <4>3, <4>5, <4>6, <4>7, SMTT(20) DEF RdFrames
    <3> QED
      BY <3>3, <3>4
  <2> QED
    BY <2>13, <2>14
<1> QED
  BY <1>1, <1>4, <1>5

LEMMA ContiguousWithin ==
    ASSUME NEW q \in Seq(Segment), NEW from, NEW to \in Nat, Contiguous(q, from, to)
    PROVE  \A i \in 1 .. Len(q) : q[i].tsn + q[i].size <= to
<1>1. PICK n \in Nat : n = Len(q) /\ DOMAIN q = 1 .. n
  BY LenProperties
<1>2. \A i \in 1 .. n : q[i].tsn \in Nat /\ q[i].size \in Nat
  <2>1. \A i \in 1 .. n : q[i] \in Segment
    BY <1>1, ElementOfSeq
  <2> QED
    BY <2>1 DEF Segment
<1>3. n # 0 => q[n].tsn + q[n].size = to
  <2>1. n # 0 => q # <<>>
    BY <1>1, EmptySeq
  <2> QED
    BY <1>1, <2>1 DEF Contiguous, Last
<1>4. \A i \in 1 .. n : i # 1 => q[i].tsn = q[i - 1].tsn + q[i - 1].size
  BY <1>1 DEF Contiguous
<1> DEFINE P == {j \in 0 .. n : j < n => q[n - j].tsn + q[n - j].size <= to}
<1>5. P \in SUBSET (0 .. n) /\ 0 \in P
  BY <1>3
<1>6. ASSUME NEW j \in 1 .. n, j - 1 \in P PROVE j \in P
  <2>1. ASSUME j < n PROVE q[n - j].tsn + q[n - j].size <= to
    <3>1. PICK i \in 1 .. n : i = n - (j - 1) /\ i - 1 = n - j /\ i # 1 /\ i - 1 \in 1 .. n
      BY <2>1
    <3>2. q[i].tsn + q[i].size <= to
      BY <1>6, <3>1
    <3>3. q[i].tsn = q[i - 1].tsn + q[i - 1].size
      BY <1>4, <3>1
    <3>4. q[i].tsn \in Nat /\ q[i].size \in Nat
      BY <1>2
    <3>5. q[i].tsn <= to
      BY <3>2, <3>4
    <3> QED
      BY <3>1, <3>3, <3>5
  <2> QED
    BY <2>1
<1>7. \A j \in 0 .. n : j \in P
  <2> HIDE DEF P
  <2> QED
    BY <1>5, <1>6, Upwards
<1>8. ASSUME NEW i \in 1 .. n PROVE q[i].tsn + q[i].size <= to
  <2>1. PICK j \in 0 .. n : j = n - i /\ j < n /\ n - j = i
    OBVIOUS
  <2>2. q[n - j].tsn + q[n - j].size <= to
    BY <1>7, <2>1
  <2> QED
    BY <2>1, <2>2
<1> QED
  BY <1>1, <1>8

(* A whole read, that finds the bytes from where it is to to. *)
LEMMA ReadAllFrames ==
    ASSUME NEW rd \in RdRec, NEW room \in Int, Reading(rd, room).fits,
           NEW from \in Nat, NEW to \in Nat, NEW t \in Nat, NEW e, NEW M \in SUBSET (0 .. t),
           NEW k \in Nat, NEW z, to <= t, Continues(rd, from, to),
           Len(rd.rmsgsize) = k, RdFrames(rd, from, to, t, e, M, k, z)
    PROVE  RdFrames(Reading(rd, room), from, to, t, e, M, k, z)
<1> DEFINE base == [rd EXCEPT !.rsegs = <<>>, !.room = room, !.stopped = FALSE]
<1>1. PICK q \in Seq(Segment) : q = rd.rsegs
  BY DEF RdRec
<1>2. rd.got \in Nat /\ rd.ravail \in Int
  BY DEF RdRec
<1>3. /\ base \in RdRec /\ base.rsegs = <<>> /\ base.got = rd.got /\ base.ravail = rd.ravail
      /\ base.rmsgsize = rd.rmsgsize /\ base.rmsgavail = rd.rmsgavail /\ base.closed = rd.closed
  <2>1. <<>> \in Seq(Segment)
    OBVIOUS
  <2> QED
    BY <2>1 DEF RdRec
<1>4. Reading(rd, room) = FoldLeft(ReadSegment, base, q)
  BY <1>1 DEF Reading
<1> HIDE DEF base
<1>5. PICK f : ReadRun(f, base, q) /\ FoldLeft(ReadSegment, base, q) = f[Len(q)]
  BY <1>3, ReadRuns
<1>7. PICK n \in Nat : n = Len(q) /\ DOMAIN q = 1 .. n
  BY LenProperties
<1>8. /\ f \in [0 .. n -> RdRec] /\ f[0] = base
      /\ \A i \in 1 .. n : f[i] = ReadSegment(f[i - 1], q[i])
  BY <1>5, <1>7 DEF ReadRun
<1>9. \A i \in 1 .. n : /\ q[i] \in Segment /\ WellMarked(q[i], t, e, M)
                        /\ "close" \in q[i].flags => z
  <2>1. \A i \in 1 .. n : q[i] \in Segment
    BY <1>7, ElementOfSeq
  <2>2. \A i \in 1 .. n : q[i] \in Range(q)
    BY <1>7 DEF Range
  <2> QED
    BY <1>1, <2>1, <2>2 DEF RdFrames
<1>10. from + rd.got + rd.ravail = to /\ Contiguous(q, from + rd.got, to)
  BY <1>1 DEF Continues
<1>11. \A i \in 1 .. n : q[i].tsn + q[i].size <= to
  BY <1>7, <1>10, ContiguousWithin
<1> DEFINE pos(i) == Position(q, from + rd.got, i)
           J(i) == /\ ReadsOn(f[i], from, to, pos(i))
                   /\ RdFrames(f[i], from, to, t, e, M, k, z)
           B == {i \in 0 .. n : f[i].fits => J(i)}
<1>12. B \in SUBSET (0 .. n)
  OBVIOUS
<1>13. 0 \in B
  <2>1. ReadsOn(base, from, to, from + rd.got)
    BY <1>3, <1>10 DEF ReadsOn, Contiguous
  <2>2. Range(base.rsegs) = {}
    BY <1>3 DEF Range
  <2>3. RdFrames(base, from, to, t, e, M, k, z)
    BY <1>3, <2>2 DEF RdFrames
  <2> QED
    BY <1>8, <2>1, <2>3 DEF Position
<1>14. ASSUME NEW i \in 1 .. n, i - 1 \in B PROVE i \in B
  <2>1. PICK r \in RdRec, s \in Segment :
          /\ r = f[i - 1] /\ s = q[i] /\ WellMarked(s, t, e, M) /\ ("close" \in s.flags => z)
          /\ s.tsn + s.size <= to
    <3>1. f[i - 1] \in RdRec /\ q[i] \in Segment
      BY <1>8, <1>9
    <3> QED
      BY <1>9, <1>11, <3>1, Zenon
  <2>2. f[i] = ReadSegment(r, s)
    BY <1>8, <2>1
  <2>3. s.tsn = pos(i - 1)
    BY <1>7, <1>10, <2>1 DEF Contiguous, Position
  <2>4. s.tsn \in Nat /\ s.size \in Nat
    BY DEF Segment
  <2>5. pos(i) = s.tsn + s.size
    BY <2>1 DEF Position
  <2> HIDE DEF pos
  <2>6. ASSUME f[i].fits PROVE J(i)
    <3>1. r.fits
      BY <2>2, <2>6, ReadDoes
    <3>2. ReadsOn(r, from, to, s.tsn) /\ RdFrames(r, from, to, t, e, M, k, z)
      BY <1>14, <2>1, <2>3, <3>1
    <3>3. ReadsOn(f[i], from, to, s.tsn + s.size)
      BY <2>2, <2>4, <2>6, <3>2, ReadOrder
    <3>4. RdFrames(f[i], from, to, t, e, M, k, z)
      BY <2>1, <2>2, <2>6, <3>2, ReadFrames, SMTT(20)
    <3> QED
      BY <2>5, <3>3, <3>4
  <2> QED
    BY <2>6
<1>15. n \in B
  <2> HIDE DEF B
  <2>1. \A i \in 0 .. n : i \in B
    BY <1>12, <1>13, <1>14, Upwards
  <2> QED
    BY <2>1
<1> QED
  BY <1>4, <1>5, <1>7, <1>15


-----------------------------------------------------------------------------
(* The invariant of the two halves, and what a step does to the bytes read. *)

RxFramed ==
    /\ rsn <= tasn
    /\ \A s \in Range(rahead) \cup Range(rsegs) : WellMarked(s, tasn, endwrite, marks)
    /\ \A s \in Range(rsegs) : "close" \in s.flags => rmsgavail = 0 /\ rsn = tasn
    /\ endread => rsegs = <<>> /\ rahead = <<>>
    /\ ~endread => Framed(rmsgsize, rmsgavail, consumed, rsn, tasn, endwrite, marks)

FrameInv ==
    /\ tasn \in Nat /\ endwrite \in BOOLEAN /\ marks \in SUBSET (0 .. tasn)
    /\ \A s \in Sent : WellMarked(s, tasn, endwrite, marks)
    /\ RxFramed

(* What a step may do to the reader: nothing, hand it bytes of one message,  *)
(* or tell it of the end of the stream, behind the last byte.                *)
ReadsOneMessage ==
    /\ ~endread /\ ended' = ended
    /\ consumed' > consumed /\ consumed' <= tasn
    /\ \A m \in marks : consumed < m => consumed' <= m

SeesEnd ==
    /\ ~endread /\ ended' = "peer" /\ consumed' = consumed
    /\ endwrite /\ consumed = tasn

ReaderKept == UNCHANGED <<consumed, ended>> \/ ReadsOneMessage \/ SeesEnd

WriterStill == UNCHANGED <<tasn, endwrite, marks>>

LEMMA InOrderFrames ==
    ASSUME RxInv, FrameInv, ~endread, NEW s \in Segment, s.tsn <= rsn, RxInOrder(s),
           WellMarked(s, tasn, endwrite, marks), UNCHANGED consumed, WriterStill
    PROVE  RxFramed' /\ ReaderKept
<1> DEFINE base == [rsn |-> rsn, rsegs |-> rsegs, rahead |-> <<>>,
                    ravail |-> ravail, rbufused |-> rbufused + s.size,
                    rmsgsize |-> rmsgsize, rmsgavail |-> rmsgavail, closed |-> FALSE]
           q == <<s>> \o rahead
<1>1. RxTyped /\ BufferAccounting /\ Ordered
  BY DEF RxInv
<1>2. s.size \in Nat
  BY DEF Segment
<1>3. base \in RxRec
  BY <1>1, <1>2 DEF RxTyped, RxRec
<1>4. base.rsn = rsn /\ base.rsegs = rsegs /\ base.rahead = <<>> /\ base.ravail = ravail
      /\ base.rbufused = rbufused + s.size /\ base.rmsgsize = rmsgsize
      /\ base.rmsgavail = rmsgavail /\ base.closed = FALSE
  OBVIOUS
<1>5. q \in Seq(Segment) /\ Sorted(q) /\ SizeOf(rahead) \in Nat
      /\ SizeOf(q) = SizeOf(rahead) + s.size
  BY <1>1, SortedAhead DEF RxTyped, Ordered
<1>6. PICK rx : rx = FoldLeft(Take, base, q)
  OBVIOUS
<1>7. /\ rsn' = rx.rsn
      /\ IF EndsNow(rx)
         THEN EndRead("peer")
         ELSE /\ rsegs' = rx.rsegs /\ rahead' = rx.rahead
              /\ ravail' = rx.ravail /\ rbufused' = rx.rbufused
              /\ rmsgsize' = rx.rmsgsize /\ rmsgavail' = rx.rmsgavail
              /\ UNCHANGED ended
  BY <1>6 DEF RxInOrder
<1>8. Range(q) \subseteq {s} \cup Range(rahead)
  <2>1. <<s>> \in Seq(Segment) /\ Range(<<s>>) = {s}
    BY DEF Range
  <2>2. Range(<<s>> \o rahead) = Range(<<s>>) \cup Range(rahead)
    <3>1. rahead \in Seq(Segment)
      BY <1>1 DEF RxTyped
    <3>2. PICK c \in Seq(Segment), d \in Seq(Segment) : c = <<s>> /\ d = rahead
      BY <2>1, <3>1
    <3>3. Range(c \o d) = Range(c) \cup Range(d)
      BY RangeOfConcat
    <3> QED
      BY <3>2, <3>3
  <2> QED
    BY <2>1, <2>2
<1> HIDE DEF base, q
<1>9. InOrder(base, consumed)
  <2>1. Beyond(base.rahead, rsn)
    BY <1>4 DEF Beyond
  <2> QED
    BY <1>1, <1>4, <2>1 DEF InOrder, Ordered
<1>10. Unplaced(base) = SizeOf(q)
  <2>1. SizeOf(rsegs) \in Nat
    BY <1>1, SizeConcat DEF RxTyped
  <2>2. Unplaced(base) = (rbufused + s.size) - SizeOf(rsegs) - 0
    BY <1>4, SizeEmpty DEF Unplaced
  <2>3. rbufused = SizeOf(rsegs) + SizeOf(rahead)
    BY <1>1 DEF BufferAccounting
  <2> QED
    BY <1>2, <1>5, <2>1, <2>2, <2>3
<1>11. rx \in RxRec /\ InOrder(rx, consumed)
  BY <1>1, <1>3, <1>4, <1>5, <1>6, <1>9, <1>10, TakeAll DEF RxTyped
<1>12. tasn \in Nat /\ marks \in SUBSET Nat
  BY DEF FrameInv
<1>13. RxFrames(base, consumed, tasn, endwrite, marks)
  <2>1. Range(base.rahead) = {}
    BY <1>4 DEF Range
  <2> QED
    BY <1>4, <2>1 DEF RxFrames, FrameInv, RxFramed
<1>14. RxFrames(rx, consumed, tasn, endwrite, marks)
  <2>1. \A x \in Range(q) : WellMarked(x, tasn, endwrite, marks)
    BY <1>8 DEF FrameInv, RxFramed
  <2> QED
    BY <1>3, <1>5, <1>6, <1>12, <1>13, <2>1, TakeAllFrames
<1>15. CASE EndsNow(rx)
  <2>1. /\ ended' = "peer" /\ rahead' = <<>> /\ rsegs' = <<>> /\ endread'
    BY <1>7, <1>15 DEF EndRead, endread
  <2>2. rx.closed /\ rx.ravail = 0 /\ rx.rsn \in Nat
    BY <1>11, <1>15 DEF EndsNow, RxRec
  <2>3. endwrite /\ rx.rsn = tasn /\ consumed + 0 = rx.rsn
    BY <1>11, <1>14, <2>2 DEF RxFrames, InOrder
  <2>4. consumed = tasn
    BY <1>1, <2>3 DEF RxTyped
  <2>5. SeesEnd
    BY <2>1, <2>3, <2>4 DEF SeesEnd
  <2>6. Range(rahead') = {} /\ Range(rsegs') = {}
    BY <2>1 DEF Range
  <2>7. rsn' <= tasn'
    BY <1>7, <1>12, <2>3 DEF WriterStill
  <2> QED
    BY <2>1, <2>5, <2>6, <2>7 DEF RxFramed, ReaderKept
<1>16. CASE ~EndsNow(rx)
  <2>1. /\ rsegs' = rx.rsegs /\ rahead' = rx.rahead /\ ended' = ended
        /\ rmsgsize' = rx.rmsgsize /\ rmsgavail' = rx.rmsgavail /\ ~endread'
    BY <1>7, <1>16 DEF endread
  <2> QED
    BY <1>7, <1>14, <2>1 DEF RxFrames, RxFramed, ReaderKept, WriterStill
<1> QED
  BY <1>15, <1>16

LEMMA AheadFrames ==
    ASSUME RxInv, FrameInv, ~endread, NEW s \in Segment, ~(s.tsn <= rsn), RxAhead(s),
           WellMarked(s, tasn, endwrite, marks), UNCHANGED consumed, WriterStill
    PROVE  RxFramed' /\ ReaderKept
<1>1. RxTyped /\ Ordered
  BY DEF RxInv
<1>2. /\ rsn' = rsn /\ rsegs' = rsegs /\ rmsgsize' = rmsgsize
      /\ rmsgavail' = rmsgavail /\ ended' = ended
  BY DEF RxAhead
<1>3. PICK lo \in 0 .. Len(rahead) :
        lo = Cardinality({i \in DOMAIN rahead : rahead[i].tsn < s.tsn})
  BY <1>1, LowerCount DEF RxTyped, Ordered
<1>4. rahead' = rahead \/ rahead' = InsertAt(rahead, lo + 1, s)
  BY <1>3 DEF RxAhead
<1>5. ASSUME rahead' = InsertAt(rahead, lo + 1, s) PROVE Range(rahead') \subseteq Range(rahead) \cup {s}
  <2>1. PICK r \in Seq(Segment), n \in Nat :
          /\ r = rahead' /\ n = Len(rahead) /\ DOMAIN rahead = 1 .. n /\ Len(r) = n + 1
          /\ \A i \in 1 .. n + 1 :
                r[i] = IF i <= lo THEN rahead[i] ELSE IF i = lo + 1 THEN s ELSE rahead[i - 1]
    <3>1. Inserted(InsertAt(rahead, lo + 1, s), rahead, lo, s)
      BY <1>1, InsertDoes, Zenon DEF RxTyped
    <3>2. Len(rahead) \in Nat /\ DOMAIN rahead = 1 .. Len(rahead)
      BY <1>1, LenProperties DEF RxTyped
    <3> QED
      BY <1>5, <3>1, <3>2, Zenon DEF Inserted
  <2>2. DOMAIN r = 1 .. n + 1
    BY <2>1, LenProperties
  <2>3. ASSUME NEW i \in 1 .. n + 1 PROVE r[i] \in Range(rahead) \cup {s}
    <3>1. CASE i <= lo
      <4>1. i \in 1 .. n /\ r[i] = rahead[i]
        BY <2>1, <3>1
      <4> QED
        BY <2>1, <4>1 DEF Range
    <3>2. CASE i = lo + 1
      BY <2>1, <3>2
    <3>3. CASE i > lo + 1
      <4>1. i - 1 \in 1 .. n /\ r[i] = rahead[i - 1]
        BY <2>1, <3>3
      <4> QED
        BY <2>1, <4>1 DEF Range
    <3> QED
      BY <2>1, <3>1, <3>2, <3>3
  <2> QED
    BY <2>1, <2>2, <2>3 DEF Range
<1>6. \A x \in Range(rahead') : WellMarked(x, tasn, endwrite, marks)
  BY <1>4, <1>5 DEF FrameInv, RxFramed
<1> QED
  BY <1>2, <1>6 DEF FrameInv, RxFramed, endread, ReaderKept, WriterStill

LEMMA RxDataFrames ==
    ASSUME RxInv, FrameInv, NEW s \in Segment, RxData(s),
           WellMarked(s, tasn, endwrite, marks), WriterStill
    PROVE  RxFramed' /\ ReaderKept
<1>1. CASE endread
  BY <1>1 DEF RxData, rxvars, FrameInv, RxFramed, endread, ReaderKept, WriterStill
<1>2. CASE ~endread /\ s.tsn <= rsn
  <2>1. RxInOrder(s) /\ consumed' = consumed
    BY <1>2 DEF RxData
  <2> QED
    BY <1>2, <2>1, InOrderFrames
<1>3. CASE ~endread /\ ~(s.tsn <= rsn)
  <2>1. RxAhead(s) /\ consumed' = consumed
    BY <1>3 DEF RxData
  <2> QED
    BY <1>3, <2>1, AheadFrames
<1> QED
  BY <1>1, <1>2, <1>3

(* How far the bytes of the messages reach. *)
LEMMA FrameLength ==
    ASSUME NEW q \in Seq(Int), NEW avail, NEW from \in Nat, NEW to \in Nat, NEW t \in Nat, NEW e,
           NEW M \in SUBSET Nat, Framed(q, avail, from, to, t, e, M)
    PROVE  from <= to
<1>1. CASE q = <<>>
  <2>1. Framed(<<>>, avail, from, to, t, e, M)
    BY <1>1
  <2>2. avail \in Nat /\ from + avail = to
    BY <2>1, NoEnd, Zenon
  <2> QED
    BY <2>2
<1>2. CASE q # <<>>
  <2>1. Head(q) \in Nat \ {0} /\ EndsFirst(Head(q), from, to, t, e, M)
    BY <1>2, FirstEnd, Zenon
  <2>2. PICK h \in Nat : from + h <= to
    BY <2>1 DEF EndsFirst
  <2> QED
    BY <2>2
<1> QED
  BY <1>1, <1>2

LEMMA AfterReadFrames ==
    ASSUME RxInv, FrameInv, ~endread, NEW rd \in RdRec, AfterRead(rd), WriterStill,
           NEW k, RdFrames(rd, consumed, rsn, tasn, endwrite, marks, k,
                           rmsgavail = 0 /\ rsn = tasn)
    PROVE  RxFramed' /\ ReaderKept
<1>1. ~rd.closed /\ rd.got \in Nat /\ rd.rmsgsize \in Seq(Int)
  BY DEF RdFrames, RdRec
<1>2. /\ consumed' = consumed + rd.got /\ rsn' = rsn
      /\ rsegs' = rd.rsegs /\ rmsgsize' = rd.rmsgsize /\ rmsgavail' = rd.rmsgavail
      /\ rahead' = rahead /\ ended' = ended
  BY <1>1 DEF AfterRead
<1>3. /\ Framed(rd.rmsgsize, rd.rmsgavail, consumed + rd.got, rsn, tasn, endwrite, marks)
      /\ \A m \in marks : consumed < m => consumed + rd.got <= m
      /\ \A s \in Range(rd.rsegs) :
            /\ WellMarked(s, tasn, endwrite, marks)
            /\ "close" \in s.flags => (rmsgavail = 0 /\ rsn = tasn)
      /\ (rmsgavail = 0 /\ rsn = tasn) => rd.rmsgavail = 0
  BY DEF RdFrames
<1>4. RxFramed'
  BY <1>2, <1>3 DEF FrameInv, RxFramed, endread, WriterStill
<1>5. rsn \in Nat /\ consumed \in Nat /\ tasn \in Nat /\ marks \in SUBSET Nat /\ rsn <= tasn
  BY DEF RxInv, RxTyped, FrameInv, RxFramed
<1>6. consumed + rd.got <= rsn
  <2>1. consumed + rd.got \in Nat
    BY <1>1, <1>5
  <2> QED
    BY <1>1, <1>3, <1>5, <2>1, FrameLength
<1>7. CASE rd.got = 0
  <2>1. consumed' = consumed
    BY <1>2, <1>5, <1>7
  <2> QED
    BY <1>2, <1>4, <2>1 DEF ReaderKept
<1>8. CASE rd.got # 0
  <2>1. consumed' > consumed /\ consumed' <= tasn
    BY <1>1, <1>2, <1>5, <1>6, <1>8
  <2>2. ReadsOneMessage
    BY <1>2, <1>3, <2>1 DEF ReadsOneMessage
  <2> QED
    BY <1>4, <2>2 DEF ReaderKept
<1> QED
  BY <1>7, <1>8

(* A read finds the receive state as the invariant has it. *)
LEMMA ReadFromFrames ==
    ASSUME RxInv, FrameInv, ~endread
    PROVE  /\ Continues(RxState, consumed, rsn)
           /\ RxState.rmsgsize = rmsgsize /\ Len(rmsgsize) \in Nat
           /\ RdFrames(RxState, consumed, rsn, tasn, endwrite, marks, Len(rmsgsize),
                       rmsgavail = 0 /\ rsn = tasn)
<1>1. RxTyped /\ Ordered /\ RxFramed
  BY DEF RxInv, FrameInv
<1>2. /\ RxState.got = 0 /\ RxState.rsegs = rsegs /\ RxState.ravail = ravail
      /\ RxState.rmsgsize = rmsgsize /\ RxState.rmsgavail = rmsgavail /\ RxState.closed = FALSE
  BY DEF RxState
<1>3. consumed + 0 = consumed /\ Len(rmsgsize) \in Nat /\ consumed \in Nat
      /\ ~(Len(rmsgsize) < Len(rmsgsize)) /\ Len(rmsgsize) <= Len(rmsgsize)
  BY <1>1, LenProperties DEF RxTyped
<1>4. Continues(RxState, consumed, rsn)
  BY <1>1, <1>2, <1>3 DEF Continues, Ordered
<1>5. \A m \in marks : consumed < m => consumed <= m
  <2>1. marks \in SUBSET Nat
    BY DEF FrameInv
  <2> QED
    BY <1>3, <2>1
<1>6. RdFrames(RxState, consumed, rsn, tasn, endwrite, marks, Len(rmsgsize),
               rmsgavail = 0 /\ rsn = tasn)
  BY <1>1, <1>2, <1>3, <1>5 DEF RdFrames, RxFramed
<1> QED
  BY <1>2, <1>3, <1>4, <1>6

(* Nothing to read, nothing read. *)
LEMMA ReadNothing ==
    ASSUME NEW rd \in RdRec, NEW room \in Int, rd.rsegs = <<>>
    PROVE  LET r == Reading(rd, room)
           IN  r \in RdRec /\ r.rsegs = <<>> /\ r.got = rd.got /\ r.closed = rd.closed
<1> DEFINE base == [rd EXCEPT !.rsegs = <<>>, !.room = room, !.stopped = FALSE]
<1>1. base \in RdRec /\ base.rsegs = <<>> /\ base.got = rd.got /\ base.closed = rd.closed
  BY DEF RdRec
<1>2. Reading(rd, room) = FoldLeft(ReadSegment, base, <<>>)
  BY DEF Reading
<1> HIDE DEF base
<1>3. <<>> \in Seq(Segment) /\ Len(<<>>) = 0
  OBVIOUS
<1>4. PICK f : ReadRun(f, base, <<>>) /\ FoldLeft(ReadSegment, base, <<>>) = f[Len(<<>>)]
  BY <1>1, <1>3, ReadRuns
<1>5. Reading(rd, room) = base
  BY <1>2, <1>3, <1>4 DEF ReadRun
<1> QED
  BY <1>1, <1>5

LEMMA ReadEnded ==
    ASSUME RxInv, FrameInv, endread, NEW rd \in RdRec, rd.rsegs = <<>>, rd.got = 0, ~rd.closed,
           AfterRead(rd), WriterStill
    PROVE  RxFramed' /\ ReaderKept
<1>1. /\ consumed' = consumed + 0 /\ rsn' = rsn /\ rsegs' = <<>> /\ rahead' = rahead
      /\ ended' = ended
  BY DEF AfterRead
<1>2. consumed' = consumed
  BY <1>1 DEF RxInv, RxTyped
<1>3. Range(rsegs') = {} /\ endread'
  BY <1>1 DEF Range, endread
<1> QED
  BY <1>1, <1>2, <1>3 DEF RxFramed, FrameInv, ReaderKept, WriterStill

LEMMA ReadDataFrames ==
    ASSUME RxInv, FrameInv, NEW n \in Int, ReadData(n), WriterStill
    PROVE  RxFramed' /\ ReaderKept
<1>1. PICK st \in RdRec : st = RxState /\ st.got = 0 /\ st.rsegs = rsegs /\ st.closed = FALSE
  BY ReadFrom DEF RxState
<1>2. PICK rd \in RdRec : rd = Reading(st, n)
  BY ReadAll
<1>3. AfterRead(rd) /\ rd.fits
  BY <1>1, <1>2 DEF ReadData, AfterRead
<1>4. CASE endread
  <2>1. rsegs = <<>>
    BY <1>4 DEF FrameInv, RxFramed
  <2>2. rd.rsegs = <<>> /\ rd.got = 0 /\ ~rd.closed
    <3>1. st.rsegs = <<>>
      BY <1>1, <2>1
    <3>2. rd.rsegs = <<>> /\ rd.got = st.got /\ rd.closed = st.closed
      BY <1>2, <3>1, ReadNothing
    <3> QED
      BY <1>1, <3>2
  <2> QED
    BY <1>3, <1>4, <2>2, ReadEnded
<1>5. CASE ~endread
  <2>1. PICK k, z :
          /\ k \in Nat /\ z = (rmsgavail = 0 /\ rsn = tasn) /\ k = Len(st.rmsgsize)
          /\ Continues(st, consumed, rsn) /\ RdFrames(st, consumed, rsn, tasn, endwrite, marks, k, z)
    BY <1>1, <1>5, ReadFromFrames
  <2>2. /\ rsn \in Nat /\ consumed \in Nat /\ tasn \in Nat /\ marks \in SUBSET (0 .. tasn)
        /\ rsn <= tasn
    BY DEF RxInv, RxTyped, FrameInv, RxFramed
  <2>3. RdFrames(rd, consumed, rsn, tasn, endwrite, marks, k, z)
    BY <1>2, <1>3, <2>1, <2>2, ReadAllFrames
  <2> QED
    BY <1>3, <1>5, <2>1, <2>3, AfterReadFrames
<1> QED
  BY <1>4, <1>5

LEMMA ReadMessageFrames ==
    ASSUME RxInv, FrameInv, NEW n \in Int, ReadMessage(n), WriterStill
    PROVE  RxFramed' /\ ReaderKept
<1>1. PICK st \in RdRec : st = RxState /\ st.got = 0 /\ st.rsegs = rsegs /\ st.closed = FALSE
  BY ReadFrom DEF RxState
<1>2. PICK first \in RdRec : first = Reading(st, n)
  BY ReadAll
<1>3. ravail \in Int
  BY DEF RxInv, RxTyped
<1>4. PICK rd \in RdRec : rd = Reading(first, ravail)
  BY <1>3, ReadAll
<1>5. \/ AfterRead(first)
      \/ AfterRead(rd) /\ Len(first.rmsgsize) = Len(rmsgsize)
  BY <1>1, <1>2, <1>4 DEF ReadMessage
<1>6. /\ AfterRead(first) => first.fits
      /\ AfterRead(rd) => rd.fits
  BY DEF AfterRead
<1>7. CASE endread
  <2>1. rsegs = <<>>
    BY <1>7 DEF FrameInv, RxFramed
  <2>2. first.rsegs = <<>> /\ first.got = 0 /\ ~first.closed
    BY <1>1, <1>2, <2>1, ReadNothing
  <2>3. rd.rsegs = <<>> /\ rd.got = 0 /\ ~rd.closed
    BY <1>3, <1>4, <2>2, ReadNothing
  <2> QED
    BY <1>5, <1>7, <2>2, <2>3, ReadEnded
<1>8. CASE ~endread
  <2>1. PICK k, z :
          /\ k \in Nat /\ z = (rmsgavail = 0 /\ rsn = tasn) /\ k = Len(st.rmsgsize) /\ k = Len(rmsgsize)
          /\ Continues(st, consumed, rsn) /\ RdFrames(st, consumed, rsn, tasn, endwrite, marks, k, z)
    BY <1>1, <1>8, ReadFromFrames
  <2>2. /\ rsn \in Nat /\ consumed \in Nat /\ tasn \in Nat /\ marks \in SUBSET (0 .. tasn)
        /\ rsn <= tasn
    BY DEF RxInv, RxTyped, FrameInv, RxFramed
  <2>3. ASSUME first.fits
        PROVE  /\ RdFrames(first, consumed, rsn, tasn, endwrite, marks, k, z)
               /\ Continues(first, consumed, rsn)
    <3>1. RdFrames(first, consumed, rsn, tasn, endwrite, marks, k, z)
      BY <1>2, <2>1, <2>2, <2>3, ReadAllFrames
    <3>2. Continues(first, consumed, rsn)
      BY <1>2, <2>1, <2>2, <2>3, ReadAll
    <3> QED
      BY <3>1, <3>2
  <2>4. CASE AfterRead(first)
    BY <1>6, <1>8, <2>1, <2>3, <2>4, AfterReadFrames
  <2>5. CASE AfterRead(rd) /\ Len(first.rmsgsize) = Len(rmsgsize)
    <3>1. first.fits /\ rd.fits
      BY <1>3, <1>4, <1>6, <2>5, ReadAll
    <3>2. RdFrames(rd, consumed, rsn, tasn, endwrite, marks, k, z)
      BY <1>3, <1>4, <2>1, <2>2, <2>3, <2>5, <3>1, ReadAllFrames
    <3> QED
      BY <1>8, <2>1, <2>5, <3>2, AfterReadFrames
  <2> QED
    BY <1>5, <2>4, <2>5
<1> QED
  BY <1>7, <1>8

-----------------------------------------------------------------------------
(* The steps of the writer, and all steps.                                 *)

LEMMA SentSegments ==
    ASSUME TxTyped
    PROVE  Sent \subseteq Segment
<1>1. Range(tqueue) \subseteq Segment
  BY RangeOf DEF TxTyped
<1> QED
  BY <1>1 DEF Sent, TxTyped

(* A write does not move the messages the receiver has. *)
LEMMA FrameStill ==
    ASSUME NEW q \in Seq(Int), NEW avail, NEW from, NEW to \in Nat, NEW t \in Nat, to <= t,
           NEW M \in SUBSET (0 .. t), NEW d, MayWrite(d), Framed(q, avail, from, to, t, d, M),
           NEW n \in Nat, NEW e \in BOOLEAN, NEW N,
           OneMore(M, N, t, n, e)
    PROVE  Framed(q, avail, from, to, t + n, e, N)
<1>1. PICK f : EndsAt(f, q, avail, from, to, t, d, M)
  BY DEF Framed
<1>2. ASSUME NEW m \in N, from < m, m <= to
      PROVE  (\E i \in 1 .. Len(q) : m = f[i]) \/ (e /\ m = t + n)
  <2>1. CASE m \in M
    BY <1>1, <1>2, <2>1 DEF EndsAt, MayWrite
  <2>2. CASE m = t + n /\ (n # 0 \/ e)
    <3>1. n = 0
      BY <1>2, <2>2
    <3> QED
      BY <2>2, <3>1
  <2> QED
    BY <2>1, <2>2 DEF OneMore
<1>3. \A i \in 1 .. Len(q) : f[i] \in N
  BY <1>1 DEF EndsAt, OneMore
<1>4. EndsAt(f, q, avail, from, to, t + n, e, N)
  <2>1. EndRun(f, q, from) /\ avail \in Nat /\ f[Len(q)] + avail = to
    BY <1>1 DEF EndsAt
  <2> QED
    BY <1>2, <1>3, <2>1 DEF EndsAt
<1> QED
  BY <1>4 DEF Framed

\* What AppWrite remembers of a write of n bytes flagged f.
Remembers(n, f) ==
    \/ f = {"push"} /\ marks' = marks /\ endwrite' = FALSE
    \/ f = {"message"} /\ marks' = marks \cup {tasn'} /\ n # 0 /\ endwrite' = FALSE
    \/ f = {"close"} /\ marks' = marks \cup {tasn'} /\ endwrite' = TRUE

LEMMA WriteFrames ==
    ASSUME TxTyped, RxInv, FrameInv, NEW n \in Nat, NEW f \in SUBSET Flag, WriteData(n, f),
           UNCHANGED rxvars, Remembers(n, f)
    PROVE  FrameInv' /\ RS!Write
<1>15. PICK e \in BOOLEAN : e = endwrite'
  BY DEF Remembers
<1>1. /\ ~endwrite /\ tqueue' = tqueue \o Segments(n, f) /\ tasn' = tasn + n
      /\ inflight' = inflight /\ wire' = wire /\ pkts' = pkts
  BY DEF WriteData
<1>2. /\ tasn \in Nat /\ marks \in SUBSET (0 .. tasn) /\ RxFramed
      /\ \A s \in Sent : WellMarked(s, tasn, endwrite, marks)
  BY DEF FrameInv
<1>3. /\ rsn' = rsn /\ rsegs' = rsegs /\ rahead' = rahead /\ rmsgsize' = rmsgsize
      /\ rmsgavail' = rmsgavail /\ ended' = ended /\ consumed' = consumed
  BY DEF rxvars
<1>16. PICK M : M = marks'
  OBVIOUS
<1>0. PICK t \in Nat : t = tasn /\ M = marks' /\ tasn' = t + n
  BY <1>1, <1>2, <1>16, Zenon
<1>14. \/ f = {"push"} /\ M = marks /\ ~e
       \/ f = {"message"} /\ M = marks \cup {t + n} /\ n # 0 /\ ~e
       \/ f = {"close"} /\ M = marks \cup {t + n} /\ e
  BY <1>0, <1>15 DEF Remembers
<1>4. /\ t = tasn /\ M = marks' /\ tasn' = t + n
      /\ OneMore(marks, M, t, n, e)
      /\ M \in {marks, marks \cup {t + n}} /\ (e => M = marks \cup {t + n})
  BY <1>0, <1>14 DEF OneMore
<1>5. M \in SUBSET (0 .. t + n)
  <2>1. marks \in SUBSET (0 .. t + n)
    <3>1. ASSUME NEW m \in marks PROVE m \in 0 .. t + n
      <4>1. m \in 0 .. t
        BY <1>2, <1>4
      <4> QED
        BY <4>1
    <3> QED
      BY <3>1
  <2>2. t + n \in 0 .. t + n
    OBVIOUS
  <2> QED
    BY <1>14, <2>1, <2>2
<1>6. ASSUME NEW s \in Segment, WellMarked(s, tasn, endwrite, marks)
      PROVE  WellMarked(s, t + n, e, M)
  <2>1. WellMarked(s, t, endwrite, marks) /\ marks \in SUBSET (0 .. t)
    BY <1>2, <1>4, <1>6
  <2>2. MayWrite(endwrite) /\ OneMore(marks, M, t, n, e)
    BY <1>1, <1>4 DEF MayWrite
  <2> QED
    BY <2>1, <2>2, MarkedStill, Zenon
<1>7. ASSUME NEW s \in Range(Segments(n, f)) PROVE WellMarked(s, t + n, e, M)
  <2>1. /\ s \in Segment /\ t <= s.tsn
        /\ \/ s.tsn + s.size = t + n /\ s.flags = {"push"} \cup f
           \/ s.tsn + s.size < t + n /\ s.flags = {}
    BY <1>4, SegmentsLie
  <2>2. /\ f = {"push"} => WellMarked(s, t + n, FALSE, marks)
        /\ f = {"message"} => WellMarked(s, t + n, FALSE, marks \cup {t + n})
        /\ f = {"close"} => WellMarked(s, t + n, TRUE, marks \cup {t + n})
    BY <1>2, <1>4, <2>1, MarkedNew
  <2>3. CASE e
    BY <1>14, <2>2, <2>3
  <2>4. CASE ~e
    BY <1>14, <2>2, <2>4
  <2> QED
    BY <2>3, <2>4
<1>8. ASSUME NEW s \in Sent' PROVE WellMarked(s, t + n, e, M)
  <2>1. Range(tqueue') = Range(tqueue) \cup Range(Segments(n, f))
    <3>1. tqueue \in Seq(Segment) /\ Segments(n, f) \in Seq(Segment)
      BY SegmentsType DEF TxTyped
    <3>2. PICK a \in Seq(Segment), b \in Seq(Segment) : a = tqueue /\ b = Segments(n, f)
      BY <3>1
    <3>3. Range(a \o b) = Range(a) \cup Range(b)
      BY RangeOfConcat
    <3> QED
      BY <1>1, <3>2, <3>3
  <2>2. s \in Sent \/ s \in Range(Segments(n, f))
    BY <1>1, <2>1 DEF Sent
  <2>3. Sent \subseteq Segment
    BY SentSegments
  <2> QED
    BY <1>2, <1>6, <1>7, <2>2, <2>3
<1>9. Range(rahead) \subseteq Segment /\ Range(rsegs) \subseteq Segment
  BY RangeOf DEF RxInv, RxTyped
<1>10. /\ rsn \in Nat /\ rmsgsize \in Seq(Int) /\ rsn <= tasn
  BY <1>2 DEF RxInv, RxTyped, RxFramed
<1>11. RxFramed'
  <2>1. rsn' <= tasn'
    BY <1>2, <1>3, <1>4, <1>10
  <2>2. \A s \in Range(rahead') \cup Range(rsegs') : WellMarked(s, tasn', endwrite', marks')
    BY <1>2, <1>3, <1>4, <1>6, <1>9, <1>15 DEF RxFramed
  <2>3. \A s \in Range(rsegs') : "close" \notin s.flags
    BY <1>1, <1>2, <1>3 DEF RxFramed, WellMarked
  <2>4. endread' => rsegs' = <<>> /\ rahead' = <<>>
    BY <1>2, <1>3 DEF RxFramed, endread
  <2>5. ASSUME ~endread PROVE Framed(rmsgsize, rmsgavail, consumed, rsn, t + n, e, M)
    <3>1. Framed(rmsgsize, rmsgavail, consumed, rsn, t, endwrite, marks)
      BY <1>2, <1>4, <2>5 DEF RxFramed
    <3>2. rsn <= t /\ marks \in SUBSET (0 .. t)
      BY <1>2, <1>4, <1>10
    <3>3. MayWrite(endwrite) /\ OneMore(marks, M, t, n, e)
      BY <1>1, <1>4 DEF MayWrite
    <3>4. rsn \in Nat /\ rmsgsize \in Seq(Int)
      BY <1>10
    <3> QED
      BY <3>1, <3>2, <3>3, <3>4, FrameStill, Zenon
  <2>6. ~endread' => Framed(rmsgsize', rmsgavail', consumed', rsn', tasn', endwrite', marks')
    BY <1>3, <1>4, <1>15, <2>5 DEF endread
  <2> QED
    BY <2>1, <2>2, <2>3, <2>4, <2>6 DEF RxFramed
<1>12. FrameInv'
  <2>1. tasn' \in Nat /\ endwrite' \in BOOLEAN /\ marks' \in SUBSET (0 .. tasn')
    BY <1>4, <1>5, <1>15
  <2>2. \A s \in Sent' : WellMarked(s, tasn', endwrite', marks')
    BY <1>4, <1>8, <1>15
  <2> QED
    BY <1>11, <2>1, <2>2 DEF FrameInv
<1>13. RS!Write
  <2>1. tasn' >= tasn /\ tasn' \in Nat
    BY <1>2, <1>4
  <2>2. /\ endwrite' \in BOOLEAN /\ marks' \in {marks, marks \cup {tasn'}}
        /\ endwrite' => marks' = marks \cup {tasn'}
    BY <1>4, <1>15
  <2> QED
    BY <1>1, <1>3, <2>1, <2>2 DEF RS!Write
<1> QED
  BY <1>12, <1>13

LEMMA AppWriteFrames ==
    ASSUME 0 \notin MessageSizes, TxTyped, RxInv, FrameInv, AppWrite
    PROVE  FrameInv' /\ RS!Write
<1>1. UNCHANGED rxvars
  BY DEF AppWrite
<1>2. {"push"} \in SUBSET Flag /\ {"message"} \in SUBSET Flag /\ {"close"} \in SUBSET Flag
  BY DEF Flag
<1>3. ASSUME NEW n \in WriteSizes, WriteData(n, {"push"}), UNCHANGED marks
      PROVE  FrameInv' /\ RS!Write
  <2>1. n \in Nat
    BY <1>3, StreamTxAssumption
  <2>2. Remembers(n, {"push"})
    <3>1. endwrite' = ("close" \in {"push"})
      BY <1>3 DEF WriteData
    <3>2. ("close" \in {"push"}) = FALSE
      <4>1. ~("close" \in {"push"})
        OBVIOUS
      <4> QED
        BY <4>1
    <3>3. endwrite' = FALSE
      BY <3>1, <3>2
    <3> QED
      BY <1>3, <3>3 DEF Remembers
  <2> QED
    BY <1>1, <1>2, <1>3, <2>1, <2>2, WriteFrames
<1>4. ASSUME NEW n \in MessageSizes, WriteData(n, {"message"}), marks' = marks \cup {tasn'}
      PROVE  FrameInv' /\ RS!Write
  <2>1. n \in Nat
    BY <1>4, StreamTxAssumption
  <2>2. Remembers(n, {"message"})
    <3>1. endwrite' = ("close" \in {"message"})
      BY <1>4 DEF WriteData
    <3>2. ("close" \in {"message"}) = FALSE
      <4>1. ~("close" \in {"message"})
        OBVIOUS
      <4> QED
        BY <4>1
    <3>3. endwrite' = FALSE
      BY <3>1, <3>2
    <3>4. n # 0
      BY <1>4
    <3> QED
      BY <1>4, <3>3, <3>4 DEF Remembers
  <2> QED
    BY <1>1, <1>2, <1>4, <2>1, <2>2, WriteFrames
<1>5. ASSUME NEW n \in CloseSizes, WriteData(n, {"close"}), marks' = marks \cup {tasn'}
      PROVE  FrameInv' /\ RS!Write
  <2>1. n \in Nat
    BY <1>5, StreamTxAssumption
  <2>2. Remembers(n, {"close"})
    <3>1. endwrite' = ("close" \in {"close"})
      BY <1>5 DEF WriteData
    <3>2. endwrite' = TRUE
      BY <3>1
    <3> QED
      BY <1>5, <3>2 DEF Remembers
  <2> QED
    BY <1>1, <1>2, <1>5, <2>1, <2>2, WriteFrames
<1> QED
  BY <1>3, <1>4, <1>5 DEF AppWrite


(* Only the application's writes concern the writer. *)
LEMMA OnlyWrites ==
    ASSUME [Next]_vars, ~AppWrite
    PROVE  WriterStill
<1>1. CASE Sender
  <2>1. CASE Transmit
    BY <1>1, <2>1 DEF Sender, Transmit, TransmitNothing, TransmitData, TransmitInit,
                      TransmitAttach, TxFrame, WriterStill
  <2>2. CASE WindowUpdate \/ FlowStarted \/ ClearPrimary
    BY <1>1, <2>2 DEF Sender, WindowUpdate, FlowStarted, ClearPrimary, WriterStill
  <2>3. ASSUME NEW n \in inflight, Acked(n) \/ Missed(n) PROVE WriterStill
    BY <1>1, <2>3 DEF Sender, Acked, Missed, WriterStill
  <2> QED
    BY <1>1, <2>1, <2>2, <2>3 DEF Sender
<1>2. CASE Network
  BY <1>2 DEF Network, Lose, WriterStill
<1>3. CASE App
  BY <1>3 DEF App, txvars, WriterStill
<1>4. ASSUME NEW n \in wire, Deliver(n) PROVE WriterStill
  <2>1. ASSUME NEW a, Arrive(n, a) PROVE WriterStill
    BY <2>1 DEF Arrive, WriterStill
  <2> QED
    BY <1>4, <2>1 DEF Deliver, RxInitPacket, RxInitDelayed, RxDataPacket,
                      RxAttachKnown, RxAttachUnknown
<1>5. CASE UNCHANGED vars
  BY <1>5 DEF vars, txvars, WriterStill
<1> QED
  BY <1>1, <1>2, <1>3, <1>4, <1>5 DEF Next

(* Every step but the application's writes leaves the receiver alone, hands it *)
(* a segment of a packet, or is the reader's.                                  *)
LEMMA ReceiverSteps ==
    ASSUME [Next]_vars, ~AppWrite
    PROVE  \/ UNCHANGED rxvars
           \/ \E n \in wire : RxData(pkts[n].seg)
           \/ Reader
<1>1. CASE Sender \/ Network
  BY <1>1 DEF Sender, Network
<1>2. CASE App
  BY <1>2 DEF App
<1>3. ASSUME NEW n \in wire, Deliver(n)
      PROVE  UNCHANGED rxvars \/ RxData(pkts[n].seg)
  BY <1>3 DEF Deliver, RxInitPacket, RxInitDelayed, RxDataPacket,
              RxAttachKnown, RxAttachUnknown
<1>4. CASE UNCHANGED vars
  BY <1>4 DEF vars
<1> QED
  BY <1>1, <1>2, <1>3, <1>4 DEF Next


LEMMA NoneMarked ==
    ASSUME FrameInv
    PROVE  WellMarked(NoSegment, tasn, endwrite, marks)
<1>1. PICK s \in Segment : s = NoSegment
  BY DEF Segment, NoSegment
<1>2. s.tsn = 0 /\ s.size = 0 /\ s.flags = {} /\ ~Marked(s)
  BY <1>1 DEF NoSegment, Marked
<1>3. tasn \in Nat /\ marks \in SUBSET (0 .. tasn)
  BY DEF FrameInv
<1>4. ASSUME NEW m \in marks PROVE m \in Nat
  BY <1>3
<1>5. /\ s.tsn + s.size <= tasn
      /\ \A m \in marks : s.tsn < m => s.tsn + s.size <= m
      /\ \A m \in marks : ~(s.tsn < m /\ m = s.tsn + s.size)
  BY <1>2, <1>3, <1>4
<1>6. WellMarked(s, tasn, endwrite, marks)
  BY <1>2, <1>5 DEF WellMarked
<1> QED
  BY <1>1, <1>6

(* The receiver is left alone while the writer is. *)
LEMMA FramesStay ==
    ASSUME FrameInv, WriterStill,
           UNCHANGED <<rsn, rsegs, rahead, rmsgsize, rmsgavail, ended, consumed>>
    PROVE  RxFramed' /\ ReaderKept
<1>1. RxFramed
  BY DEF FrameInv
<1> QED
  BY <1>1 DEF RxFramed, ReaderKept, WriterStill, endread

(* The reader stops reading. *)
LEMMA StopFrames ==
    ASSUME RxInv, FrameInv, ShutdownRead, WriterStill
    PROVE  RxFramed' /\ RS!Stop
<1>1. /\ ended' = "reader" /\ rsegs' = <<>> /\ rahead' = <<>>
      /\ rsn' = rsn /\ consumed' = consumed /\ ended = "no"
  BY DEF ShutdownRead, EndRead, endread
<1>2. rsn <= tasn /\ tasn' = tasn /\ endwrite' = endwrite /\ marks' = marks
  BY DEF FrameInv, RxFramed, WriterStill
<1>3. RxFramed'
  <2>1. Range(rsegs') = {} /\ Range(rahead') = {}
    BY <1>1 DEF Range
  <2>2. endread'
    BY <1>1 DEF endread
  <2>3. rsn' <= tasn'
    BY <1>1, <1>2
  <2> QED
    BY <1>1, <2>1, <2>2, <2>3 DEF RxFramed
<1>4. RS!Stop
  BY <1>1, <1>2 DEF RS!Stop
<1> QED
  BY <1>3, <1>4

(* What is promised of one step. *)
Promised == RS!Next \/ UNCHANGED <<tasn, marks, endwrite, consumed, ended>>

LEMMA KeptPromised ==
    ASSUME ReaderKept, WriterStill
    PROVE  Promised
<1>1. tasn' = tasn /\ endwrite' = endwrite /\ marks' = marks
  BY DEF WriterStill
<1>2. CASE UNCHANGED <<consumed, ended>>
  BY <1>1, <1>2 DEF Promised
<1>3. CASE ReadsOneMessage
  BY <1>1, <1>3 DEF ReadsOneMessage, Promised, RS!Next, RS!Read, endread
<1>4. CASE SeesEnd
  BY <1>1, <1>4 DEF SeesEnd, Promised, RS!Next, RS!AtEnd, endread
<1> QED
  BY <1>2, <1>3, <1>4 DEF ReaderKept


(* Every step keeps the invariant and the promise. *)
LEMMA FrameStep ==
    ASSUME 0 \notin MessageSizes, TxInv, RxInv, FrameInv, [Next]_vars
    PROVE  FrameInv' /\ Promised
<1>0. TxTyped
  BY DEF TxInv
<1>1. CASE AppWrite
  <2>1. FrameInv' /\ RS!Write
    BY <1>0, <1>1, AppWriteFrames
  <2> QED
    BY <2>1 DEF Promised, RS!Next
<1>2. CASE ~AppWrite
  <2>1. WriterStill
    BY <1>2, OnlyWrites
  <2>2. Sent' \subseteq Sent \cup {NoSegment}
    BY <1>0, <1>2, NothingMadeUp
  <2>3. tasn' = tasn /\ endwrite' = endwrite /\ marks' = marks
    BY <2>1 DEF WriterStill
  <2>4. \A s \in Sent' : WellMarked(s, tasn', endwrite', marks')
    <3>1. \A s \in Sent \cup {NoSegment} : WellMarked(s, tasn, endwrite, marks)
      BY NoneMarked DEF FrameInv
    <3> QED
      BY <2>2, <2>3, <3>1
  <2>5. ASSUME RxFramed' PROVE FrameInv'
    <3>1. tasn' \in Nat /\ endwrite' \in BOOLEAN /\ marks' \in SUBSET (0 .. tasn')
      BY <2>3 DEF FrameInv
    <3> QED
      BY <2>4, <2>5, <3>1 DEF FrameInv
  <2>6. ASSUME RxFramed' /\ ReaderKept PROVE FrameInv' /\ Promised
    BY <1>0, <2>1, <2>5, <2>6, KeptPromised
  <2>7. CASE UNCHANGED rxvars
    BY <2>1, <2>6, <2>7, FramesStay DEF rxvars
  <2>8. ASSUME NEW n \in wire, RxData(pkts[n].seg) PROVE FrameInv' /\ Promised
    <3>1. pkts[n].seg \in Sent /\ pkts[n].seg \in Segment
      BY <1>0, <2>8 DEF Sent, TxTyped
    <3>2. WellMarked(pkts[n].seg, tasn, endwrite, marks)
      BY <3>1 DEF FrameInv
    <3> QED
      BY <2>1, <2>6, <2>8, <3>1, <3>2, RxDataFrames
  <2>9. CASE Reader
    <3>1. ASSUME NEW n \in ReadSizes, ReadData(n) \/ ReadMessage(n) PROVE FrameInv' /\ Promised
      <4>1. n \in Int
        BY <3>1, StreamRxAssumption
      <4> QED
        BY <2>1, <2>6, <3>1, <4>1, ReadDataFrames, ReadMessageFrames
    <3>2. CASE ShutdownRead
      BY <2>1, <2>5, <3>2, StopFrames DEF Promised, RS!Next
    <3>3. ASSUME NEW n \in ReceiveBuffers, SetReceiveBuffer(n) PROVE FrameInv' /\ Promised
      BY <2>1, <2>6, <3>3, FramesStay DEF SetReceiveBuffer
    <3> QED
      BY <2>9, <3>1, <3>2, <3>3 DEF Reader
  <2> QED
    BY <1>2, <2>7, <2>8, <2>9, ReceiverSteps
<1> QED
  BY <1>1, <1>2

LEMMA FrameInit ==
    ASSUME Init
    PROVE  FrameInv
<1>1. /\ tasn = 0 /\ endwrite = FALSE /\ tqueue = <<>> /\ inflight = {} /\ wire = {}
      /\ rsn = 0 /\ rmsgavail = 0 /\ rahead = <<>> /\ rsegs = <<>> /\ rmsgsize = <<>>
      /\ ended = "no" /\ consumed = 0 /\ marks = {}
  BY DEF Init, TxInit, RxInit
<1>2. Range(tqueue) = {} /\ Range(rahead) = {} /\ Range(rsegs) = {}
  BY <1>1 DEF Range
<1>3. Sent = {}
  BY <1>1, <1>2 DEF Sent
<1>4. EndsAt([i \in 0 .. 0 |-> 0], <<>>, 0, 0, 0, 0, endwrite, {})
  BY DEF EndsAt, EndRun
<1>5. Framed(rmsgsize, rmsgavail, consumed, rsn, tasn, endwrite, marks)
  BY <1>1, <1>4 DEF Framed
<1>6. RxFramed
  BY <1>1, <1>2, <1>5 DEF RxFramed
<1> QED
  BY <1>1, <1>3, <1>6 DEF FrameInv

LEMMA FrameInvAlways ==
    ASSUME 0 \notin MessageSizes
    PROVE  Spec => []FrameInv
<1>1. Init => FrameInv
  BY FrameInit
<1>2. TxInv /\ RxInv /\ FrameInv /\ [Next]_vars => FrameInv'
  BY FrameStep
<1> QED
  BY <1>1, <1>2, TxInvAlways, RxInvAlways, PTL DEF Spec

(* The two halves of a stream, with the network between them, implement the  *)
(* reliable stream of lib/stream.h whatever is lost, repeated, overtaken or  *)
(* moved to another flow: what readData() and readMessage() hand out is what *)
(* writeData() took, in order, never across the end of a message, and the    *)
(* reader hears of the end only behind the last byte.  The hypothesis leaves *)
(* out empty messages, which rxData() does not frame.                        *)
THEOREM ReliableDelivery ==
    ASSUME 0 \notin MessageSizes
    PROVE  Spec => StreamPromise
<1>1. Init => RS!Init
  BY DEF Init, TxInit, RxInit, RS!Init
<1>2. TxInv /\ RxInv /\ FrameInv /\ [Next]_vars => [RS!Next]_(RS!vars)
  BY FrameStep DEF Promised, RS!vars
<1> QED
  BY <1>1, <1>2, TxInvAlways, RxInvAlways, FrameInvAlways, PTL
     DEF Spec, StreamPromise, RS!Spec


-----------------------------------------------------------------------------
(* The ends of the messages that wait, as MessageFraming adds them up.     *)

Total(q) == FoldLeft(+, 0, q)

(* The sum of the first i elements of q, for each i. *)
SumRun(f, q) ==
    /\ f \in [0 .. Len(q) -> Int] /\ f[0] = 0
    /\ \A i \in 1 .. Len(q) : f[i] = f[i - 1] + q[i]

LEMMA SumRuns ==
    ASSUME NEW q \in Seq(Int)
    PROVE  \E f : SumRun(f, q) /\ Total(q) = f[Len(q)]
<1>1. PICK n \in Nat : n = Len(q) /\ DOMAIN q = 1 .. n
  BY LenProperties
<1>2. \A i \in 1 .. n : q[i] \in Int
  BY <1>1, ElementOfSeq
<1> DEFINE F(f) == f = [s \in SUBSET (1 .. n) |->
                          IF s = {} THEN 0 ELSE f[s \ {Max(s)}] + q[Max(s)]]
           G == [x \in (1 .. n) \X Int |-> x[2] + q[x[1]]]
<1>3. G \in [(1 .. n) \X Int -> Int]
  <2>1. ASSUME NEW i \in 1 .. n, NEW v \in Int PROVE v + q[i] \in Int
    BY <1>2
  <2>2. ASSUME NEW x \in (1 .. n) \X Int PROVE x[2] + q[x[1]] \in Int
    <3>1. x[1] \in 1 .. n /\ x[2] \in Int
      OBVIOUS
    <3> QED
      BY <2>1, <3>1, Zenon
  <2> QED
    BY <2>2, Zenon
<1>4. \A i \in 1 .. n, v \in Int : G[<<i, v>>] = v + q[i]
  OBVIOUS
<1> HIDE DEF G
<1>5. PICK it \in [SUBSET (1 .. n) -> Int] : SeqFolds(it, n, 0, G)
  <2>1. 0 \in Int
    OBVIOUS
  <2> QED
    BY <1>3, <2>1, SeqFoldExists, Zenon
<1>6. F(it)
  <2>1. ASSUME NEW s \in SUBSET (1 .. n), s # {}
        PROVE  it[s] = it[s \ {Max(s)}] + q[Max(s)]
    <3>1. Max(s) \in 1 .. n /\ s \ {Max(s)} \in SUBSET (1 .. n)
      BY <2>1, Greatest
    <3>2. it[s] = G[<<Max(s), it[s \ {Max(s)}]>>]
      BY <1>5, <2>1 DEF SeqFolds
    <3>3. it[s \ {Max(s)}] \in Int
      BY <3>1
    <3> QED
      BY <1>4, <3>1, <3>2, <3>3
  <2>2. it[{}] = 0
    BY <1>5 DEF SeqFolds
  <2> QED
    BY <1>5, <2>1, <2>2 DEF SeqFolds
<1>7. PICK h : h = (CHOOSE f : F(f))
  OBVIOUS
<1>8. F(h)
  BY <1>6, <1>7
<1>9. Total(q) = h[1 .. n]
  BY <1>1, <1>7 DEF Total, FoldLeft, MapThenFoldSet
<1>10. h[{}] = 0
  BY <1>8
<1>11. ASSUME NEW i \in 1 .. n PROVE h[1 .. i] = h[1 .. i - 1] + q[i]
  <2>1. /\ 1 .. i \in SUBSET (1 .. n) /\ 1 .. i # {} /\ Max(1 .. i) = i
        /\ (1 .. i) \ {i} = 1 .. i - 1
    BY MaxOfInterval
  <2> QED
    BY <1>8, <2>1
<1> DEFINE f == [i \in 0 .. n |-> h[1 .. i]]
<1>12. f[0] = 0
  BY <1>10
<1>13. \A i \in 1 .. n : f[i] = f[i - 1] + q[i]
  BY <1>11
<1>14. f[n] = h[1 .. n]
  OBVIOUS
<1> DEFINE P == {i \in 0 .. n : f[i] \in Int}
<1>15. f = [i \in 0 .. n |-> f[i]]
  OBVIOUS
<1> HIDE DEF f
<1>16. ASSUME NEW i \in 1 .. n, i - 1 \in P PROVE i \in P
  <2>1. f[i - 1] \in Int /\ q[i] \in Int /\ f[i] = f[i - 1] + q[i]
    BY <1>2, <1>13, <1>16
  <2> QED
    BY <2>1
<1>17. \A i \in 0 .. n : i \in P
  <2>1. P \in SUBSET (0 .. n) /\ 0 \in P
    BY <1>12
  <2> HIDE DEF P
  <2> QED
    BY <1>16, <2>1, Upwards
<1>18. f \in [0 .. n -> Int]
  BY <1>15, <1>17
<1>19. SumRun(f, q)
  BY <1>1, <1>12, <1>13, <1>18 DEF SumRun
<1> QED
  BY <1>1, <1>9, <1>14, <1>19

(* The first k messages end where EndRun says. *)
LEMMA EndIsSum ==
    ASSUME NEW q \in Seq(Int), NEW from \in Nat, NEW f, EndRun(f, q, from),
           NEW k \in 1 .. Len(q)
    PROVE  from + Total(SubSeq(q, 1, k)) = f[k]
<1>1. PICK n \in Nat : n = Len(q)
  BY LenProperties
<1>2. k \in Nat /\ k <= n /\ 1 <= k
  BY <1>1
<1>3. PICK p \in Seq(Int) :
        p = SubSeq(q, 1, k) /\ Len(p) = k /\ \A i \in 1 .. k : p[i] = q[i]
  <2>1. \A i \in 1 .. k : q[i] \in Int
    BY <1>1, <1>2, ElementOfSeq
  <2>2. /\ SubSeq(q, 1, k) \in Seq(Int)
        /\ Len(SubSeq(q, 1, k)) = k
        /\ \A i \in 1 .. k : SubSeq(q, 1, k)[i] = q[i]
    BY <1>2, <2>1, SubSeqProperties
  <2> QED
    BY <2>2
<1>4. PICK g : SumRun(g, p) /\ Total(p) = g[Len(p)]
  BY SumRuns
<1> DEFINE P == {i \in 0 .. k : from + g[i] = f[i]}
<1>5. P \in SUBSET (0 .. k) /\ 0 \in P
  BY <1>4 DEF SumRun, EndRun
<1>6. ASSUME NEW i \in 1 .. k, i - 1 \in P PROVE i \in P
  <2>1. g[i - 1] \in Int /\ g[i] = g[i - 1] + p[i] /\ p[i] = q[i]
    BY <1>2, <1>3, <1>4 DEF SumRun
  <2>2. i \in 1 .. Len(q) /\ i - 1 \in 0 .. k
    BY <1>1, <1>2
  <2>3. f[i] = f[i - 1] + q[i]
    BY <2>2 DEF EndRun
  <2>4. from + g[i - 1] = f[i - 1]
    BY <1>6
  <2>5. q[i] \in Int
    BY <2>2, ElementOfSeq
  <2> QED
    BY <2>1, <2>3, <2>4, <2>5
<1> HIDE DEF P
<1>7. \A i \in 0 .. k : i \in P
  BY <1>2, <1>5, <1>6, Upwards
<1> QED
  BY <1>2, <1>3, <1>4, <1>7 DEF P


(* Later messages end later. *)
LEMMA EndsGrow ==
    ASSUME NEW q \in Seq(Int), NEW from \in Nat, NEW f, EndRun(f, q, from)
    PROVE  \A i \in 0 .. Len(q) : f[i] \in Nat /\ from <= f[i] /\ f[i] <= f[Len(q)]
<1>1. PICK n \in Nat : n = Len(q)
  BY LenProperties
<1>2. /\ \A i \in 0 .. n : f[i] \in Nat
      /\ f[0] = from /\ \A i \in 1 .. n : f[i - 1] < f[i]
  BY <1>1 DEF EndRun
<1> DEFINE P == {i \in 0 .. n : from <= f[i]}
           Q == {i \in 0 .. n : \A j \in 0 .. i : f[j] <= f[i]}
<1>3. P \in SUBSET (0 .. n) /\ 0 \in P
  BY <1>2
<1>4. ASSUME NEW i \in 1 .. n, i - 1 \in P PROVE i \in P
  BY <1>2, <1>4
<1>5. \A i \in 0 .. n : i \in P
  <2> HIDE DEF P
  <2> QED
    BY <1>3, <1>4, Upwards
<1>6. Q \in SUBSET (0 .. n) /\ 0 \in Q
  BY <1>2
<1>7. ASSUME NEW i \in 1 .. n, i - 1 \in Q PROVE i \in Q
  <2>1. f[i - 1] < f[i] /\ i \in 0 .. n /\ i - 1 \in 0 .. n
    BY <1>2
  <2>2. ASSUME NEW j \in 0 .. i PROVE f[j] <= f[i]
    <3>1. CASE j = i
      BY <1>2, <3>1
    <3>2. CASE j # i
      <4>1. j \in 0 .. i - 1 /\ j \in 0 .. n
        BY <3>2
      <4>2. f[j] <= f[i - 1]
        BY <1>7, <4>1
      <4> QED
        BY <1>2, <2>1, <4>1, <4>2
    <3> QED
      BY <3>1, <3>2
  <2> QED
    BY <2>1, <2>2
<1>8. \A i \in 0 .. n : i \in Q
  <2> HIDE DEF Q
  <2> QED
    BY <1>6, <1>7, Upwards
<1>9. n \in Q
  BY <1>8
<1> QED
  BY <1>1, <1>2, <1>5, <1>9

LEMMA FramesFound ==
    ASSUME RxInv, FrameInv
    PROVE  MessageFraming
<1> SUFFICES ASSUME ~endread
             PROVE  /\ QueuedEnds \subseteq marks
                    /\ \A m \in marks : consumed < m /\ m < rsn => m \in QueuedEnds
                    /\ rmsgavail = rsn - Max(QueuedEnds \cup {consumed})
  BY DEF MessageFraming
<1>1. /\ rmsgsize \in Seq(Int) /\ consumed \in Nat /\ rsn \in Nat /\ rmsgavail \in Int
      /\ tasn \in Nat /\ rsn <= tasn /\ marks \in SUBSET (0 .. tasn)
  BY DEF RxInv, RxTyped, FrameInv, RxFramed
<1>2. PICK f : EndsAt(f, rmsgsize, rmsgavail, consumed, rsn, tasn, endwrite, marks)
  BY DEF FrameInv, RxFramed, Framed
<1>3. PICK n \in Nat : n = Len(rmsgsize) /\ DOMAIN rmsgsize = 1 .. n
  BY <1>1, LenProperties
<1>4. EndRun(f, rmsgsize, consumed) /\ f[n] + rmsgavail = rsn /\ f[0] = consumed
  BY <1>2, <1>3 DEF EndsAt, EndRun
<1>5. QueuedEnds = {f[i] : i \in 1 .. n}
  <2>1. ASSUME NEW i \in 1 .. n
        PROVE  consumed + FoldLeft(+, 0, SubSeq(rmsgsize, 1, i)) = f[i]
    <3>1. consumed + Total(SubSeq(rmsgsize, 1, i)) = f[i]
      BY <1>1, <1>3, <1>4, EndIsSum
    <3> QED
      BY <3>1 DEF Total
  <2> QED
    BY <1>3, <2>1 DEF QueuedEnds
<1>6. QueuedEnds \subseteq marks
  BY <1>2, <1>3, <1>5 DEF EndsAt
<1>7. ASSUME NEW m \in marks, consumed < m, m < rsn PROVE m \in QueuedEnds
  <2>1. m \in 0 .. tasn
    BY <1>1, <1>7
  <2>2. m <= rsn /\ m # tasn
    BY <1>1, <1>7, <2>1
  <2>3. \E i \in 1 .. Len(rmsgsize) : m = f[i]
    BY <1>2, <1>7, <2>2 DEF EndsAt
  <2> QED
    BY <1>3, <1>5, <2>3
<1>8. \A i \in 0 .. n : f[i] \in Nat /\ consumed <= f[i] /\ f[i] <= f[n]
  BY <1>1, <1>3, <1>4, EndsGrow
<1>9. Max(QueuedEnds \cup {consumed}) = f[n]
  <2>1. f[n] \in QueuedEnds \cup {consumed}
    <3>1. CASE n = 0
      BY <1>4, <3>1
    <3>2. CASE n # 0
      BY <1>5, <3>2
    <3> QED
      BY <3>1, <3>2
  <2>2. ASSUME NEW y \in QueuedEnds \cup {consumed} PROVE y \in Nat /\ y <= f[n]
    <3>1. CASE y = consumed
      BY <1>1, <1>8, <3>1
    <3>2. CASE y \in QueuedEnds
      BY <1>5, <1>8, <3>2
    <3> QED
      BY <3>1, <3>2
  <2>3. f[n] \in Nat
    BY <1>8
  <2>4. ASSUME NEW x \in QueuedEnds \cup {consumed},
               \A y \in QueuedEnds \cup {consumed} : x >= y
        PROVE  x = f[n]
    BY <2>1, <2>2, <2>3, <2>4
  <2>5. \A y \in QueuedEnds \cup {consumed} : f[n] >= y
    BY <2>2, <2>3
  <2> QED
    BY <2>1, <2>4, <2>5 DEF Max
<1>10. rmsgavail = rsn - Max(QueuedEnds \cup {consumed})
  <2>1. f[n] \in Nat
    BY <1>8
  <2> QED
    BY <1>1, <1>4, <1>9, <2>1
<1> QED
  BY <1>6, <1>7, <1>10

(* rxData() puts the ends of messages where the writer put them, however the  *)
(* segments arrived, and readData() and readMessage() keep them there: what   *)
(* waits in rmsgsize ends at the writer's marks, no mark up to rsn is missing,*)
(* and rmsgavail counts the bytes behind the last of them.                    *)
THEOREM MessagesFramed ==
    ASSUME 0 \notin MessageSizes
    PROVE  Spec => []MessageFraming
<1>1. RxInv /\ FrameInv => MessageFraming
  BY FramesFound
<1> QED
  BY <1>1, RxInvAlways, FrameInvAlways, PTL


-----------------------------------------------------------------------------
(* No byte is lost.                                                        *)

(* The receiver has the byte at b, or needs none any more. *)
Has(b) == endread \/ b < rsn \/ Held(b, Range(rahead))

Got(s) == \A b \in Nat : s.tsn <= b /\ b < s.tsn + s.size => Has(b)

(* While there is one flow, it is the one the stream is attached to. *)
AttachOK ==
    /\ nflows \in Nat /\ flow \in {0, nflows} /\ usidflow \in {0, 1}
    /\ att # "none" => flow # 0 /\ usidflow = flow

(* The receiver knows the stream before anything is acknowledged and before *)
(* a Data packet is sent.                                                   *)
OpenOK ==
    /\ init \in BOOLEAN /\ phantom = 0
    /\ ratt.flow = IF opened THEN 1 ELSE 0
    /\ ~opened => init /\ att # "active" /\ acks = {}

\* A packet for a receiver that may not know the stream.
Opens(p) == p.type # "data" /\ (p.type = "attach" => p.creates /\ ~RootParent)

PacketsOK ==
    /\ \A n \in inflight \cup wire : pkts[n].flow = 1
    /\ \A n \in wire : opened \/ Opens(pkts[n])

KnownInv == AttachOK /\ OpenOK /\ PacketsOK

(* What the sender has forgotten the receiver has. *)
AcksOK ==
    /\ acks \subseteq inflight
    /\ \A n \in acks : pkts[n].type # "attach" => Got(pkts[n].seg)

PendingOK ==
    /\ \A s \in Pending : s.tsn \in twait \/ Got(s)
    /\ \A s, u \in Pending : s.tsn = u.tsn => s.size = u.size
    /\ \A s \in Pending : s.tsn <= tasn /\ (s.tsn < tasn \/ endwrite)
    /\ EveryByteHeld

CoverInv == AcksOK /\ PendingOK

HeldInv == nflows \in Nat /\ (nflows <= 1 => KnownInv /\ CoverInv)

(* The writer of a root stream does not run further ahead of the first       *)
(* acknowledgment than the position in an Init packet can tell.              *)
InitReaches == RootParent /\ init => tasn <= InitMaxTsn

(* The receiver's record rx has the bytes of s. *)
Covers(rx, s) ==
    \A b \in Nat : s.tsn <= b /\ b < s.tsn + s.size => b < rx.rsn \/ Held(b, Range(rx.rahead))

LEMMA TakeCovers ==
    ASSUME NEW rx \in RxRec, NEW s \in Segment
    PROVE  /\ Covers(Take(rx, s), s)
           /\ rx.rsn <= Take(rx, s).rsn
           /\ Range(rx.rahead) \subseteq Range(Take(rx, s).rahead)
<1>1. PICK new \in RxRec : /\ new = Take(rx, s)
                           /\ \/ Keeps(rx, s, new) \/ Drops(rx, s, new)
                              \/ \E act \in Nat : Appends(rx, s, new, act)
  BY TakeDoes
<1>2. rx.rsn \in Nat /\ rx.rahead \in Seq(Segment) /\ s.tsn \in Nat /\ s.size \in Nat
  BY DEF RxRec, Segment
<1>3. CASE Keeps(rx, s, new)
  <2>1. Range(new.rahead) = Range(rx.rahead) \cup {s}
    BY <1>2, <1>3, RangeAppend DEF Keeps
  <2>2. Covers(new, s)
    BY <2>1 DEF Covers, Held
  <2>3. rx.rsn <= new.rsn
    BY <1>2, <1>3 DEF Keeps
  <2> QED
    BY <1>1, <2>1, <2>2, <2>3
<1>4. ASSUME new.rahead = rx.rahead, rx.rsn <= new.rsn, new.rsn \in Nat, s.tsn + s.size <= new.rsn
      PROVE  Covers(new, s) /\ rx.rsn <= new.rsn /\ Range(rx.rahead) \subseteq Range(new.rahead)
  BY <1>2, <1>4 DEF Covers
<1>5. CASE Drops(rx, s, new)
  BY <1>1, <1>2, <1>4, <1>5 DEF Drops
<1>6. CASE \E act \in Nat : Appends(rx, s, new, act)
  BY <1>1, <1>2, <1>4, <1>6 DEF Appends
<1> QED
  BY <1>1, <1>3, <1>5, <1>6

(* Nothing is forgotten from one record to the next. *)
LEMMA CoversOn ==
    ASSUME NEW rx, NEW new, rx.rsn \in Nat, new.rsn \in Nat, rx.rsn <= new.rsn,
           Range(rx.rahead) \subseteq Range(new.rahead), NEW s, Covers(rx, s)
    PROVE  Covers(new, s)
<1> SUFFICES ASSUME NEW b \in Nat, s.tsn <= b, b < s.tsn + s.size
             PROVE  b < new.rsn \/ Held(b, Range(new.rahead))
  BY DEF Covers
<1>1. b < rx.rsn \/ Held(b, Range(rx.rahead))
  BY DEF Covers
<1>2. CASE b < rx.rsn
  BY <1>2
<1>3. CASE Held(b, Range(rx.rahead))
  BY <1>3 DEF Held
<1> QED
  BY <1>1, <1>2, <1>3

LEMMA TakeAllCovers ==
    ASSUME NEW base \in RxRec, NEW q \in Seq(Segment)
    PROVE  /\ FoldLeft(Take, base, q) \in RxRec
           /\ base.rsn <= FoldLeft(Take, base, q).rsn
           /\ \A j \in 1 .. Len(q) : Covers(FoldLeft(Take, base, q), q[j])
<1>1. PICK f : TakeRun(f, base, q) /\ FoldLeft(Take, base, q) = f[Len(q)]
  BY TakeRuns
<1>2. PICK n \in Nat : n = Len(q)
  BY LenProperties
<1>3. /\ f \in [0 .. n -> RxRec] /\ f[0] = base
      /\ \A i \in 1 .. n : f[i] = Take(f[i - 1], q[i])
  BY <1>1, <1>2 DEF TakeRun
<1>4. \A i \in 1 .. n : q[i] \in Segment
  BY <1>2, ElementOfSeq
<1>5. \A i \in 0 .. n : f[i] \in RxRec /\ f[i].rsn \in Nat
  BY <1>3 DEF RxRec
<1> DEFINE P == {i \in 0 .. n : base.rsn <= f[i].rsn /\ \A j \in 1 .. i : Covers(f[i], q[j])}
<1>6. P \in SUBSET (0 .. n) /\ 0 \in P
  BY <1>3, <1>5
<1>7. ASSUME NEW i \in 1 .. n, i - 1 \in P PROVE i \in P
  <2>1. PICK a \in RxRec, c \in RxRec :
          a = f[i - 1] /\ c = f[i] /\ c = Take(a, q[i]) /\ a.rsn \in Nat /\ c.rsn \in Nat
    <3>1. i - 1 \in 0 .. n /\ i \in 0 .. n
      OBVIOUS
    <3> QED
      BY <1>3, <1>5, <3>1
  <2>2. Covers(c, q[i]) /\ a.rsn <= c.rsn /\ Range(a.rahead) \subseteq Range(c.rahead)
    BY <1>4, <2>1, TakeCovers
  <2>3. base.rsn \in Nat /\ base.rsn <= a.rsn /\ \A j \in 1 .. i - 1 : Covers(a, q[j])
    <3>1. base.rsn \in Nat
      BY DEF RxRec
    <3>2. base.rsn <= f[i - 1].rsn /\ \A j \in 1 .. i - 1 : Covers(f[i - 1], q[j])
      BY <1>7
    <3> QED
      BY <2>1, <3>1, <3>2
  <2>4. ASSUME NEW j \in 1 .. i PROVE Covers(c, q[j])
    <3>1. CASE j = i
      BY <2>2, <3>1
    <3>2. CASE j # i
      <4>1. j \in 1 .. i - 1
        BY <3>2
      <4>2. Covers(a, q[j])
        BY <2>3, <4>1
      <4> QED
        BY <2>1, <2>2, <4>2, CoversOn
    <3> QED
      BY <3>1, <3>2
  <2>5. base.rsn <= c.rsn
    BY <2>1, <2>2, <2>3
  <2>6. i \in 0 .. n /\ base.rsn <= f[i].rsn /\ \A j \in 1 .. i : Covers(f[i], q[j])
    BY <2>1, <2>4, <2>5
  <2> QED
    BY <2>6
<1> HIDE DEF P
<1>8. n \in P
  <2>1. \A i \in 0 .. n : i \in P
    BY <1>6, <1>7, Upwards, Zenon
  <2> QED
    BY <2>1
<1>9. base.rsn <= f[n].rsn /\ \A j \in 1 .. n : Covers(f[n], q[j])
  BY <1>8 DEF P
<1> QED
  BY <1>1, <1>2, <1>5, <1>9

(* rxData() forgets no byte, and has those of the segment it was given. *)
LEMMA InOrderCovers ==
    ASSUME RxInv, ~endread, NEW s \in Segment, s.tsn <= rsn, RxInOrder(s)
    PROVE  /\ \A b \in Nat : Has(b) => Has(b)'
           /\ Got(s)'
<1> DEFINE base == [rsn |-> rsn, rsegs |-> rsegs, rahead |-> <<>>,
                    ravail |-> ravail, rbufused |-> rbufused + s.size,
                    rmsgsize |-> rmsgsize, rmsgavail |-> rmsgavail, closed |-> FALSE]
           q == <<s>> \o rahead
<1>1. RxTyped /\ Ordered
  BY DEF RxInv
<1>2. base \in RxRec /\ base.rsn = rsn /\ rsn \in Nat
  <2>1. s.size \in Nat
    BY DEF Segment
  <2>2. rbufused + s.size \in Int /\ <<>> \in Seq(Segment)
    BY <1>1, <2>1 DEF RxTyped
  <2> QED
    BY <1>1, <2>2 DEF RxTyped, RxRec
<1>3. q \in Seq(Segment)
  BY <1>1, SortedAhead DEF RxTyped, Ordered
<1>4. PICK n \in Nat : n = Len(rahead) /\ DOMAIN rahead = 1 .. n
  BY <1>1, LenProperties DEF RxTyped
<1>5. Len(q) = n + 1 /\ q[1] = s /\ \A i \in 1 .. n : q[i + 1] = rahead[i]
  <2>1. <<s>> \in Seq(Segment) /\ Len(<<s>>) = 1 /\ <<s>>[1] = s
    OBVIOUS
  <2>2. /\ Len(q) = 1 + n
        /\ \A i \in 1 .. 1 + n : q[i] = IF i <= 1 THEN <<s>>[i] ELSE rahead[i - 1]
    BY <1>1, <1>4, <2>1, ConcatProperties DEF RxTyped
  <2>3. ASSUME NEW i \in 1 .. n PROVE q[i + 1] = rahead[i]
    BY <2>2
  <2> QED
    BY <2>1, <2>2, <2>3
<1>6. PICK rx \in RxRec : /\ rx = FoldLeft(Take, base, q) /\ rsn <= rx.rsn
                          /\ \A j \in 1 .. Len(q) : Covers(rx, q[j])
  <2> HIDE DEF base, q
  <2> QED
    BY <1>2, <1>3, TakeAllCovers
<1>7. rsn' = rx.rsn /\ (endread' \/ rahead' = rx.rahead)
  <2>1. /\ rsn' = rx.rsn
        /\ IF EndsNow(rx) THEN EndRead("peer")
           ELSE /\ rsegs' = rx.rsegs /\ rahead' = rx.rahead
                /\ ravail' = rx.ravail /\ rbufused' = rx.rbufused
                /\ rmsgsize' = rx.rmsgsize /\ rmsgavail' = rx.rmsgavail
                /\ UNCHANGED ended
    BY <1>6 DEF RxInOrder
  <2> QED
    BY <2>1 DEF EndRead, endread
<1> HIDE DEF base, q
<1>8. rx.rsn \in Nat
  BY DEF RxRec
<1>9. ASSUME NEW b \in Nat, b < rx.rsn \/ Held(b, Range(rx.rahead)) PROVE Has(b)'
  BY <1>7, <1>9 DEF Has
<1>10. Got(s)'
  <2>1. Covers(rx, s)
    BY <1>5, <1>6
  <2> QED
    BY <1>9, <2>1 DEF Got, Covers
<1>11. ASSUME NEW b \in Nat, Has(b) PROVE Has(b)'
  <2>1. CASE b < rsn
    BY <1>2, <1>6, <1>8, <1>9, <2>1
  <2>2. CASE Held(b, Range(rahead))
    <3>1. PICK i \in 1 .. n : rahead[i].tsn <= b /\ b < rahead[i].tsn + rahead[i].size
      BY <1>4, <2>2 DEF Held, Range
    <3>2. Covers(rx, rahead[i])
      <4>1. i + 1 \in 1 .. Len(q) /\ q[i + 1] = rahead[i]
        BY <1>5
      <4> QED
        BY <1>6, <4>1
    <3> QED
      BY <1>9, <3>1, <3>2 DEF Covers
  <2> QED
    BY <1>11, <2>1, <2>2 DEF Has
<1> QED
  BY <1>10, <1>11

LEMMA AheadCovers ==
    ASSUME RxInv, ~endread, NEW s \in Segment, ~(s.tsn <= rsn), RxAhead(s)
    PROVE  /\ \A b \in Nat : Has(b) => Has(b)'
           /\ Got(s)'
<1>1. RxTyped /\ Ordered
  BY DEF RxInv
<1>2. rsn' = rsn /\ ended' = ended
  BY DEF RxAhead
<1>3. PICK lo \in 0 .. Len(rahead) :
        lo = Cardinality({i \in DOMAIN rahead : rahead[i].tsn < s.tsn})
  BY <1>1, LowerCount DEF RxTyped, Ordered
<1>4. PICK n \in Nat : n = Len(rahead) /\ DOMAIN rahead = 1 .. n
  BY <1>1, LenProperties DEF RxTyped
<1>5. s.tsn \in Nat /\ s.size \in Nat /\ \A i \in 1 .. n : rahead[i].size \in Nat
  <2>1. \A i \in 1 .. n : rahead[i] \in Segment
    BY <1>1, <1>4, ElementOfSeq DEF RxTyped
  <2> QED
    BY <2>1 DEF Segment
<1>6. \/ rahead' = InsertAt(rahead, lo + 1, s)
      \/ /\ rahead' = rahead /\ lo + 1 \in 1 .. n
         /\ rahead[lo + 1].tsn = s.tsn /\ s.size <= rahead[lo + 1].size
  BY <1>3, <1>4 DEF RxAhead
<1>7. Range(rahead) \subseteq Range(rahead') /\ \E x \in Range(rahead') : x.tsn = s.tsn /\ s.size <= x.size /\ x.size \in Nat
  <2>1. CASE rahead' = InsertAt(rahead, lo + 1, s)
    <3>1. PICK r \in Seq(Segment) :
            /\ r = rahead' /\ Len(r) = n + 1
            /\ \A i \in 1 .. n + 1 :
                  r[i] = IF i <= lo THEN rahead[i] ELSE IF i = lo + 1 THEN s ELSE rahead[i - 1]
      <4>1. Inserted(InsertAt(rahead, lo + 1, s), rahead, lo, s)
        BY <1>1, InsertDoes, Zenon DEF RxTyped
      <4> QED
        BY <1>4, <2>1, <4>1, Zenon DEF Inserted
    <3>2. DOMAIN r = 1 .. n + 1 /\ lo \in 0 .. n
      BY <1>4, <3>1, LenProperties
    <3>3. ASSUME NEW i \in 1 .. n PROVE rahead[i] \in Range(r)
      <4>1. CASE i <= lo
        <5>1. i \in 1 .. n + 1 /\ r[i] = rahead[i]
          BY <3>1, <4>1
        <5> QED
          BY <3>2, <5>1 DEF Range
      <4>2. CASE i > lo
        <5>1. i + 1 \in 1 .. n + 1 /\ r[i + 1] = rahead[i]
          BY <3>1, <3>2, <4>2
        <5> QED
          BY <3>2, <5>1 DEF Range
      <4> QED
        BY <3>2, <4>1, <4>2
    <3>4. lo + 1 \in 1 .. n + 1 /\ r[lo + 1] = s
      BY <3>1, <3>2
    <3>5. s \in Range(r)
      BY <3>2, <3>4 DEF Range
    <3>6. Range(rahead) \subseteq Range(r)
      BY <1>4, <3>3 DEF Range
    <3> QED
      BY <1>5, <3>1, <3>5, <3>6
  <2>2. CASE /\ rahead' = rahead /\ lo + 1 \in 1 .. n
             /\ rahead[lo + 1].tsn = s.tsn /\ s.size <= rahead[lo + 1].size
    <3>1. rahead[lo + 1] \in Range(rahead')
      BY <1>4, <2>2 DEF Range
    <3> QED
      BY <1>5, <2>2, <3>1
  <2> QED
    BY <1>6, <2>1, <2>2
<1>8. Got(s)'
  <2>1. PICK x \in Range(rahead') : x.tsn = s.tsn /\ s.size <= x.size /\ x.size \in Nat
    BY <1>7
  <2>2. ASSUME NEW b \in Nat, s.tsn <= b, b < s.tsn + s.size PROVE Held(b, Range(rahead'))
    <3>1. x.tsn <= b /\ b < x.tsn + x.size
      BY <1>5, <2>1, <2>2
    <3> QED
      BY <2>1, <3>1 DEF Held
  <2> QED
    BY <2>2 DEF Got, Has
<1>9. ASSUME NEW b \in Nat, Has(b) PROVE Has(b)'
  <2>1. CASE b < rsn
    BY <1>2, <2>1 DEF Has
  <2>2. CASE Held(b, Range(rahead))
    BY <1>7, <2>2 DEF Held, Has
  <2> QED
    BY <1>9, <2>1, <2>2 DEF Has
<1> QED
  BY <1>8, <1>9

LEMMA RxDataCovers ==
    ASSUME RxInv, NEW s \in Segment, RxData(s)
    PROVE  /\ \A b \in Nat : Has(b) => Has(b)'
           /\ Got(s)'
<1>1. CASE endread
  <2>1. endread'
    BY <1>1 DEF RxData, rxvars, endread
  <2> QED
    BY <2>1 DEF Has, Got
<1>2. CASE ~endread /\ s.tsn <= rsn
  BY <1>2, InOrderCovers DEF RxData
<1>3. CASE ~endread /\ ~(s.tsn <= rsn)
  BY <1>3, AheadCovers DEF RxData
<1> QED
  BY <1>1, <1>2, <1>3

LEMMA ReaderForgetsNothing ==
    ASSUME Reader
    PROVE  \A b \in Nat : Has(b) => Has(b)'
<1>1. rsn' = rsn /\ (endread' \/ (rahead' = rahead /\ ended' = ended))
  <2>1. ASSUME NEW rd, AfterRead(rd) PROVE rsn' = rsn /\ (endread' \/ (rahead' = rahead /\ ended' = ended))
    BY <2>1 DEF AfterRead, EndRead, endread
  <2>2. ASSUME NEW n, ReadData(n) \/ ReadMessage(n)
        PROVE  rsn' = rsn /\ (endread' \/ (rahead' = rahead /\ ended' = ended))
    BY <2>1, <2>2 DEF ReadData, ReadMessage
  <2>3. CASE ShutdownRead
    BY <2>3 DEF ShutdownRead, EndRead, endread
  <2>4. ASSUME NEW n, SetReceiveBuffer(n) PROVE rsn' = rsn /\ rahead' = rahead /\ ended' = ended
    BY <2>4 DEF SetReceiveBuffer
  <2> QED
    BY <2>2, <2>3, <2>4 DEF Reader
<1> QED
  BY <1>1 DEF Has, endread

(* Packets come from transmit(); all else takes them away. *)
Kept == /\ wire' \subseteq wire /\ inflight' \subseteq inflight
        /\ \A n \in inflight' \cup wire' : pkts'[n] = pkts[n]

LEMMA SettleKeeps ==
    ASSUME NEW S, Settle(S)
    PROVE  Kept /\ acks' \subseteq acks
  BY DEF Settle, Kept

LEMMA ArriveKeeps ==
    ASSUME NEW n, NEW a, Arrive(n, a)
    PROVE  Kept
  BY DEF Arrive, Kept

LEMMA PacketSteps ==
    ASSUME [Next]_vars
    PROVE  Kept \/ Transmit
<1>1. ASSUME UNCHANGED <<wire, inflight, pkts>> PROVE Kept
  BY <1>1 DEF Kept
<1>2. CASE AppWrite
  BY <1>1, <1>2 DEF AppWrite, WriteData
<1>3. CASE Sender
  <2>1. CASE WindowUpdate \/ FlowStarted
    BY <1>1, <2>1 DEF WindowUpdate, FlowStarted
  <2>2. CASE ClearPrimary
    BY <2>2, SettleKeeps DEF ClearPrimary
  <2>3. ASSUME NEW n \in inflight, Acked(n) \/ Missed(n) PROVE Kept
    BY <2>3, SettleKeeps DEF Acked, Missed
  <2> QED
    BY <1>3, <2>1, <2>2, <2>3 DEF Sender
<1>4. CASE Network
  BY <1>4 DEF Network, Lose, Kept
<1>5. CASE App
  BY <1>1, <1>5 DEF App, txvars
<1>6. ASSUME NEW n \in wire, Deliver(n) PROVE Kept
  BY <1>6, ArriveKeeps DEF Deliver, RxInitPacket, RxInitDelayed, RxDataPacket,
                           RxAttachKnown, RxAttachUnknown
<1>7. CASE UNCHANGED vars
  BY <1>1, <1>7 DEF vars, txvars
<1> QED
  BY <1>2, <1>3, <1>4, <1>5, <1>6, <1>7 DEF Next

LEMMA FlowsGrow ==
    ASSUME nflows \in Nat, [Next]_vars
    PROVE  nflows <= nflows' /\ nflows' \in Nat
<1>1. nflows' = nflows \/ nflows' = nflows + 1
  <2>1. CASE AppWrite
    BY <2>1 DEF AppWrite, WriteData
  <2>2. CASE Sender
    <3>1. CASE Transmit
      BY <3>1 DEF Transmit, TransmitNothing, TransmitData, TransmitInit, TransmitAttach, TxFrame
    <3> QED
      BY <2>2, <3>1 DEF Sender, WindowUpdate, FlowStarted, ClearPrimary, Acked, Missed
  <2>3. CASE Network
    BY <2>3 DEF Network, Lose
  <2>4. CASE App
    BY <2>4 DEF App, txvars
  <2>5. ASSUME NEW n \in wire, Deliver(n) PROVE nflows' = nflows
    BY <2>5 DEF Deliver, RxInitPacket, RxInitDelayed, RxDataPacket,
                RxAttachKnown, RxAttachUnknown, Arrive
  <2>6. CASE UNCHANGED vars
    BY <2>6 DEF vars, txvars
  <2> QED
    BY <2>1, <2>2, <2>3, <2>4, <2>5, <2>6 DEF Next
<1> QED
  BY <1>1

LEMMA EnqAttach ==
    ASSUME AttachOK, nflows <= 1, NEW q, TxEnqFlow(q), UNCHANGED <<nflows, flow>>
    PROVE  AttachOK' /\ (att' = "active" => att = "active")
<1>1. nflows \in Nat /\ nflows' = nflows /\ flow' = flow /\ flow \in {0, 1} /\ flow \in {0, nflows}
      /\ usidflow \in {0, 1} /\ (att # "none" => flow # 0 /\ usidflow = flow)
  BY DEF AttachOK
<1>2. CASE att # "none"
  BY <1>1, <1>2 DEF TxEnqFlow, AttachOK
<1>3. CASE att = "none" /\ flow = 0
  BY <1>1, <1>3 DEF TxEnqFlow, AttachOK
<1>4. CASE att = "none" /\ flow # 0
  <2>1. /\ att' = "attaching" /\ usidflow' = IF usidflow = 0 THEN flow ELSE usidflow
    BY <1>4 DEF TxEnqFlow
  <2>2. usidflow' = 1 /\ flow = 1
    BY <1>1, <1>4, <2>1
  <2> QED
    BY <1>1, <2>1, <2>2 DEF AttachOK
<1> QED
  BY <1>2, <1>3, <1>4

LEMMA AttachStep ==
    ASSUME AttachOK, nflows <= 1, nflows' <= 1, [Next]_vars
    PROVE  AttachOK'
<1>1. ASSUME UNCHANGED <<nflows, flow, att, usidflow>> PROVE AttachOK'
  BY <1>1 DEF AttachOK
<1>2. CASE AppWrite
  <2>1. ASSUME NEW n, NEW f, WriteData(n, f) PROVE AttachOK'
    <3>1. TxEnqFlow(tqueue') /\ nflows' = nflows /\ flow' = flow
      BY <2>1 DEF WriteData
    <3> QED
      BY <3>1, EnqAttach
  <2> QED
    BY <1>2, <2>1 DEF AppWrite
<1>3. CASE Sender
  <2>1. CASE Transmit
    BY <1>1, <2>1 DEF Transmit, TransmitNothing, TransmitData, TransmitInit, TransmitAttach, TxFrame
  <2>2. CASE WindowUpdate
    BY <1>1, <2>2 DEF WindowUpdate
  <2>3. CASE FlowStarted
    <3>1. nflows \in Nat /\ usidflow \in {0, 1} /\ att = "none"
      BY <2>3 DEF AttachOK, FlowStarted
    <3>2. nflows' = 1 /\ flow' = 1
      BY <2>3, <3>1 DEF FlowStarted
    <3>3. \/ att' = "none" /\ usidflow' = usidflow
          \/ usidflow' = 1
      BY <2>3, <3>1, <3>2 DEF FlowStarted
    <3> QED
      BY <3>1, <3>2, <3>3 DEF AttachOK
  <2>4. CASE ClearPrimary
    BY <2>4 DEF ClearPrimary, AttachOK
  <2>5. ASSUME NEW n \in inflight, Acked(n) PROVE AttachOK'
    <3>1. /\ nflows' = nflows /\ flow' = flow /\ usidflow' = usidflow
          /\ att' = att \/ att # "none"
      BY <2>5 DEF Acked
    <3> QED
      BY <3>1 DEF AttachOK
  <2>6. ASSUME NEW n \in inflight, Missed(n) PROVE AttachOK'
    <3>1. TxEnqFlow(tqueue') /\ nflows' = nflows /\ flow' = flow
      BY <2>6 DEF Missed
    <3> QED
      BY <3>1, EnqAttach
  <2> QED
    BY <1>3, <2>1, <2>2, <2>3, <2>4, <2>5, <2>6 DEF Sender
<1>4. CASE Network
  BY <1>1, <1>4 DEF Network, Lose
<1>5. CASE App
  BY <1>1, <1>5 DEF App, txvars
<1>6. ASSUME NEW n \in wire, Deliver(n) PROVE AttachOK'
  <2>1. ASSUME NEW a, Arrive(n, a) PROVE AttachOK'
    BY <1>1, <2>1 DEF Arrive
  <2> QED
    BY <1>6, <2>1 DEF Deliver, RxInitPacket, RxInitDelayed, RxDataPacket,
                      RxAttachKnown, RxAttachUnknown
<1>7. CASE UNCHANGED vars
  BY <1>1, <1>7 DEF vars, txvars
<1> QED
  BY <1>2, <1>3, <1>4, <1>5, <1>6, <1>7 DEF Next

LEMMA DeliverOpens ==
    ASSUME OpenOK, PacketsOK, NEW n \in wire, Deliver(n)
    PROVE  opened' = TRUE /\ ratt'.flow = 1 /\ phantom' = 0 /\ init' = init
           /\ (pkts[n].type = "attach" \/ RxData(pkts[n].seg)
               \/ (UNCHANGED rxvars /\ Arrive(n, FALSE)))
<1>1. pkts[n].flow = 1 /\ (opened \/ Opens(pkts[n])) /\ phantom = 0
      /\ ratt.flow = IF opened THEN 1 ELSE 0
  BY DEF OpenOK, PacketsOK
<1>2. Attached(n) <=> opened
  BY <1>1 DEF Attached
<1>3. Earlier(n).flow = ratt.flow
  <2>1. PICK x : x = Min2(ratt.sidseq, n)
    OBVIOUS
  <2> QED
    BY <2>1 DEF Earlier
<1>4. init' = init
  <2>1. ASSUME NEW a, Arrive(n, a) PROVE init' = init
    BY <2>1 DEF Arrive
  <2> QED
    BY <2>1 DEF Deliver, RxInitPacket, RxInitDelayed, RxDataPacket, RxAttachKnown, RxAttachUnknown
<1>5. ASSUME RxSubstream(n) PROVE opened' = TRUE /\ ratt'.flow = 1 /\ phantom' = 0
  BY <1>1, <1>5 DEF RxSubstream
<1>6. CASE RxInitPacket(n)
  BY <1>1, <1>2, <1>3, <1>4, <1>5, <1>6 DEF RxInitPacket
<1>7. CASE RxInitDelayed(n)
  BY <1>2, <1>7 DEF RxInitDelayed
<1>8. CASE RxDataPacket(n)
  <2>1. opened = TRUE /\ Attached(n)
    BY <1>1, <1>2, <1>8 DEF RxDataPacket, Opens, OpenOK
  <2> QED
    BY <1>1, <1>4, <1>8, <2>1 DEF RxDataPacket
<1>9. CASE RxAttachKnown(n)
  BY <1>1, <1>2, <1>3, <1>4, <1>9 DEF RxAttachKnown
<1>10. CASE RxAttachUnknown(n)
  BY <1>1, <1>4, <1>5, <1>10 DEF RxAttachUnknown, Opens
<1> QED
  BY <1>6, <1>7, <1>8, <1>9, <1>10 DEF Deliver

LEMMA OpenStep ==
    ASSUME AttachOK, OpenOK, PacketsOK, nflows <= 1, [Next]_vars
    PROVE  OpenOK'
<1>1. ASSUME UNCHANGED <<opened, ratt, phantom, init>>, acks' \subseteq acks,
             att' = "active" => att = "active"
      PROVE  OpenOK'
  BY <1>1 DEF OpenOK
<1>2. CASE AppWrite
  <2>1. ASSUME NEW n, NEW f, WriteData(n, f) PROVE OpenOK'
    <3>1. TxEnqFlow(tqueue') /\ nflows' = nflows /\ flow' = flow /\ init' = init /\ acks' = acks
      BY <2>1 DEF WriteData
    <3>2. att' = "active" => att = "active"
      BY <3>1, EnqAttach
    <3> QED
      BY <1>1, <1>2, <3>1, <3>2 DEF AppWrite
  <2> QED
    BY <1>2, <2>1 DEF AppWrite
<1>3. CASE Sender
  <2>0. UNCHANGED <<opened, ratt, phantom>>
    BY <1>3 DEF Sender
  <2>1. CASE Transmit
    BY <1>1, <2>0, <2>1 DEF Transmit, TransmitNothing, TransmitData, TransmitInit, TransmitAttach, TxFrame
  <2>2. CASE WindowUpdate
    BY <1>1, <2>0, <2>2 DEF WindowUpdate
  <2>3. CASE FlowStarted
    BY <1>1, <2>0, <2>3 DEF FlowStarted
  <2>4. CASE ClearPrimary
    BY <1>1, <2>0, <2>4, SettleKeeps DEF ClearPrimary
  <2>5. ASSUME NEW n \in inflight, Acked(n) PROVE OpenOK'
    <3>1. opened
      BY <2>5 DEF OpenOK, Acked
    <3>2. init' \in BOOLEAN
      BY <2>5 DEF OpenOK, Acked
    <3> QED
      BY <2>0, <3>1, <3>2 DEF OpenOK
  <2>6. ASSUME NEW n \in inflight, Missed(n) PROVE OpenOK'
    <3>1. /\ TxEnqFlow(tqueue') /\ nflows' = nflows /\ flow' = flow /\ init' = init
          /\ acks' \subseteq acks
      BY <2>6, SettleKeeps DEF Missed
    <3>2. att' = "active" => att = "active"
      BY <3>1, EnqAttach
    <3> QED
      BY <1>1, <2>0, <3>1, <3>2
  <2> QED
    BY <1>3, <2>1, <2>2, <2>3, <2>4, <2>5, <2>6 DEF Sender
<1>4. CASE Network
  BY <1>1, <1>4 DEF Network, Lose
<1>5. CASE App
  BY <1>1, <1>5 DEF App, txvars
<1>6. ASSUME NEW n \in wire, Deliver(n) PROVE OpenOK'
  BY <1>6, DeliverOpens DEF OpenOK
<1>7. CASE UNCHANGED vars
  BY <1>1, <1>7 DEF vars, txvars
<1> QED
  BY <1>2, <1>3, <1>4, <1>5, <1>6, <1>7 DEF Next

LEMMA PacketsStep ==
    ASSUME TxTyped, AttachOK, OpenOK, PacketsOK, CoverInv, InitReaches, nflows <= 1, [Next]_vars
    PROVE  PacketsOK'
<1>1. opened => opened'
  <2>1. opened' = opened \/ opened' = TRUE
    BY DeliverOpens DEF Next, AppWrite, Sender, Network, App, vars
  <2> QED
    BY <2>1
<1>2. CASE Kept
  BY <1>1, <1>2 DEF Kept, PacketsOK
<1>3. CASE Transmit /\ ~Kept
  <2>1. ASSUME NEW type, NEW seg, Put(type, seg), att # "none",
               type = "data" => opened,
               type = "attach" => opened \/ (init /\ ~RootParent)
        PROVE  PacketsOK'
    <3>1. flow = 1
      BY <2>1 DEF AttachOK
    <3>2. PICK p : p = [type |-> type, flow |-> flow, seg |-> seg, creates |-> init]
      OBVIOUS
    <3>3. p.flow = 1 /\ p.type = type /\ p.creates = init
      BY <3>1, <3>2
    <3>4. opened \/ Opens(p)
      BY <2>1, <3>3 DEF Opens
    <3>5. /\ inflight' = inflight \cup {npkts'} /\ wire' = wire \cup {npkts'}
          /\ pkts' = [n \in inflight' \cup wire' |-> IF n = npkts' THEN p ELSE pkts[n]]
      BY <2>1, <3>2 DEF Put
    <3>6. ASSUME NEW n \in inflight' \cup wire' PROVE pkts'[n].flow = 1
      BY <3>3, <3>5 DEF PacketsOK
    <3>7. ASSUME NEW n \in wire' PROVE opened' \/ Opens(pkts'[n])
      <4>1. opened \/ Opens(IF n = npkts' THEN p ELSE pkts[n])
        BY <3>4, <3>5 DEF PacketsOK
      <4>2. pkts'[n] = IF n = npkts' THEN p ELSE pkts[n]
        BY <3>5
      <4> QED
        BY <1>1, <4>1, <4>2
    <3> QED
      BY <3>6, <3>7 DEF PacketsOK
  <2>2. CASE TransmitNothing
    BY <1>3, <2>2 DEF TransmitNothing, Kept
  <2>3. CASE TransmitData
    BY <2>1, <2>3 DEF TransmitData, OpenOK
  <2>4. CASE TransmitInit
    BY <2>1, <2>4 DEF TransmitInit
  <2>5. CASE TransmitAttach
    <3>1. att = "attaching" /\ (InitUsable => ~RootParent) /\ LiveQueue # <<>> /\ Put("attach", NoSegment)
      BY <2>5 DEF TransmitAttach
    <3>2. ASSUME ~opened, RootParent PROVE InitUsable
      <4>1. init /\ usidflow = flow
        BY <3>1, <3>2 DEF OpenOK, AttachOK
      <4>2. Head(LiveQueue) \in Range(tqueue) /\ Head(LiveQueue) \in Segment
        <5>1. LiveQueue \in Seq(Segment) /\ Range(LiveQueue) \subseteq Range(tqueue)
          BY LiveQueueRange DEF TxTyped
        <5> QED
          BY <3>1, <5>1, HeadTail
      <4>3. Head(LiveQueue).tsn <= tasn /\ Head(LiveQueue).tsn \in Nat
        BY <4>2 DEF CoverInv, PendingOK, Pending, Segment
      <4>4. tasn <= InitMaxTsn /\ tasn \in Nat /\ InitMaxTsn \in Nat
        BY <3>2, <4>1, StreamTxAssumption DEF InitReaches, TxTyped
      <4>5. Head(LiveQueue).tsn <= InitMaxTsn
        BY <4>3, <4>4
      <4> QED
        BY <4>1, <4>5 DEF InitUsable
    <3>3. opened \/ (init /\ ~RootParent)
      BY <3>1, <3>2 DEF OpenOK
    <3> QED
      BY <2>1, <3>1, <3>3
  <2> QED
    BY <1>3, <2>2, <2>3, <2>4, <2>5 DEF Transmit
<1> QED
  BY <1>2, <1>3, PacketSteps

(* As long as nothing is written, the sender forgets only what the receiver has. *)
LEMMA PendingKept ==
    ASSUME TxTyped, PendingOK, UNCHANGED <<tasn, endwrite>>, Pending' \subseteq Pending,
           \A b \in Nat : Has(b) => Has(b)',
           \A s \in Pending : s \in Pending' \/ Got(s),
           \A s \in Pending' : s.tsn \in twait => s.tsn \in twait' \/ Got(s)'
    PROVE  PendingOK'
<1>1. ASSUME NEW s, Got(s) PROVE Got(s)'
  BY <1>1 DEF Got
<1>2. ASSUME NEW s \in Pending' PROVE s.tsn \in twait' \/ Got(s)'
  <2>1. s.tsn \in twait \/ Got(s)
    BY <1>2 DEF PendingOK
  <2> QED
    BY <1>1, <1>2, <2>1
<1>3. \A s, u \in Pending' : s.tsn = u.tsn => s.size = u.size
  BY DEF PendingOK
<1>4. \A s \in Pending' : s.tsn <= tasn' /\ (s.tsn < tasn' \/ endwrite')
  BY DEF PendingOK
<1>5. ASSUME NEW b \in 0 .. tasn' - 1 PROVE Has(b)' \/ Held(b, Pending')
  <2>1. b \in Nat /\ b \in 0 .. tasn - 1
    BY DEF TxTyped
  <2>2. Has(b) \/ Held(b, Pending)
    BY <2>1 DEF PendingOK, EveryByteHeld, Has
  <2>3. CASE Has(b)
    BY <2>1, <2>3
  <2>4. CASE Held(b, Pending)
    <3>1. PICK s \in Pending : s.tsn <= b /\ b < s.tsn + s.size
      BY <2>4 DEF Held
    <3>2. CASE s \in Pending'
      BY <3>1, <3>2 DEF Held
    <3>3. CASE Got(s)
      BY <1>1, <2>1, <3>1, <3>3 DEF Got
    <3> QED
      BY <3>2, <3>3
  <2> QED
    BY <2>2, <2>3, <2>4
<1>6. EveryByteHeld'
  <2>1. ASSUME NEW b \in 0 .. tasn' - 1
        PROVE  endread' \/ b < rsn' \/ Held(b, Range(rahead')) \/ Held(b, Pending')
    BY <1>5 DEF Has
  <2> QED
    BY <2>1 DEF EveryByteHeld, Held
<1> QED
  BY <1>2, <1>3, <1>4, <1>6 DEF PendingOK

LEMMA AcksKept ==
    ASSUME AcksOK, acks' \subseteq acks \cap inflight',
           \A n \in acks' : pkts'[n] = pkts[n],
           \A b \in Nat : Has(b) => Has(b)'
    PROVE  AcksOK'
<1>1. ASSUME NEW n \in acks', pkts'[n].type # "attach"
      PROVE  \A b \in Nat : pkts'[n].seg.tsn <= b /\ b < pkts'[n].seg.tsn + pkts'[n].seg.size => Has(b)'
  <2>1. PICK s : s = pkts[n].seg
    OBVIOUS
  <2>2. Got(s)
    BY <1>1, <2>1 DEF AcksOK
  <2>3. Got(s)'
    BY <2>2 DEF Got
  <2>4. s = pkts'[n].seg
    BY <1>1, <2>1
  <2> QED
    BY <2>3, <2>4 DEF Got
<1> QED
  BY <1>1 DEF AcksOK, Got

(* While neither the receiver nor the application acts. *)
LEMMA HasStill ==
    ASSUME UNCHANGED rxvars
    PROVE  \A b \in Nat : Has(b) => Has(b)'
  BY DEF rxvars, Has, Held, endread, Range

\* What is on the way in segments, apart from the queue.
Flying == {pkts[n].seg : n \in {m \in inflight : pkts[m].type # "attach"}}

LEMMA PendingSegments ==
    ASSUME TxTyped
    PROVE  Pending = Range(tqueue) \cup Flying /\ Pending \subseteq Segment
<1>1. Range(tqueue) \subseteq Segment
  BY RangeOf DEF TxTyped
<1>2. Flying \subseteq Segment
  BY DEF Flying, TxTyped
<1> QED
  BY <1>1, <1>2 DEF Pending, Flying

LEMMA TransmitCovers ==
    ASSUME TxTyped, CoverInv, Transmit, UNCHANGED rxvars
    PROVE  CoverInv'
<1>1. \A b \in Nat : Has(b) => Has(b)'
  BY HasStill
<1>2. /\ LiveQueue \in Seq(Segment) /\ Range(LiveQueue) \subseteq Range(tqueue)
      /\ \A s \in Range(tqueue) : s.tsn \in twait => s \in Range(LiveQueue)
  BY LiveQueueRange DEF TxTyped
<1>3. UNCHANGED <<tasn, endwrite, twait, acks>>
  BY DEF Transmit, TransmitNothing, TransmitData, TransmitInit, TransmitAttach, TxFrame
<1>4. ASSUME NEW q \in Seq(Segment), tqueue' = q, Range(q) \cup Flying' = Range(LiveQueue) \cup Flying
      PROVE  PendingOK'
  <2>1. Pending' = Range(LiveQueue) \cup Flying
    BY <1>4 DEF Pending, Flying
  <2>2. Pending = Range(tqueue) \cup Flying
    BY PendingSegments
  <2>3. ASSUME NEW s \in Pending PROVE s \in Pending' \/ Got(s)
    <3>1. s.tsn \in twait \/ Got(s)
      BY DEF CoverInv, PendingOK
    <3> QED
      BY <1>2, <2>1, <2>2, <3>1
  <2> QED
    BY <1>1, <1>2, <1>3, <2>1, <2>2, <2>3, PendingKept DEF CoverInv
<1>5. ASSUME inflight \subseteq inflight', \A n \in inflight : pkts'[n] = pkts[n]
      PROVE  AcksOK'
  <2>1. acks' \subseteq acks \cap inflight' /\ \A n \in acks' : pkts'[n] = pkts[n]
    BY <1>3, <1>5 DEF CoverInv, AcksOK
  <2> QED
    BY <1>1, <2>1, AcksKept DEF CoverInv
<1>6. ASSUME NEW type, NEW seg \in Segment, Put(type, seg), tqueue' \in Seq(Segment)
      PROVE  /\ AcksOK'
             /\ Flying' = Flying \cup (IF type = "attach" THEN {} ELSE {seg})
  <2>1. /\ inflight' = inflight \cup {npkts'} /\ npkts' \notin inflight
        /\ \A n \in inflight : pkts'[n] = pkts[n]
        /\ pkts'[npkts'].type = type /\ pkts'[npkts'].seg = seg
    BY <1>3, <1>6, PutStep
  <2>2. Flying' = Flying \cup (IF type = "attach" THEN {} ELSE {seg})
    BY <2>1 DEF Flying
  <2> QED
    BY <1>5, <2>1, <2>2
<1>7. CASE TransmitNothing
  <2>1. tqueue' = <<>> /\ LiveQueue = <<>> /\ UNCHANGED <<inflight, pkts>>
    BY <1>7 DEF TransmitNothing
  <2>2. Flying' = Flying
    BY <2>1 DEF Flying
  <2>3. PendingOK'
    BY <1>2, <1>4, <2>1, <2>2
  <2>4. AcksOK'
    BY <1>5, <2>1
  <2> QED
    BY <2>3, <2>4 DEF CoverInv
<1>8. ASSUME NEW type, type # "attach", LiveQueue # <<>>, Put(type, Head(LiveQueue)), tqueue' = Tail(LiveQueue)
      PROVE  CoverInv'
  <2>1. /\ Head(LiveQueue) \in Segment /\ Tail(LiveQueue) \in Seq(Segment)
        /\ Range(LiveQueue) = {Head(LiveQueue)} \cup Range(Tail(LiveQueue))
    BY <1>2, <1>8, HeadTail
  <2>2. AcksOK' /\ Flying' = Flying \cup {Head(LiveQueue)}
    BY <1>6, <1>8, <2>1
  <2>3. PendingOK'
    BY <1>4, <1>8, <2>1, <2>2
  <2> QED
    BY <2>2, <2>3 DEF CoverInv
<1>9. CASE TransmitData \/ TransmitInit
  BY <1>8, <1>9 DEF TransmitData, TransmitInit
<1>10. CASE TransmitAttach
  <2>1. tqueue' = LiveQueue /\ Put("attach", NoSegment) /\ NoSegment \in Segment
    BY <1>10 DEF TransmitAttach, NoSegment, Segment
  <2>2. AcksOK' /\ Flying' = Flying
    BY <1>2, <1>6, <2>1
  <2>3. PendingOK'
    BY <1>2, <1>4, <2>1, <2>2
  <2> QED
    BY <2>2, <2>3 DEF CoverInv
<1> QED
  BY <1>7, <1>9, <1>10 DEF Transmit

LEMMA AckedCovers ==
    ASSUME TxTyped, CoverInv, NEW n \in inflight, Acked(n), UNCHANGED rxvars
    PROVE  CoverInv'
<1>1. \A b \in Nat : Has(b) => Has(b)'
  BY HasStill
<1>2. n \in acks /\ Settle({n}) /\ UNCHANGED <<tasn, endwrite, tqueue>>
  BY DEF Acked
<1>3. inflight' = inflight \ {n} /\ acks' = acks \ {n} /\ \A m \in inflight' : pkts'[m] = pkts[m]
  BY <1>2 DEF Settle
<1>4. AcksOK'
  <2>1. acks' \subseteq acks \cap inflight' /\ \A m \in acks' : pkts'[m] = pkts[m]
    BY <1>3 DEF CoverInv, AcksOK
  <2> QED
    BY <1>1, <2>1, AcksKept DEF CoverInv
<1>5. Flying' = {pkts[m].seg : m \in {i \in inflight : i # n /\ pkts[i].type # "attach"}}
  BY <1>3 DEF Flying
<1>6. Pending = Range(tqueue) \cup Flying /\ Pending' = Range(tqueue) \cup Flying' /\ Pending \subseteq Segment
  BY <1>2, PendingSegments DEF Pending, Flying
<1>7. Pending' \subseteq Pending
  BY <1>5, <1>6 DEF Flying
<1>8. PICK g \in Segment : g = pkts[n].seg
  BY DEF TxTyped
<1>9. pkts[n].type # "attach" => Got(g) /\ g \in Pending
  BY <1>2, <1>6, <1>8 DEF CoverInv, AcksOK, Flying
<1>10. ASSUME NEW s \in Pending PROVE s \in Pending' \/ Got(s)
  BY <1>5, <1>6, <1>8, <1>9 DEF Flying
<1>11. ASSUME NEW s \in Pending', s.tsn \in twait PROVE s.tsn \in twait' \/ Got(s)'
  <2>1. CASE s.tsn = g.tsn /\ pkts[n].type # "attach"
    <3>1. s.size = g.size /\ Got(g)
      BY <1>7, <1>9, <1>11, <2>1 DEF CoverInv, PendingOK
    <3>2. Got(s)
      BY <2>1, <3>1 DEF Got
    <3> QED
      BY <1>1, <3>2 DEF Got
  <2>2. CASE ~(s.tsn = g.tsn /\ pkts[n].type # "attach")
    BY <1>8, <1>11, <2>2 DEF Acked
  <2> QED
    BY <2>1, <2>2
<1>12. PendingOK'
  BY <1>1, <1>2, <1>7, <1>10, <1>11, PendingKept DEF CoverInv
<1> QED
  BY <1>4, <1>12 DEF CoverInv

(* missed() and detachAll() put back what they take. *)
LEMMA RequeueCovers ==
    ASSUME TxTyped, CoverInv, NEW S \in SUBSET inflight, Settle(S), tqueue' = Requeued(S),
           UNCHANGED <<tasn, endwrite, twait>>, UNCHANGED rxvars
    PROVE  CoverInv'
<1>1. \A b \in Nat : Has(b) => Has(b)'
  BY HasStill
<1>2. inflight' = inflight \ S /\ acks' = acks \ S /\ \A m \in inflight' : pkts'[m] = pkts[m]
  BY DEF Settle
<1>3. AcksOK'
  <2>1. acks' \subseteq acks \cap inflight' /\ \A m \in acks' : pkts'[m] = pkts[m]
    BY <1>2 DEF CoverInv, AcksOK
  <2> QED
    BY <1>1, <2>1, AcksKept DEF CoverInv
<1>4. Range(tqueue') = Range(tqueue) \cup {pkts[m].seg : m \in {i \in S : pkts[i].type # "attach"}}
  <2>1. Range(Requeued(S))
          = Range(tqueue) \cup {pkts[m].seg : m \in {i \in S : pkts[i].type # "attach"}}
    BY RequeuedRange
  <2> QED
    BY <2>1
<1>5. Flying' = {pkts[m].seg : m \in {i \in inflight \ S : pkts[i].type # "attach"}}
  BY <1>2 DEF Flying
<1>6. Range(tqueue)' \cup Flying' = Range(tqueue) \cup Flying
  BY <1>4, <1>5 DEF Flying
<1>7. Pending' = Pending
  BY <1>6 DEF Pending, Flying
<1>8. PendingOK'
  BY <1>1, <1>7, PendingKept DEF CoverInv
<1> QED
  BY <1>3, <1>8 DEF CoverInv

(* Nothing else the sender or the network does concerns it. *)
LEMMA StillCovers ==
    ASSUME TxTyped, CoverInv, UNCHANGED <<tasn, endwrite, twait, tqueue, inflight, acks>>,
           \A m \in inflight : pkts'[m] = pkts[m], \A b \in Nat : Has(b) => Has(b)'
    PROVE  CoverInv'
<1>1. AcksOK'
  <2>1. acks' \subseteq acks \cap inflight' /\ \A m \in acks' : pkts'[m] = pkts[m]
    BY DEF CoverInv, AcksOK
  <2> QED
    BY <2>1, AcksKept DEF CoverInv
<1>2. Flying' = Flying
  BY DEF Flying
<1>3. Pending' = Pending
  BY <1>2 DEF Pending, Flying
<1>4. PendingOK'
  BY <1>3, PendingKept DEF CoverInv
<1> QED
  BY <1>1, <1>4 DEF CoverInv

LEMMA DeliverCovers ==
    ASSUME TxTyped, RxInv, OpenOK, PacketsOK, CoverInv, NEW n \in wire, Deliver(n)
    PROVE  CoverInv'
<1>1. PICK a \in BOOLEAN : Arrive(n, a)
  BY DEF Deliver, RxInitPacket, RxInitDelayed, RxDataPacket, RxAttachKnown, RxAttachUnknown
<1>2. /\ UNCHANGED <<tasn, endwrite, twait, tqueue, inflight>>
      /\ \A m \in inflight : pkts'[m] = pkts[m]
      /\ acks' = IF a THEN acks \cup ({n} \cap inflight) ELSE acks
  BY <1>1 DEF Arrive
<1>3. pkts[n].seg \in Segment
  BY DEF TxTyped
<1>4. \/ pkts[n].type = "attach" /\ UNCHANGED rxvars
      \/ RxData(pkts[n].seg)
      \/ UNCHANGED rxvars /\ Arrive(n, FALSE)
  <2>1. pkts[n].type = "attach" \/ RxData(pkts[n].seg) \/ (UNCHANGED rxvars /\ Arrive(n, FALSE))
    BY DeliverOpens
  <2>2. ASSUME pkts[n].type = "attach" PROVE UNCHANGED rxvars
    BY <2>2 DEF Deliver, RxInitPacket, RxInitDelayed, RxDataPacket, RxAttachKnown, RxAttachUnknown
  <2> QED
    BY <2>1, <2>2
<1>5. \A b \in Nat : Has(b) => Has(b)'
  <2>1. CASE UNCHANGED rxvars
    BY <2>1, HasStill
  <2>2. CASE RxData(pkts[n].seg)
    BY <1>3, <2>2, RxDataCovers
  <2> QED
    BY <1>4, <2>1, <2>2
<1>6. Flying' = Flying
  BY <1>2 DEF Flying
<1>7. Pending' = Pending
  BY <1>2, <1>6 DEF Pending, Flying
<1>8. PendingOK'
  BY <1>2, <1>5, <1>7, PendingKept DEF CoverInv
<1>9. acks' \subseteq inflight'
  BY <1>2 DEF CoverInv, AcksOK
<1>10. ASSUME NEW m \in acks', pkts'[m].type # "attach"
       PROVE  \A b \in Nat : pkts'[m].seg.tsn <= b /\ b < pkts'[m].seg.tsn + pkts'[m].seg.size => Has(b)'
  <2>1. PICK s : s = pkts[m].seg
    OBVIOUS
  <2>2. s = pkts'[m].seg /\ pkts[m].type # "attach"
    BY <1>2, <1>9, <1>10, <2>1
  <2>3. CASE m \in acks
    <3>1. Got(s)
      BY <2>1, <2>2, <2>3 DEF CoverInv, AcksOK
    <3> QED
      BY <1>5, <2>2, <3>1 DEF Got
  <2>4. CASE m \notin acks
    <3>1. m = n /\ a
      BY <1>2, <1>10, <2>4
    <3>2. acks' # acks
      BY <1>10, <2>4
    <3>3. RxData(pkts[n].seg)
      BY <1>4, <2>2, <3>1, <3>2 DEF Arrive
    <3>4. PICK g \in Segment : g = pkts[n].seg
      BY <1>3
    <3>5. Got(g)'
      BY <3>3, <3>4, RxDataCovers
    <3> QED
      BY <2>1, <2>2, <3>1, <3>4, <3>5 DEF Got
  <2> QED
    BY <2>3, <2>4
<1>11. AcksOK'
  BY <1>9, <1>10 DEF AcksOK, Got
<1> QED
  BY <1>8, <1>11 DEF CoverInv

(* The segments of one write have distinct positions on the grid of the MTU, *)
(* and cover what was written.                                               *)
LEMMA SegmentsCover ==
    ASSUME TxTyped, NEW n \in Nat, NEW f \in SUBSET Flag
    PROVE  /\ \A s, u \in Range(Segments(n, f)) : s.tsn = u.tsn => s = u
           /\ n # 0 => \A s \in Range(Segments(n, f)) : s.tsn < tasn + n
           /\ n = 0 => \A s \in Range(Segments(n, f)) : s.tsn = tasn
           /\ \A b \in tasn .. tasn + n - 1 : Held(b, Range(Segments(n, f)))
<1> DEFINE k == IF n = 0 THEN 1 ELSE (n + MTU - 1) \div MTU
           sg(j) == [tsn |-> tasn + (j - 1) * MTU, size |-> Min2(MTU, n - (j - 1) * MTU),
                     flags |-> IF j = k THEN {"push"} \cup f ELSE {}]
<1>1. MTU \in Nat \ {0} /\ tasn \in Nat
  BY StreamTxAssumption DEF TxTyped
<1>2. k \in Nat
  <2>1. (n + MTU - 1) \div MTU \in Nat
    BY <1>1
  <2> QED
    BY <2>1
<1>3. Segments(n, f) = [j \in 1 .. k |-> sg(j)]
  BY DEF Segments
<1>4. Range(Segments(n, f)) = {sg(j) : j \in 1 .. k}
  <2> HIDE DEF k
  <2>1. PICK segs : segs = Segments(n, f)
    OBVIOUS
  <2> HIDE DEF sg
  <2>2. DOMAIN segs = 1 .. k /\ \A j \in 1 .. k : segs[j] = sg(j)
    BY <1>3, <2>1
  <2>3. Range(segs) = {segs[j] : j \in 1 .. k}
    BY <2>2 DEF Range
  <2>4. {segs[j] : j \in 1 .. k} = {sg(j) : j \in 1 .. k}
    BY <2>2
  <2> QED
    BY <2>1, <2>3, <2>4
<1>5. PICK d \in Nat : d = (n + MTU - 1) \div MTU
  BY <1>1
<1>6. MTU * d <= n + MTU - 1 /\ n + MTU - 1 < MTU * d + MTU
  BY <1>1, <1>5
<1>7. k = IF n = 0 THEN 1 ELSE d
  BY <1>5
<1> HIDE DEF k
<1>8. ASSUME NEW i \in 1 .. k, NEW j \in 1 .. k, sg(i).tsn = sg(j).tsn PROVE i = j
  <2>1. PICK x \in Nat, y \in Nat : x = i - 1 /\ y = j - 1
    BY <1>2
  <2>2. x * MTU = y * MTU
    BY <1>1, <1>8, <2>1
  <2>3. x = y
    <3>1. ASSUME NEW a \in Nat, NEW b \in Nat, a < b PROVE a * MTU < b * MTU
      <4>1. PICK c \in Nat : b = a + c /\ c >= 1
        <5>1. b - a \in Nat /\ b - a >= 1 /\ b = a + (b - a)
          BY <3>1
        <5> QED
          BY <5>1, Zenon
      <4>2. b * MTU = a * MTU + c * MTU /\ a * MTU \in Nat /\ c * MTU \in Nat
        BY <1>1, <4>1
      <4>3. c * MTU >= MTU
        <5>1. PICK e \in Nat : c = e + 1
          <6>1. c - 1 \in Nat /\ c = (c - 1) + 1
            BY <4>1
          <6> QED
            BY <6>1, Zenon
        <5>2. c * MTU = e * MTU + MTU /\ e * MTU \in Nat
          BY <1>1, <5>1
        <5> QED
          BY <1>1, <5>2
      <4> QED
        BY <1>1, <4>2, <4>3
    <3>2. x * MTU \in Nat /\ y * MTU \in Nat
      BY <1>1
    <3> QED
      BY <2>2, <3>1, <3>2
  <2> QED
    BY <1>2, <2>1, <2>3
<1>9. ASSUME NEW i \in 1 .. k, n # 0 PROVE (i - 1) * MTU < n /\ (i - 1) * MTU \in Nat
  <2>1. PICK x \in Nat, g \in Nat : x = i - 1 /\ d = (x + g) + 1
    <3>1. i - 1 \in Nat /\ d - i \in Nat /\ d = ((i - 1) + (d - i)) + 1
      BY <1>2, <1>7, <1>9
    <3> QED
      BY <3>1, Zenon
  <2>2. MTU * d = (x * MTU + g * MTU) + MTU /\ x * MTU \in Nat /\ g * MTU \in Nat
    BY <1>1, <2>1
  <2>3. x * MTU < n
    BY <1>1, <1>6, <2>2
  <2> QED
    BY <2>1, <2>2, <2>3
<1>10. ASSUME NEW b \in tasn .. tasn + n - 1 PROVE Held(b, Range(Segments(n, f)))
  <2>1. PICK o \in Nat : b = tasn + o /\ o < n
    <3>1. b - tasn \in Nat /\ b = tasn + (b - tasn) /\ b - tasn < n
      BY <1>1, <1>10
    <3> QED
      BY <3>1, Zenon
  <2>2. PICK q \in Nat : q = o \div MTU
    BY <1>1
  <2>3. MTU * q <= o /\ o < MTU * q + MTU
    BY <1>1, <2>2
  <2>4. q < d
    <3>1. CASE q >= d
      <4>1. PICK g \in Nat : q = d + g
        <5>1. q - d \in Nat /\ q = d + (q - d)
          BY <3>1
        <5> QED
          BY <5>1, Zenon
      <4>2. MTU * q = MTU * d + MTU * g /\ MTU * g \in Nat /\ MTU * d \in Nat
        BY <1>1, <4>1
      <4> QED
        BY <1>1, <1>6, <2>1, <2>3, <4>2
    <3> QED
      BY <3>1
  <2>5. q + 1 \in 1 .. k
    BY <1>7, <2>1, <2>4
  <2>6. PICK s : s = sg(q + 1)
    OBVIOUS
  <2>7. s.tsn = tasn + q * MTU /\ s.size = Min2(MTU, n - q * MTU)
    BY <2>6
  <2>8. s \in Range(Segments(n, f))
    BY <1>4, <2>5, <2>6
  <2>9. q * MTU = MTU * q /\ q * MTU \in Nat
    BY <1>1
  <2>10. s.tsn <= b /\ b < s.tsn + s.size
    BY <1>1, <2>1, <2>3, <2>7, <2>9 DEF Min2
  <2> QED
    BY <2>8, <2>10 DEF Held
<1>11. n # 0 => \A s \in Range(Segments(n, f)) : s.tsn < tasn + n
  BY <1>1, <1>4, <1>9
<1>12. n = 0 => \A s \in Range(Segments(n, f)) : s.tsn = tasn
  BY <1>1, <1>4, <1>7
<1>13. \A s, u \in Range(Segments(n, f)) : s.tsn = u.tsn => s = u
  BY <1>4, <1>8
<1> QED
  BY <1>10, <1>11, <1>12, <1>13

(* A write is covered by the segments it makes. *)
LEMMA WriteCovers ==
    ASSUME TxTyped, CoverInv, NEW n \in Nat, NEW f \in SUBSET Flag, WriteData(n, f),
           n = 0 => "close" \in f, UNCHANGED rxvars
    PROVE  CoverInv'
<1>1. \A b \in Nat : Has(b) => Has(b)'
  BY HasStill
<1>2. PICK segs \in Seq(Segment) : segs = Segments(n, f)
  BY SegmentsType
<1>3. /\ endwrite = FALSE /\ tqueue' = tqueue \o segs
      /\ twait' = twait \cup {segs[i].tsn : i \in DOMAIN segs}
      /\ tasn' = tasn + n /\ UNCHANGED <<inflight, acks, pkts>>
  BY <1>2 DEF WriteData
<1>4. "close" \in f => endwrite' = TRUE
  BY DEF WriteData
<1>5. AcksOK'
  <2>1. acks' \subseteq acks \cap inflight' /\ \A m \in acks' : pkts'[m] = pkts[m]
    BY <1>3 DEF CoverInv, AcksOK
  <2> QED
    BY <1>1, <2>1, AcksKept DEF CoverInv
<1>6. Pending' = Pending \cup Range(segs)
  <2>1. Range(tqueue \o segs) = Range(tqueue) \cup Range(segs)
    BY RangeOfConcat DEF TxTyped
  <2>2. Range(tqueue)' = Range(tqueue) \cup Range(segs) /\ Flying' = Flying
    BY <1>3, <2>1 DEF Flying
  <2>3. Pending = Range(tqueue) \cup Flying
    BY PendingSegments
  <2> QED
    BY <2>2, <2>3 DEF Pending, Flying
<1>7. Pending \subseteq Segment /\ Range(segs) \subseteq Segment /\ tasn \in Nat
  BY PendingSegments, RangeOf DEF TxTyped
<1>8. \A s \in Range(segs) : s.tsn \in twait' /\ tasn <= s.tsn
  <2>1. \A s \in Range(segs) : s.tsn \in twait'
    BY <1>3 DEF Range
  <2>2. \A s \in Range(segs) : tasn <= s.tsn
    BY <1>2, SegmentsLie
  <2> QED
    BY <2>1, <2>2
<1>9. /\ \A s, u \in Range(segs) : s.tsn = u.tsn => s = u
      /\ n # 0 => \A s \in Range(segs) : s.tsn < tasn + n
      /\ n = 0 => \A s \in Range(segs) : s.tsn = tasn
      /\ \A b \in tasn .. tasn + n - 1 : Held(b, Range(segs))
  BY <1>2, SegmentsCover
<1>10. ASSUME NEW s \in Pending PROVE s.tsn < tasn /\ s.tsn \in Nat
  BY <1>3, <1>7, <1>10 DEF CoverInv, PendingOK, Segment
<1>11. ASSUME NEW s \in Pending' PROVE s.tsn \in twait' \/ Got(s)'
  <2>1. CASE s \in Pending
    <3>1. s.tsn \in twait \/ Got(s)
      BY <2>1 DEF CoverInv, PendingOK
    <3>2. Got(s) => Got(s)'
      BY <1>1 DEF Got
    <3> QED
      BY <1>3, <3>1, <3>2
  <2> QED
    BY <1>6, <1>8, <1>11, <2>1
<1>12. ASSUME NEW s \in Pending', NEW u \in Pending', s.tsn = u.tsn PROVE s.size = u.size
  <2>1. s.tsn \in Nat /\ u.tsn \in Nat
    BY <1>6, <1>7, <1>12 DEF Segment
  <2>2. CASE s \in Pending /\ u \in Pending
    BY <1>12, <2>2 DEF CoverInv, PendingOK
  <2>3. CASE s \in Range(segs) /\ u \in Range(segs)
    BY <1>9, <1>12, <2>3
  <2>4. CASE s \in Pending /\ u \in Range(segs)
    BY <1>7, <1>8, <1>10, <1>12, <2>1, <2>4
  <2>5. CASE s \in Range(segs) /\ u \in Pending
    BY <1>7, <1>8, <1>10, <1>12, <2>1, <2>5
  <2> QED
    BY <1>6, <1>12, <2>2, <2>3, <2>4, <2>5
<1>13. ASSUME NEW s \in Pending' PROVE s.tsn <= tasn' /\ (s.tsn < tasn' \/ endwrite')
  <2>1. CASE s \in Pending
    BY <1>3, <1>7, <1>10, <2>1
  <2>2. CASE s \in Range(segs) /\ n # 0
    BY <1>3, <1>7, <1>9, <2>2 DEF Segment
  <2>3. CASE s \in Range(segs) /\ n = 0
    <3>1. s.tsn = tasn /\ endwrite'
      BY <1>4, <1>9, <2>3
    <3> QED
      BY <1>3, <1>7, <2>3, <3>1
  <2> QED
    BY <1>6, <1>13, <2>1, <2>2, <2>3
<1>14. ASSUME NEW b \in 0 .. tasn' - 1 PROVE Has(b)' \/ Held(b, Pending')
  <2>1. b \in Nat /\ (b \in 0 .. tasn - 1 \/ b \in tasn .. tasn + n - 1)
    BY <1>3, <1>7, <1>14
  <2>2. CASE b \in 0 .. tasn - 1
    <3>1. Has(b) \/ Held(b, Pending)
      BY <2>2 DEF CoverInv, PendingOK, EveryByteHeld, Has
    <3> QED
      BY <1>1, <1>6, <2>1, <3>1 DEF Held
  <2>3. CASE b \in tasn .. tasn + n - 1
    BY <1>6, <1>9, <2>3 DEF Held
  <2> QED
    BY <2>1, <2>2, <2>3
<1>15. EveryByteHeld'
  <2>1. ASSUME NEW b \in 0 .. tasn' - 1
        PROVE  endread' \/ b < rsn' \/ Held(b, Range(rahead')) \/ Held(b, Pending')
    BY <1>14 DEF Has
  <2> QED
    BY <2>1 DEF EveryByteHeld, Held
<1>16. PendingOK'
  BY <1>11, <1>12, <1>13, <1>15 DEF PendingOK
<1> QED
  BY <1>5, <1>16 DEF CoverInv

LEMMA CoverStep ==
    ASSUME 0 \notin WriteSizes \cup MessageSizes,
           TxTyped, RxInv, OpenOK, PacketsOK, CoverInv, [Next]_vars
    PROVE  CoverInv'
<1>1. CASE AppWrite
  <2>1. UNCHANGED rxvars
    BY <1>1 DEF AppWrite
  <2>2. WriteSizes \subseteq Nat /\ MessageSizes \subseteq Nat /\ CloseSizes \subseteq Nat
    BY StreamTxAssumption
  <2>3. ASSUME NEW n \in WriteSizes \cup MessageSizes, NEW f \in SUBSET Flag, WriteData(n, f)
        PROVE  CoverInv'
    <3>1. n \in Nat /\ n # 0
      BY <2>2
    <3> QED
      BY <2>1, <2>3, <3>1, WriteCovers
  <2>4. ASSUME NEW n \in CloseSizes, WriteData(n, {"close"}) PROVE CoverInv'
    <3>1. n \in Nat /\ {"close"} \in SUBSET Flag
      BY <2>2 DEF Flag
    <3> QED
      BY <2>1, <2>4, <3>1, WriteCovers
  <2>5. {"push"} \in SUBSET Flag /\ {"message"} \in SUBSET Flag
    BY DEF Flag
  <2> QED
    BY <1>1, <2>3, <2>4, <2>5 DEF AppWrite
<1>2. CASE Sender
  <2>0. UNCHANGED rxvars /\ \A b \in Nat : Has(b) => Has(b)'
    BY <1>2, HasStill DEF Sender
  <2>1. CASE Transmit
    BY <2>0, <2>1, TransmitCovers
  <2>2. CASE WindowUpdate \/ FlowStarted
    <3>1. UNCHANGED <<tasn, endwrite, twait, tqueue, inflight, acks, pkts>>
      BY <2>2 DEF WindowUpdate, FlowStarted
    <3> QED
      BY <2>0, <3>1, StillCovers
  <2>3. CASE ClearPrimary
    <3>1. /\ Settle(inflight) /\ tqueue' = Requeued(inflight)
          /\ UNCHANGED <<tasn, endwrite, twait>>
      BY <2>3 DEF ClearPrimary
    <3> QED
      BY <2>0, <3>1, RequeueCovers
  <2>4. ASSUME NEW n \in inflight, Acked(n) PROVE CoverInv'
    BY <2>0, <2>4, AckedCovers
  <2>5. ASSUME NEW n \in inflight, Missed(n) PROVE CoverInv'
    <3>1. /\ Settle({n}) /\ tqueue' = Requeued({n}) /\ UNCHANGED <<tasn, endwrite, twait>>
      BY <2>5 DEF Missed
    <3> QED
      BY <2>0, <2>5, <3>1, RequeueCovers
  <2> QED
    BY <1>2, <2>1, <2>2, <2>3, <2>4, <2>5 DEF Sender
<1>3. CASE Network
  <2>1. UNCHANGED rxvars /\ \A b \in Nat : Has(b) => Has(b)'
    BY <1>3, HasStill DEF Network
  <2>2. /\ UNCHANGED <<tasn, endwrite, twait, tqueue, inflight, acks>>
        /\ \A m \in inflight : pkts'[m] = pkts[m]
    BY <1>3 DEF Network, Lose
  <2> QED
    BY <2>1, <2>2, StillCovers
<1>4. CASE App
  <2>1. UNCHANGED <<tasn, endwrite, twait, tqueue, inflight, acks, pkts>> /\ Reader
    BY <1>4 DEF App, txvars
  <2> QED
    BY <2>1, ReaderForgetsNothing, StillCovers
<1>5. ASSUME NEW n \in wire, Deliver(n) PROVE CoverInv'
  BY <1>5, DeliverCovers
<1>6. CASE UNCHANGED vars
  <2>1. UNCHANGED <<tasn, endwrite, twait, tqueue, inflight, acks, pkts>> /\ UNCHANGED rxvars
    BY <1>6 DEF vars, txvars
  <2> QED
    BY <2>1, HasStill, StillCovers
<1> QED
  BY <1>1, <1>2, <1>3, <1>4, <1>5, <1>6 DEF Next

LEMMA HeldInit ==
    ASSUME Init
    PROVE  HeldInv
<1>1. AttachOK /\ OpenOK /\ PacketsOK
  BY DEF Init, TxInit, AttachOK, OpenOK, PacketsOK
<1>2. Range(tqueue) = {} /\ inflight = {} /\ acks = {} /\ tasn = 0
  BY DEF Init, TxInit, Range
<1>3. Pending = {}
  BY <1>2 DEF Pending
<1>4. EveryByteHeld
  BY <1>2 DEF EveryByteHeld
<1>5. CoverInv
  BY <1>2, <1>3, <1>4 DEF CoverInv, AcksOK, PendingOK
<1> QED
  BY <1>1, <1>5 DEF HeldInv, KnownInv, AttachOK

LEMMA HeldStep ==
    ASSUME 0 \notin WriteSizes \cup MessageSizes,
           TxInv, RxInv, InitReaches, HeldInv, [Next]_vars
    PROVE  HeldInv'
<1>1. nflows \in Nat /\ nflows <= nflows' /\ nflows' \in Nat
  BY FlowsGrow DEF HeldInv
<1> SUFFICES ASSUME nflows' <= 1 PROVE KnownInv' /\ CoverInv'
  BY <1>1 DEF HeldInv
<1>2. nflows <= 1
  BY <1>1
<1> QED
  BY <1>2, AttachStep, OpenStep, PacketsStep, CoverStep DEF HeldInv, KnownInv, TxInv

(* No byte is lost on the way (base.cc: writeData, transmit, acked, missed,   *)
(* detachAll, rxData): while the peer has had one primary flow at most, every *)
(* byte written is with the receiver or in a segment the sender still holds,  *)
(* provided that only a close makes an empty segment and that the writer of a *)
(* root stream does not pass the 16-bit position of an Init packet before the *)
(* first acknowledgment.                                                      *)
THEOREM NothingLost ==
    ASSUME 0 \notin WriteSizes \cup MessageSizes
    PROVE  Spec /\ []InitReaches => [](nflows <= 1 => EveryByteHeld)
<1>1. Init => HeldInv
  BY HeldInit
<1>2. TxInv /\ RxInv /\ InitReaches /\ HeldInv /\ [Next]_vars => HeldInv'
  BY HeldStep
<1>3. HeldInv => (nflows <= 1 => EveryByteHeld)
  BY DEF HeldInv, CoverInv, PendingOK
<1> QED
  BY <1>1, <1>2, <1>3, TxInvAlways, RxInvAlways, PTL DEF Spec
=============================================================================
