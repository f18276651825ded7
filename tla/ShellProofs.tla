---------------------------- MODULE ShellProofs ----------------------------
(***************************************************************************)
(* Theorems about Shell, for every value of its constants: the output of a *)
(* side that waits for its file is bounded, the framing of control         *)
(* messages survives however the stream cuts the bytes, and the output     *)
(* file gets the data received.                                            *)
(***************************************************************************)
EXTENDS Shell, SequenceTheorems, NaturalsInduction, WellFoundedInduction, TLAPS

-----------------------------------------------------------------------------
(* Sequences.                                                              *)

(* A sequence cut after its first n elements. *)
LEMMA Cut ==
    ASSUME NEW S, NEW q \in Seq(S), NEW n \in 0 .. Len(q)
    PROVE  /\ SubSeq(q, 1, n) \in Seq(S) /\ Len(SubSeq(q, 1, n)) = n
           /\ \A i \in 1 .. n : SubSeq(q, 1, n)[i] = q[i]
           /\ SubSeq(q, n + 1, Len(q)) \in Seq(S)
           /\ Len(SubSeq(q, n + 1, Len(q))) = Len(q) - n
           /\ \A i \in 1 .. Len(q) - n : SubSeq(q, n + 1, Len(q))[i] = q[n + i]
<1>1. Len(q) \in Nat /\ \A i \in 1 .. Len(q) : q[i] \in S
  BY LenProperties, ElementOfSeq
<1>2. /\ SubSeq(q, 1, n) \in Seq(S) /\ Len(SubSeq(q, 1, n)) = IF 1 <= n THEN n - 1 + 1 ELSE 0
      /\ \A i \in 1 .. n - 1 + 1 : SubSeq(q, 1, n)[i] = q[1 + i - 1]
  <2>1. \A i \in 1 .. n : q[i] \in S
    BY <1>1
  <2> QED
    BY <2>1, <1>1, SubSeqProperties
<1>3. /\ SubSeq(q, n + 1, Len(q)) \in Seq(S)
      /\ Len(SubSeq(q, n + 1, Len(q))) = IF n + 1 <= Len(q) THEN Len(q) - (n + 1) + 1 ELSE 0
      /\ \A i \in 1 .. Len(q) - (n + 1) + 1 : SubSeq(q, n + 1, Len(q))[i] = q[n + 1 + i - 1]
  <2>1. \A i \in n + 1 .. Len(q) : q[i] \in S
    BY <1>1
  <2>2. n + 1 \in Int /\ Len(q) \in Int
    BY <1>1
  <2> QED
    BY <2>1, <2>2, SubSeqProperties
<1> QED
  BY <1>1, <1>2, <1>3

(* FlattenSeq of one sequence, and of two. *)
LEMMA FlattenOne ==
    ASSUME NEW a
    PROVE  FlattenSeq(<<a>>) = a
<1> DEFINE F(f) == f = [i \in 1 .. 1 |-> IF i = 1 THEN <<a>>[i] ELSE f[i - 1] \o <<a>>[i]]
           g == [i \in 1 .. 1 |-> a]
<1>1. F(g)
  OBVIOUS
<1>2. F(CHOOSE f : F(f))
  BY <1>1
<1>3. (CHOOSE f : F(f))[1] = a
  BY <1>2
<1> QED
  BY <1>3 DEF FlattenSeq

LEMMA FlattenTwo ==
    ASSUME NEW a, NEW b
    PROVE  FlattenSeq(<<a, b>>) = a \o b
<1> DEFINE F(f) == f = [i \in 1 .. 2 |-> IF i = 1 THEN <<a, b>>[i] ELSE f[i - 1] \o <<a, b>>[i]]
           g == [i \in 1 .. 2 |-> IF i = 1 THEN a ELSE a \o b]
<1>1. F(g)
  <2>1. \A i \in 1 .. 2 : g[i] = IF i = 1 THEN <<a, b>>[i] ELSE g[i - 1] \o <<a, b>>[i]
    OBVIOUS
  <2> QED
    BY <2>1
<1>2. F(CHOOSE f : F(f))
  BY <1>1
<1>3. \A h : F(h) => h[2] = a \o b
  <2> SUFFICES ASSUME NEW h, F(h) PROVE h[2] = a \o b
    OBVIOUS
  <2>1. 1 \in 1 .. 2 /\ 2 \in 1 .. 2
    OBVIOUS
  <2>2. h[1] = a
    BY <2>1
  <2>3. h[2] = h[1] \o b
    <3>1. h[2] = IF 2 = 1 THEN <<a, b>>[2] ELSE h[2 - 1] \o <<a, b>>[2]
      BY <2>1, Zenon
    <3>2. 2 - 1 = 1 /\ <<a, b>>[2] = b
      OBVIOUS
    <3> HIDE DEF F
    <3> QED
      BY <3>1, <3>2
  <2> QED
    BY <2>2, <2>3
<1>4. (CHOOSE f : F(f))[2] = a \o b
  BY <1>2, <1>3
<1>5. FlattenSeq(<<a, b>>) = (CHOOSE f : F(f))[2]
  BY DEF FlattenSeq
<1> QED
  BY <1>4, <1>5


-----------------------------------------------------------------------------
(* Types.                                                                  *)

Msg == {TerminalMsg, ShellMsg, ExitMsg}
Char == Byte \ {ControlMarker}

RxState == [rstate : {"Normal", "Length", "Message", "Reset"}, clen : Nat,
            cbuf : Seq(Byte), rbuf : Seq(Byte)]
FileState == [open : BOOLEAN, st : {"Ok", "Error"}, outq : Seq(Byte), outqd : Nat,
              out : Seq(Byte)]

(* Of the session only the file it writes to matters here. *)
Types ==
    /\ wire \in [Side -> Seq(Byte)]
    /\ rx \in [Side -> RxState]
    /\ slot \in [Side -> {"idle", "top", "receive", "escape"}]
    /\ ttyopen \in BOOLEAN
    /\ file \in [Side -> FileState]
    /\ rest \in [Side -> Seq(Byte)]

LEMMA Division ==
    ASSUME NEW n \in Nat, NEW m \in Nat \ {0}
    PROVE  /\ n \div m \in Nat /\ n % m \in 0 .. m - 1
           /\ n = m * (n \div m) + (n % m)
  OBVIOUS

LEMMA Constants ==
    /\ Radix \in Nat /\ Radix >= 2 /\ ControlMarker \in 0 .. Radix - 1 /\ ControlMarker \in Byte
    /\ MaxControlMessage \in Nat /\ ShellBufferSize \in Nat /\ MaxPiece \in Nat /\ MaxPiece >= 1
    /\ MaxEscapes \in Nat /\ MaxEscapes >= 1 /\ Radix \in Byte
    /\ Input \in Seq(Byte) /\ Output \in Seq(Byte)
    /\ \A m \in Msg : m \in Seq(Byte) /\ Len(m) \in Nat /\ 0 < Len(m) /\ Len(m) < Radix * Radix
<1>3. ASSUME NEW m \in Msg
      PROVE  m \in Seq(Byte) /\ Len(m) \in Nat /\ 0 < Len(m) /\ Len(m) < Radix * Radix
  <2>1. m \in Seq(Byte) /\ m # <<>> /\ Len(m) < Radix * Radix
    BY ShellAssumption DEF Msg
  <2> QED
    BY <2>1, EmptySeq, LenProperties
<1> QED
  BY <1>3, ShellAssumption DEF Byte

LEMMA Unmarked ==
    ASSUME NEW q \in Seq(Byte), NoMarker(q)
    PROVE  q \in Seq(Char)
<1>1. Len(q) \in Nat /\ q \in [1 .. Len(q) -> Byte] /\ DOMAIN q = 1 .. Len(q)
  BY LenProperties
<1>2. q \in [1 .. Len(q) -> Char]
  BY <1>1 DEF NoMarker, Char
<1> QED
  BY <1>1, <1>2, SeqDef

(* The bytes of a control message: the marker, one or two digits of the    *)
(* length, of which only the last has the high bit, and the message.       *)
Digits(n) == IF n < Radix THEN 1 ELSE 2

LEMMA ControlFrame ==
    ASSUME NEW m \in Msg
    PROVE  /\ ControlBytes(m) \in Seq(Byte)
           /\ Len(ControlBytes(m)) = 1 + Digits(Len(m)) + Len(m)
           /\ ControlBytes(m)[1] = ControlMarker
           /\ Len(m) < Radix => ControlBytes(m)[2] = Len(m) + Radix
           /\ Len(m) >= Radix => /\ ControlBytes(m)[2] = Len(m) \div Radix
                                 /\ ControlBytes(m)[3] = (Len(m) % Radix) + Radix
           /\ \A k \in 1 .. Len(m) : ControlBytes(m)[1 + Digits(Len(m)) + k] = m[k]
<1> DEFINE n == Len(m)
           D == LengthBytes(n)
<1>1. m \in Seq(Byte) /\ n \in Nat /\ n < Radix * Radix
  BY Constants
<1>2. n % Radix \in 0 .. Radix - 1 /\ n \div Radix \in Nat /\ n = Radix * (n \div Radix) + (n % Radix)
  <2>1. Radix \in Nat \ {0}
    BY Constants
  <2> HIDE DEF n
  <2> QED
    BY <1>1, <2>1, Division
<1>3. n \div Radix < Radix
  <2> HIDE DEF n
  <2>1. n \div Radix >= Radix => Radix * (n \div Radix) >= Radix * Radix
    <3> SUFFICES ASSUME n \div Radix >= Radix PROVE Radix * (n \div Radix) >= Radix * Radix
      OBVIOUS
    <3>1. PICK k \in Nat : n \div Radix = Radix + k
      <4> DEFINE q == n \div Radix
      <4>1. q \in Nat /\ q >= Radix
        BY <1>2
      <4> HIDE DEF q
      <4>2. q - Radix \in Nat /\ q = Radix + (q - Radix)
        BY <4>1, Constants
      <4>3. \E k \in Nat : q = Radix + k
        BY <4>2
      <4> QED
        BY <4>3 DEF q
    <3>2. Radix * (Radix + k) = Radix * Radix + Radix * k /\ Radix * k >= 0
      BY Constants
    <3> QED
      BY <3>1, <3>2, Constants
  <2> QED
    BY <1>1, <1>2, <2>1, Constants
<1>4. /\ D \in Seq(Byte) /\ Len(D) = Digits(n)
      /\ n < Radix => D[1] = n + Radix
      /\ n >= Radix => D[1] = n \div Radix /\ D[2] = (n % Radix) + Radix
  <2> HIDE DEF n
  <2>1. CASE n < Radix
    <3>1. n + Radix \in Byte /\ D = <<n + Radix>>
      BY <2>1, <1>1, Constants DEF Byte, LengthBytes
    <3> QED
      BY <3>1, <2>1, <1>1, Constants DEF Digits
  <2>2. CASE ~(n < Radix)
    <3>1. n \div Radix \in Byte /\ (n % Radix) + Radix \in Byte
      <4> DEFINE q == n \div Radix
                 r == n % Radix
      <4>1. q \in Nat /\ q < Radix /\ r \in 0 .. Radix - 1
        BY <1>2, <1>3
      <4> HIDE DEF q, r
      <4>2. q \in Byte /\ r + Radix \in Byte
        BY <4>1, Constants DEF Byte
      <4> QED
        BY <4>2 DEF q, r
    <3>2. D = <<n \div Radix, (n % Radix) + Radix>>
      BY <2>2 DEF LengthBytes
    <3> QED
      BY <3>1, <3>2, <2>2, <1>1, Constants DEF Digits
  <2> QED
    BY <2>1, <2>2
<1> HIDE DEF D
<1>5. /\ <<ControlMarker>> \o D \in Seq(Byte) /\ Len(<<ControlMarker>> \o D) = 1 + Digits(n)
      /\ (<<ControlMarker>> \o D)[1] = ControlMarker
      /\ \A i \in 1 .. Digits(n) : (<<ControlMarker>> \o D)[1 + i] = D[i]
  <2>1. <<ControlMarker>> \in Seq(Byte) /\ Len(<<ControlMarker>>) = 1 /\ <<ControlMarker>>[1] = ControlMarker
    BY Constants
  <2>2. Digits(n) \in {1, 2}
    BY DEF Digits
  <2> QED
    BY <2>1, <2>2, <1>4, ConcatProperties
<1> DEFINE E == <<ControlMarker>> \o D
<1>6. ControlBytes(m) = E \o m
  BY DEF ControlBytes, D
<1> HIDE DEF E
<1>7. /\ E \o m \in Seq(Byte) /\ Len(E \o m) = Len(E) + n
      /\ \A i \in 1 .. Len(E) + n : (E \o m)[i] = IF i <= Len(E) THEN E[i] ELSE m[i - Len(E)]
  BY <1>1, <1>5, ConcatProperties DEF E
<1>8. Digits(n) \in {1, 2} /\ Len(E) = 1 + Digits(n)
  BY <1>5 DEF Digits, E
<1>9. \A i \in 1 .. 1 + Digits(n) : ControlBytes(m)[i] = E[i]
  BY <1>6, <1>7, <1>8, <1>1
<1>10. \A k \in 1 .. n : ControlBytes(m)[1 + Digits(n) + k] = m[k]
  BY <1>6, <1>7, <1>8, <1>1, SMTT(30)
<1>11. E[1] = ControlMarker /\ \A i \in 1 .. Digits(n) : E[1 + i] = D[i]
  BY <1>5 DEF E
<1>12. ControlBytes(m)[1] = ControlMarker
  BY <1>8, <1>9, <1>11
<1>13. n < Radix => ControlBytes(m)[2] = n + Radix
  <2> SUFFICES ASSUME n < Radix PROVE ControlBytes(m)[2] = n + Radix
    OBVIOUS
  <2>1. Digits(n) = 1
    BY DEF Digits
  <2> QED
    BY <2>1, <1>4, <1>9, <1>11
<1>14. n >= Radix => ControlBytes(m)[2] = n \div Radix /\ ControlBytes(m)[3] = (n % Radix) + Radix
  <2> SUFFICES ASSUME n >= Radix
               PROVE  ControlBytes(m)[2] = n \div Radix /\ ControlBytes(m)[3] = (n % Radix) + Radix
    OBVIOUS
  <2>1. Digits(n) = 2
    BY <1>1, Constants DEF Digits
  <2>2. ControlBytes(m)[2] = E[2] /\ ControlBytes(m)[3] = E[3] /\ E[2] = D[1] /\ E[3] = D[2]
    BY <2>1, <1>9, <1>11
  <2> QED
    BY <2>2, <1>4
<1> QED
  BY <1>1, <1>6, <1>7, <1>8, <1>10, <1>12, <1>13, <1>14


-----------------------------------------------------------------------------
(* The helpers of the receiving slots and of AsyncFile.                    *)

LEMMA Least ==
    ASSUME NEW S \in SUBSET Nat, S # {}
    PROVE  \E c \in S : \A d \in S : c <= d
<1>1. PICK c \in S : \A d \in S : ~(<<d, c>> \in OpToRel(<, Nat))
  BY NatLessThanWellFounded, WFMin
<1>2. \A d \in S : ~(d < c)
  BY <1>1 DEF OpToRel
<1> QED
  BY <1>2

(* What receive() hands on as data, and sendData() sends first. *)
LEMMA PlainPrefix ==
    ASSUME NEW q \in Seq(Byte)
    PROVE  /\ Plain(q) \in Seq(Char) /\ Len(Plain(q)) \in 0 .. Len(q)
           /\ \A i \in 1 .. Len(Plain(q)) : Plain(q)[i] = q[i] /\ q[i] # ControlMarker
<1>1. Len(q) \in Nat
  BY LenProperties
<1> DEFINE P(l) == SubSeq(q, 1, l)
           S == {k \in 0 .. Len(q) : NoMarker(P(Len(q) - k))}
<1>2. \A l \in 0 .. Len(q) : P(l) \in Seq(Byte) /\ Len(P(l)) = l /\ DOMAIN P(l) = 1 .. l
  <2> TAKE l \in 0 .. Len(q)
  <2>1. P(l) \in Seq(Byte) /\ Len(P(l)) = l
    BY Cut
  <2> QED
    BY <2>1, LenProperties
<1>3. Len(q) \in S
  <2>1. DOMAIN P(0) = 1 .. 0
    BY <1>1, <1>2
  <2>2. NoMarker(P(0))
    BY <2>1 DEF NoMarker
  <2>3. Len(q) - Len(q) = 0
    BY <1>1
  <2> QED
    BY <1>1, <2>2, <2>3
<1>4. PICK k \in S : \A d \in S : k <= d
  <2>1. S \in SUBSET Nat
    BY <1>1
  <2> HIDE DEF S
  <2> QED
    BY <1>3, <2>1, Least
<1> DEFINE l == Len(q) - k
<1>5. l \in 0 .. Len(q) /\ NoMarker(P(l)) /\ \A j \in 0 .. Len(q) : NoMarker(P(j)) => j <= l
  <2>1. ASSUME NEW j \in 0 .. Len(q), NoMarker(P(j)) PROVE j <= l
    <3>1. Len(q) - j \in 0 .. Len(q) /\ Len(q) - (Len(q) - j) = j
      BY <1>1
    <3>2. Len(q) - j \in S
      BY <2>1, <3>1
    <3>3. k <= Len(q) - j
      BY <1>4, <3>2
    <3> QED
      BY <3>3, <1>1
  <2>2. k \in 0 .. Len(q) /\ NoMarker(P(l))
    OBVIOUS
  <2>3. l \in 0 .. Len(q)
    BY <2>2, <1>1
  <2> QED
    BY <2>1, <2>2, <2>3
<1> HIDE DEF l
<1>6. /\ P(l) \in Prefixes(q) /\ NoMarker(P(l))
      /\ \A r \in Prefixes(q) : NoMarker(r) => Len(r) <= Len(P(l))
  BY <1>2, <1>5 DEF Prefixes
<1>7. Plain(q) \in Prefixes(q) /\ NoMarker(Plain(q))
  BY <1>6 DEF Plain
<1>8. PICK j \in 0 .. Len(q) : Plain(q) = SubSeq(q, 1, j)
  BY <1>7 DEF Prefixes
<1>9. /\ Plain(q) \in Seq(Byte) /\ Len(Plain(q)) = j
      /\ \A i \in 1 .. j : Plain(q)[i] = q[i]
  BY <1>8, Cut
<1>10. DOMAIN Plain(q) = 1 .. j /\ Plain(q) \in [1 .. j -> Byte]
  BY <1>9, LenProperties
<1>11. \A i \in 1 .. j : Plain(q)[i] # ControlMarker
  BY <1>7, <1>10 DEF NoMarker
<1>12. Plain(q) \in [1 .. j -> Char]
  BY <1>10, <1>11 DEF Char
<1>13. Plain(q) \in Seq(Char)
  BY <1>12, SeqDef
<1> QED
  BY <1>9, <1>11, <1>13

LEMMA Skipped ==
    ASSUME NEW r \in RxState, NEW n \in 0 .. Len(r.rbuf)
    PROVE  /\ Skip(r, n) \in RxState
           /\ Skip(r, n).rstate = r.rstate /\ Skip(r, n).clen = r.clen /\ Skip(r, n).cbuf = r.cbuf
           /\ Skip(r, n).rbuf = SubSeq(r.rbuf, n + 1, Len(r.rbuf))
           /\ Len(Skip(r, n).rbuf) = Len(r.rbuf) - n
<1>1. r.rbuf \in Seq(Byte)
  BY DEF RxState
<1>2. /\ SubSeq(r.rbuf, n + 1, Len(r.rbuf)) \in Seq(Byte)
      /\ Len(SubSeq(r.rbuf, n + 1, Len(r.rbuf))) = Len(r.rbuf) - n
  BY <1>1, Cut
<1> QED
  BY <1>2 DEF Skip, RxState

(* A write queues what the kernel did not take, and counts it. *)
LEMMA Written ==
    ASSUME NEW f \in FileState, NEW d \in Seq(Byte), NEW n \in 0 .. Len(d)
    PROVE  LET g == WriteData(f, d, n)
           IN  /\ g \in FileState
               /\ \E k \in 0 .. Len(d) : /\ Len(g.outq) = Len(f.outq) + Len(d) - k
                                         /\ g.outqd = f.outqd + Len(d) - k
<1> DEFINE k == IF f.outq = <<>> THEN n ELSE 0
           a == SubSeq(d, 1, k)
           b == SubSeq(d, k + 1, Len(d))
<1>1. Len(d) \in Nat /\ k \in 0 .. Len(d)
  BY LenProperties
<1>2. f.outq \in Seq(Byte) /\ f.out \in Seq(Byte) /\ f.outqd \in Nat /\ Len(f.outq) \in Nat
  BY LenProperties DEF FileState
<1>3. WriteData(f, d, n) =
        [f EXCEPT !.out = @ \o a, !.outq = @ \o b, !.outqd = @ + Len(d) - k]
  BY DEF WriteData
<1> HIDE DEF k
<1>4. a \in Seq(Byte) /\ b \in Seq(Byte) /\ Len(b) = Len(d) - k
  BY <1>1, Cut
<1> HIDE DEF a, b
<1>5. f.out \o a \in Seq(Byte)
  BY <1>2, <1>4, ConcatProperties
<1>6. f.outq \o b \in Seq(Byte) /\ Len(f.outq \o b) = Len(f.outq) + Len(d) - k
  <2>1. f.outq \o b \in Seq(Byte) /\ Len(f.outq \o b) = Len(f.outq) + Len(b)
    BY <1>2, <1>4, ConcatProperties
  <2> QED
    BY <2>1, <1>4, <1>1, <1>2
<1>7. f.outqd + Len(d) - k \in Nat
  BY <1>1, <1>2
<1>8. WriteData(f, d, n) \in FileState
  BY <1>3, <1>5, <1>6, <1>7 DEF FileState
<1>9. /\ Len(WriteData(f, d, n).outq) = Len(f.outq) + Len(d) - k
      /\ WriteData(f, d, n).outqd = f.outqd + Len(d) - k
  BY <1>3, <1>6 DEF FileState
<1> QED
  BY <1>1, <1>8, <1>9


-----------------------------------------------------------------------------
(* The backlog of an output file.  readyWrite() does not count off what it *)
(* writes, so that outqd is at least what waits; a slot that goes on to    *)
(* receive() has seen it below the limit, and writes at most one piece     *)
(* before it looks again.  That the session looks only if the tty was open *)
(* when the slot started does no harm: otherwise it does not write.        *)
Backlog(s) ==
    /\ Len(file[s].outq) <= file[s].outqd
    /\ file[s].outqd < ShellBufferSize + MaxPiece
    /\ slot[s] = "receive" /\ (s = "srv" => ttyopen) => file[s].outqd < ShellBufferSize

BacklogInv == Types /\ \A s \in Side : Len(rx[s].rbuf) <= MaxPiece /\ Backlog(s)

(* Nothing about the files or the slots changes. *)
LEMMA SameBacklog ==
    ASSUME \A s \in Side : Backlog(s), UNCHANGED <<file, slot, ttyopen>>
    PROVE  \A s \in Side : Backlog(s)'
  BY DEF Backlog

(* A slot that leaves receive(), or never was there. *)
LEMMA SlotLeaves ==
    ASSUME Types, \A s \in Side : Backlog(s), NEW s \in Side, NEW v \in {"idle", "top", "escape"},
           slot' = [slot EXCEPT ![s] = v], file' = file, ttyopen' = ttyopen
    PROVE  slot' \in [Side -> {"idle", "top", "receive", "escape"}] /\ \A o \in Side : Backlog(o)'
  BY DEF Backlog, Types

(* The file of a side opens, closes, fails, or takes some of its queue. *)
LEMMA FileChanges ==
    ASSUME Types, \A s \in Side : Backlog(s), NEW s \in Side, NEW f \in FileState,
           Len(f.outq) <= Len(file[s].outq), f.outqd = file[s].outqd,
           file' = [file EXCEPT ![s] = f], slot' = slot, ttyopen' = ttyopen
    PROVE  file' \in [Side -> FileState] /\ \A o \in Side : Backlog(o)'
<1>1. \A o \in Side : Len(file[o].outq) \in Nat /\ file[o].outqd \in Nat /\ Len(f.outq) \in Nat
  BY LenProperties DEF Types, FileState
<1>2. file' \in [Side -> FileState]
  BY DEF Types
<1>3. \A o \in Side : file'[o] = IF o = s THEN f ELSE file[o]
  BY DEF Types
<1>4. \A o \in Side : Len(file'[o].outq) <= file[o].outqd /\ file'[o].outqd = file[o].outqd
  BY <1>1, <1>3 DEF Backlog
<1> QED
  BY <1>2, <1>4 DEF Backlog

(* A packet of data reaches its side. *)
LEMMA DeliverBacklog ==
    ASSUME Types, \A s \in Side : Backlog(s), NEW s \in Side, NEW d \in Seq(Byte),
           Len(d) <= MaxPiece, slot[s] = "receive", DeliverData(s, d), ttyopen' = ttyopen
    PROVE  /\ file' \in [Side -> FileState]
           /\ slot' \in [Side -> {"idle", "top", "receive", "escape"}]
           /\ \A o \in Side : Backlog(o)'
<1>1. Len(d) \in Nat /\ \A o \in Side : Len(file[o].outq) \in Nat /\ file[o].outqd \in Nat
  BY LenProperties DEF Types, FileState
<1>2. CASE s = "srv" /\ ~ttyopen
  BY <1>2, SlotLeaves DEF DeliverData, Types
<1>3. CASE ~(s = "srv" /\ ~ttyopen) /\ WriteFails(s)
  <2>1. PICK v \in {"idle", "top"} : slot' = [slot EXCEPT ![s] = v]
    BY <1>3 DEF WriteFails
  <2>2. file' \in [Side -> FileState]
    <3>1. PICK f \in FileState : f = file[s]
      BY DEF Types
    <3>2. [f EXCEPT !.st = "Error"] \in FileState
      BY DEF FileState
    <3>3. file' = [file EXCEPT ![s] = [f EXCEPT !.st = "Error"]]
      BY <1>3, <3>1 DEF WriteFails
    <3> QED
      BY <3>2, <3>3 DEF Types
  <2>3. \A o \in Side : file'[o].outq = file[o].outq /\ file'[o].outqd = file[o].outqd
    BY <1>3 DEF WriteFails, Types, FileState
  <2>4. slot' \in [Side -> {"idle", "top", "receive", "escape"}]
    BY <2>1 DEF Types
  <2>5. \A o \in Side : slot'[o] = "receive" => slot[o] = "receive"
    BY <2>1 DEF Types
  <2> QED
    BY <2>2, <2>3, <2>4, <2>5 DEF Backlog
<1>4. CASE ~(s = "srv" /\ ~ttyopen) /\ ~WriteFails(s)
  <2>1. PICK n \in 0 .. Len(d) : file' = [file EXCEPT ![s] = WriteData(@, d, n)]
    BY <1>4 DEF DeliverData
  <2>2. slot' = [slot EXCEPT ![s] = "top"]
    BY <1>4 DEF DeliverData
  <2> DEFINE g == WriteData(file[s], d, n)
  <2>3. file[s] \in FileState
    BY DEF Types
  <2>4. /\ g \in FileState
        /\ \E k \in 0 .. Len(d) : /\ Len(g.outq) = Len(file[s].outq) + Len(d) - k
                                  /\ g.outqd = file[s].outqd + Len(d) - k
    BY <2>3, Written
  <2>5. file' = [file EXCEPT ![s] = g]
    BY <2>1
  <2> HIDE DEF g
  <2>6. file' \in [Side -> FileState] /\ slot' \in [Side -> {"idle", "top", "receive", "escape"}]
    BY <2>2, <2>4, <2>5 DEF Types
  <2>7. Len(file[s].outq) <= file[s].outqd /\ file[s].outqd < ShellBufferSize
    BY <1>4 DEF Backlog, Side
  <2>8. Len(g.outq) <= g.outqd /\ g.outqd < ShellBufferSize + MaxPiece
    <3>1. PICK k \in 0 .. Len(d) : /\ Len(g.outq) = Len(file[s].outq) + Len(d) - k
                                   /\ g.outqd = file[s].outqd + Len(d) - k
      BY <2>4
    <3>2. /\ ShellBufferSize \in Nat /\ MaxPiece \in Nat /\ Len(d) \in Nat
          /\ Len(file[s].outq) \in Nat /\ file[s].outqd \in Nat
      BY <1>1, Constants
    <3>3. file[s].outqd + Len(d) - k < ShellBufferSize + MaxPiece
      BY <2>7, <3>2
    <3>4. Len(file[s].outq) + Len(d) - k <= file[s].outqd + Len(d) - k
      BY <2>7, <3>2
    <3> QED
      BY <3>1, <3>3, <3>4
  <2>9. Backlog(s)'
    <3>1. file'[s] = g /\ slot'[s] = "top"
      BY <2>2, <2>5 DEF Types
    <3> QED
      BY <3>1, <2>8 DEF Backlog
  <2>10. \A o \in Side : o # s => Backlog(o)'
    BY <2>2, <2>5 DEF Backlog, Types
  <2> QED
    BY <2>6, <2>9, <2>10
<1> QED
  BY <1>2, <1>3, <1>4


(* The receive state of a side changes, and no byte is added to its buffer. *)
LEMMA RxChanges ==
    ASSUME Types, \A o \in Side : Len(rx[o].rbuf) <= MaxPiece, NEW s \in Side,
           NEW r \in RxState, Len(r.rbuf) <= MaxPiece, rx' = [rx EXCEPT ![s] = r]
    PROVE  rx' \in [Side -> RxState] /\ \A o \in Side : Len(rx'[o].rbuf) <= MaxPiece
  BY DEF Types

(* Sending. *)
LEMMA SendOne ==
    ASSUME NEW s \in Side, NEW m, SendControl(s, <<m>>)
    PROVE  /\ wire' = [wire EXCEPT ![Other(s)] = @ \o ControlBytes(m)]
           /\ sent' = [sent EXCEPT ![Other(s)] = @ \o << <<"Control", m>> >>]
<1>1. [i \in DOMAIN <<m>> |-> ControlBytes(<<m>>[i])] = <<ControlBytes(m)>>
  OBVIOUS
<1>2. [i \in DOMAIN <<m>> |-> <<"Control", <<m>>[i]>>] = << <<"Control", m>> >>
  OBVIOUS
<1>3. wire' = [wire EXCEPT ![Other(s)] = @ \o FlattenSeq(<<ControlBytes(m)>>)]
  BY <1>1 DEF SendControl
<1> QED
  BY <1>2, <1>3, FlattenOne DEF SendControl

LEMMA SendTwo ==
    ASSUME NEW s \in Side, NEW m, NEW n, SendControl(s, <<m, n>>)
    PROVE  /\ wire' = [wire EXCEPT ![Other(s)] = @ \o (ControlBytes(m) \o ControlBytes(n))]
           /\ sent' = [sent EXCEPT ![Other(s)] = @ \o << <<"Control", m>>, <<"Control", n>> >>]
<1>1. [i \in DOMAIN <<m, n>> |-> ControlBytes(<<m, n>>[i])] = <<ControlBytes(m), ControlBytes(n)>>
  OBVIOUS
<1>2. [i \in DOMAIN <<m, n>> |-> <<"Control", <<m, n>>[i]>>]
        = << <<"Control", m>>, <<"Control", n>> >>
  OBVIOUS
<1>3. wire' = [wire EXCEPT ![Other(s)] = @ \o FlattenSeq(<<ControlBytes(m), ControlBytes(n)>>)]
  BY <1>1 DEF SendControl
<1> QED
  BY <1>2, <1>3, FlattenTwo DEF SendControl

LEMMA WireGrows ==
    ASSUME Types, NEW s \in Side, NEW d \in Seq(Byte),
           wire' = [wire EXCEPT ![Other(s)] = @ \o d]
    PROVE  wire' \in [Side -> Seq(Byte)]
<1>1. Other(s) \in Side /\ wire[Other(s)] \in Seq(Byte)
  BY DEF Other, Side, Types
<1>2. wire[Other(s)] \o d \in Seq(Byte)
  BY <1>1, ConcatProperties
<1> QED
  BY <1>1, <1>2 DEF Types

LEMMA StartSends ==
    ASSUME Types, Start
    PROVE  wire' \in [Side -> Seq(Byte)]
<1>1. ControlBytes(TerminalMsg) \in Seq(Byte) /\ ControlBytes(ShellMsg) \in Seq(Byte)
  BY ControlFrame DEF Msg
<1>2. ControlBytes(TerminalMsg) \o ControlBytes(ShellMsg) \in Seq(Byte)
  BY <1>1, ConcatProperties
<1>3. "cli" \in Side
  BY DEF Side
<1>4. CASE IsTty
  <2>1. SendControl("cli", <<TerminalMsg, ShellMsg>>)
    BY <1>4 DEF Start
  <2>2. wire' = [wire EXCEPT ![Other("cli")] =
                   @ \o (ControlBytes(TerminalMsg) \o ControlBytes(ShellMsg))]
    BY <2>1, <1>3, SendTwo
  <2> QED
    BY <2>2, <1>2, <1>3, WireGrows
<1>5. CASE ~IsTty
  <2>1. SendControl("cli", <<ShellMsg>>)
    BY <1>5 DEF Start
  <2>2. wire' = [wire EXCEPT ![Other("cli")] = @ \o ControlBytes(ShellMsg)]
    BY <2>1, <1>3, SendOne
  <2> QED
    BY <2>2, <1>1, <1>3, WireGrows
<1> QED
  BY <1>4, <1>5

LEMMA EscapedType ==
    /\ EscapedMarker \in Seq(Byte) /\ Len(EscapedMarker) \in Nat /\ Len(EscapedMarker) >= 2
    /\ EscapedMarker[1] = ControlMarker /\ EscapedMarker[2] = Radix
<1>1. /\ MaxEscapes \in Nat /\ MaxEscapes >= 1 /\ Radix \in Byte /\ ControlMarker \in Byte
  BY Constants
<1> DEFINE e == [i \in 1 .. MaxEscapes |-> Radix]
           m == <<ControlMarker>>
<1>2. e \in Seq(Byte) /\ Len(e) = MaxEscapes /\ e[1] = Radix
  <2>1. e \in [1 .. MaxEscapes -> Byte]
    BY <1>1
  <2>2. e[1] = Radix
    BY <1>1
  <2> HIDE DEF e
  <2> QED
    BY <1>1, <2>1, <2>2, SeqDef
<1>3. m \in Seq(Byte) /\ Len(m) = 1 /\ m[1] = ControlMarker
  BY <1>1
<1>4. EscapedMarker = m \o e
  BY DEF EscapedMarker
<1> HIDE DEF e, m
<1>5. /\ m \o e \in Seq(Byte) /\ Len(m \o e) = Len(m) + Len(e)
      /\ \A i \in 1 .. Len(m) + Len(e) : (m \o e)[i] = IF i <= Len(m) THEN m[i] ELSE e[i - Len(m)]
  BY <1>2, <1>3, ConcatProperties
<1>6. 1 \in 1 .. 1 + MaxEscapes /\ 2 \in 1 .. 1 + MaxEscapes /\ ~(2 <= 1) /\ 2 - 1 = 1
  BY <1>1
<1> QED
  BY <1>1, <1>2, <1>3, <1>4, <1>5, <1>6

(* A side forwards the next bytes of its source, or stays in sendData(). *)
LEMMA Sends ==
    ASSUME Types, NEW s \in Side, NEW d \in Seq(Byte), SendData(s, d)
    PROVE  /\ wire' \in [Side -> Seq(Byte)]
           /\ slot' = slot \/ slot' = [slot EXCEPT ![s] = "escape"]
<1>1. CASE wire' = [wire EXCEPT ![Other(s)] = @ \o d] /\ slot' = slot
  BY <1>1, WireGrows
<1>2. CASE /\ wire' = [wire EXCEPT ![Other(s)] = @ \o (Plain(d) \o EscapedMarker)]
           /\ slot' = [slot EXCEPT ![s] = "escape"]
  <2>1. Plain(d) \in Seq(Byte)
    BY PlainPrefix, SeqMonotonic DEF Char
  <2>2. Plain(d) \o EscapedMarker \in Seq(Byte)
    BY <2>1, EscapedType, ConcatProperties
  <2> QED
    BY <1>2, <2>2, WireGrows
<1> QED
  BY <1>1, <1>2 DEF SendData

LEMMA Forwards ==
    ASSUME Types, NEW s \in Side, NEW n \in Nat, Forward(s, n)
    PROVE  /\ SubSeq(rest[s], 1, n) \in Seq(Byte)
           /\ wire' \in [Side -> Seq(Byte)] /\ rest' \in [Side -> Seq(Byte)]
           /\ slot' = slot \/ slot' = [slot EXCEPT ![s] = "escape"]
<1>1. rest[s] \in Seq(Byte) /\ Len(rest[s]) \in Nat
  BY LenProperties DEF Types
<1>2. n \in 0 .. Len(rest[s])
  BY <1>1 DEF Forward
<1>3. SubSeq(rest[s], 1, n) \in Seq(Byte) /\ SubSeq(rest[s], n + 1, Len(rest[s])) \in Seq(Byte)
  BY <1>1, <1>2, Cut
<1>4. SendData(s, SubSeq(rest[s], 1, n))
  BY DEF Forward
<1>5. rest' \in [Side -> Seq(Byte)]
  BY <1>3 DEF Forward, Types
<1> QED
  BY <1>3, <1>4, <1>5, Sends


-----------------------------------------------------------------------------
(* Every step keeps the types and the backlog, action by action.           *)

Small == \A o \in Side : Len(rx[o].rbuf) <= MaxPiece

LEMMA RxFacts ==
    ASSUME Types, NEW s \in Side
    PROVE  /\ rx[s] \in RxState /\ rx[s].rbuf \in Seq(Byte) /\ rx[s].cbuf \in Seq(Byte)
           /\ rx[s].clen \in Nat /\ Len(rx[s].rbuf) \in Nat /\ Len(rx[s].cbuf) \in Nat
           /\ wire[s] \in Seq(Byte) /\ Len(wire[s]) \in Nat
           /\ rx[s].rbuf # <<>> => Len(rx[s].rbuf) >= 1 /\ Head(rx[s].rbuf) = rx[s].rbuf[1]
                                   /\ Head(rx[s].rbuf) \in Byte
<1>1. /\ rx[s] \in RxState /\ rx[s].rbuf \in Seq(Byte) /\ rx[s].cbuf \in Seq(Byte)
      /\ rx[s].clen \in Nat /\ wire[s] \in Seq(Byte)
  BY DEF Types, RxState
<1>2. Len(rx[s].rbuf) \in Nat /\ Len(rx[s].cbuf) \in Nat /\ Len(wire[s]) \in Nat
  BY <1>1, LenProperties
<1>3. rx[s].rbuf # <<>> => Len(rx[s].rbuf) >= 1
  BY <1>1, <1>2, EmptySeq
<1>4. rx[s].rbuf # <<>> => Head(rx[s].rbuf) = rx[s].rbuf[1] /\ Head(rx[s].rbuf) \in Byte
  <2> DEFINE q == rx[s].rbuf
  <2> SUFFICES ASSUME q # <<>> PROVE Head(q) = q[1] /\ Head(q) \in Byte
    OBVIOUS
  <2>1. q \in Seq(Byte)
    BY <1>1
  <2> HIDE DEF q
  <2> QED
    BY <2>1, HeadTailProperties
<1> QED
  BY <1>1, <1>2, <1>3, <1>4

(* The part of a control message that is taken is there: the guards of the *)
(* two steps that take one say so.                                         *)
LEMMA WantedRange ==
    ASSUME Types, NEW s \in Side, GotPart(s) \/ GotControl(s)
    PROVE  Wanted(rx[s]) \in 0 .. Len(rx[s].rbuf)
<1> DEFINE r == rx[s]
           a == Len(r.rbuf)
           c == Len(r.cbuf)
           w == Wanted(r)
<1>1. a \in Nat /\ c \in Nat /\ r.clen \in Nat /\ r.rbuf \in Seq(Byte) /\ r.cbuf \in Seq(Byte)
  BY RxFacts
<1>2. w = IF a < r.clen - c THEN a ELSE r.clen - c
  BY DEF Wanted
<1>3. CASE GotPart(s)
  <2>1. c + w < r.clen
    BY <1>3 DEF GotPart
  <2> HIDE DEF a, c, w, r
  <2> QED
    BY <1>1, <1>2, <2>1 DEF a, w, r
<1>4. CASE GotControl(s)
  <2>1. Len(r.cbuf \o SubSeq(r.rbuf, 1, w)) = r.clen
    BY <1>4 DEF GotControl
  <2>2. w <= a /\ w \in Int
    BY <1>1, <1>2, SMTT(30)
  <2>3. CASE w < 1
    <3>1. SubSeq(r.rbuf, 1, w) = <<>>
      BY <2>2, <2>3, SubSeqEmpty
    <3>2. Len(r.cbuf \o <<>>) = c
      BY <1>1, ConcatEmptySeq
    <3>3. c = r.clen
      BY <2>1, <3>1, <3>2
    <3>4. w >= 0
      BY <1>1, <1>2, <3>3
    <3> QED
      BY <2>2, <3>4, <1>1
  <2> QED
    BY <2>2, <2>3, <1>1
<1> QED
  BY <1>3, <1>4

LEMMA KeepFill ==
    ASSUME Types, Small, NEW s \in Side, Fill(s)
    PROVE  /\ rx' \in [Side -> RxState] /\ Small' /\ wire' \in [Side -> Seq(Byte)]
           /\ UNCHANGED <<slot, ttyopen, file, rest>>
<1>1. PICK n \in 1 .. MaxPiece :
        /\ n <= Len(wire[s])
        /\ rx' = [rx EXCEPT ![s].rbuf = SubSeq(wire[s], 1, n)]
        /\ wire' = [wire EXCEPT ![s] = SubSeq(@, n + 1, Len(@))]
  BY DEF Fill
<1>2. MaxPiece \in Nat /\ wire[s] \in Seq(Byte) /\ Len(wire[s]) \in Nat
  BY Constants, RxFacts
<1>3. n \in 0 .. Len(wire[s])
  BY <1>1, <1>2
<1>4. /\ SubSeq(wire[s], 1, n) \in Seq(Byte) /\ Len(SubSeq(wire[s], 1, n)) = n
      /\ SubSeq(wire[s], n + 1, Len(wire[s])) \in Seq(Byte)
  BY <1>2, <1>3, Cut
<1> DEFINE r == [rx[s] EXCEPT !.rbuf = SubSeq(wire[s], 1, n)]
<1>5. r \in RxState /\ r.rbuf = SubSeq(wire[s], 1, n)
  BY <1>4, RxFacts DEF RxState
<1>6. rx' = [rx EXCEPT ![s] = r] /\ Len(r.rbuf) <= MaxPiece
  BY <1>1, <1>2, <1>4, <1>5 DEF Types
<1> HIDE DEF r
<1>7. rx' \in [Side -> RxState] /\ Small'
  BY <1>5, <1>6, RxChanges DEF Small
<1>8. wire' \in [Side -> Seq(Byte)]
  BY <1>1, <1>4 DEF Types
<1> QED
  BY <1>7, <1>8 DEF Fill

(* A step that takes the first n bytes of its buffer, and changes the rest *)
(* of the receive state.                                                   *)
LEMMA Consumes ==
    ASSUME Types, Small, NEW s \in Side, NEW n \in 0 .. Len(rx[s].rbuf), NEW r \in RxState,
           r.rbuf = Skip(rx[s], n).rbuf, rx' = [rx EXCEPT ![s] = r]
    PROVE  rx' \in [Side -> RxState] /\ Small'
<1>1. Len(Skip(rx[s], n).rbuf) = Len(rx[s].rbuf) - n
  BY RxFacts, Skipped
<1>2. Len(r.rbuf) <= MaxPiece
  <2>1. Len(rx[s].rbuf) <= MaxPiece /\ Len(rx[s].rbuf) \in Nat /\ MaxPiece \in Nat
    BY RxFacts, Constants DEF Small
  <2> QED
    BY <2>1, <1>1
<1> QED
  BY <1>2, RxChanges DEF Small

LEMMA OpenOrClose ==
    ASSUME NEW f \in FileState, NEW g \in {OpenFile(f), CloseFile(f)}
    PROVE  g \in FileState /\ g.outq = f.outq /\ g.outqd = f.outqd
<1>1. ASSUME NEW v \in BOOLEAN, NEW t \in {"Ok", "Error"}
      PROVE  /\ [f EXCEPT !.st = t] \in FileState /\ [f EXCEPT !.open = v] \in FileState
             /\ [f EXCEPT !.st = t].outq = f.outq /\ [f EXCEPT !.st = t].outqd = f.outqd
             /\ [f EXCEPT !.open = v].outq = f.outq /\ [f EXCEPT !.open = v].outqd = f.outqd
  BY DEF FileState
<1>2. g = [f EXCEPT !.st = "Error"] \/ g = [f EXCEPT !.open = TRUE] \/ g = [f EXCEPT !.open = FALSE]
  BY DEF OpenFile, CloseFile
<1> QED
  BY <1>1, <1>2

LEMMA KeepReceiving ==
    ASSUME BacklogInv, NEW s \in Side, GotMarker(s) \/ GotPart(s)
    PROVE  BacklogInv'
<1>1. Types /\ Small /\ \A o \in Side : Backlog(o)
  BY DEF BacklogInv, Small
<1>2. UNCHANGED <<wire, slot, ttyopen, file, rest>>
  BY DEF GotMarker, GotPart
<1> DEFINE r == rx[s]
<1>3. CASE GotMarker(s)
  <2>1. 1 \in 0 .. Len(r.rbuf) /\ r.cbuf \in Seq(Byte) /\ r.clen \in Nat
    BY <1>1, <1>3, RxFacts DEF GotMarker, InState
  <2>2. rx' = [rx EXCEPT ![s] = [Skip(r, 1) EXCEPT !.rstate = "Length", !.clen = 0]]
    BY <1>1, <1>3 DEF GotMarker, Types
  <2>3. Skip(r, 1) \in RxState /\ Skip(r, 1).cbuf = r.cbuf
    BY <1>1, <2>1, RxFacts, Skipped
  <2> DEFINE q == [Skip(r, 1) EXCEPT !.rstate = "Length", !.clen = 0]
  <2>4. q \in RxState /\ q.rbuf = Skip(r, 1).rbuf
    BY <2>3 DEF RxState
  <2> HIDE DEF q
  <2>5. rx' \in [Side -> RxState] /\ Small'
    BY <1>1, <2>1, <2>2, <2>4, Consumes DEF q
  <2> QED
    BY <1>1, <1>2, <2>5, SameBacklog DEF BacklogInv, Types, Small
<1>4. CASE GotPart(s)
  <2> DEFINE w == Wanted(r)
  <2>1. /\ w \in 0 .. Len(r.rbuf) /\ r \in RxState
        /\ r.cbuf \in Seq(Byte) /\ r.rbuf \in Seq(Byte) /\ r.clen \in Nat
    BY <1>1, <1>4, RxFacts, WantedRange
  <2>2. Skip(r, w) \in RxState /\ Skip(r, w).cbuf = r.cbuf /\ Skip(r, w).clen = r.clen
    BY <2>1, Skipped
  <2>3. SubSeq(r.rbuf, 1, w) \in Seq(Byte)
    BY <2>1, Cut
  <2> DEFINE c == r.cbuf \o SubSeq(r.rbuf, 1, w)
  <2>4. c \in Seq(Byte)
    BY <2>1, <2>3, ConcatProperties
  <2>5. rx' = [rx EXCEPT ![s] = [Skip(r, w) EXCEPT !.cbuf = @ \o SubSeq(r.rbuf, 1, w)]]
    BY <1>4 DEF GotPart
  <2> DEFINE q == [Skip(r, w) EXCEPT !.cbuf = @ \o SubSeq(r.rbuf, 1, w)]
  <2>6. q = [Skip(r, w) EXCEPT !.cbuf = c]
    BY <2>2 DEF RxState
  <2> HIDE DEF c
  <2>7. q \in RxState /\ q.rbuf = Skip(r, w).rbuf
    BY <2>2, <2>4, <2>6 DEF RxState
  <2> HIDE DEF w, q
  <2>8. rx' \in [Side -> RxState] /\ Small'
    BY <1>1, <2>1, <2>5, <2>7, Consumes DEF q
  <2> QED
    BY <1>1, <1>2, <2>8, SameBacklog DEF BacklogInv, Types, Small
<1> QED
  BY <1>3, <1>4

LEMMA KeepData ==
    ASSUME BacklogInv, NEW s \in Side, GotData(s)
    PROVE  BacklogInv'
<1>1. Types /\ Small /\ \A o \in Side : Backlog(o)
  BY DEF BacklogInv, Small
<1> DEFINE r == rx[s]
           d == Plain(r.rbuf)
<1>2. /\ slot[s] = "receive" /\ rx' = [rx EXCEPT ![s] = Skip(@, Len(d))]
      /\ DeliverData(s, d) /\ UNCHANGED <<wire, ttyopen, rest>>
  BY DEF GotData, Plain, InState
<1>3. /\ r \in RxState /\ r.rbuf \in Seq(Byte) /\ Len(r.rbuf) \in Nat /\ Len(r.rbuf) <= MaxPiece
      /\ r.cbuf \in Seq(Byte) /\ r.clen \in Nat
  BY <1>1, RxFacts DEF Small
<1>4. d \in Seq(Char) /\ Len(d) \in 0 .. Len(r.rbuf)
  BY <1>3, PlainPrefix
<1>5. d \in Seq(Byte) /\ Len(d) <= MaxPiece
  BY <1>3, <1>4, SeqMonotonic, Constants DEF Char
<1> HIDE DEF d
<1>6. /\ file' \in [Side -> FileState] /\ slot' \in [Side -> {"idle", "top", "receive", "escape"}]
      /\ \A o \in Side : Backlog(o)'
  BY <1>1, <1>2, <1>5, DeliverBacklog
<1>7. Skip(r, Len(d)) \in RxState
  BY <1>3, <1>4, Skipped
<1>8. rx' = [rx EXCEPT ![s] = Skip(r, Len(d))]
  BY <1>2
<1>9. rx' \in [Side -> RxState] /\ Small'
  BY <1>1, <1>4, <1>7, <1>8, Consumes
<1> QED
  BY <1>1, <1>2, <1>6, <1>9 DEF BacklogInv, Types, Small

LEMMA KeepControl ==
    ASSUME BacklogInv, NEW s \in Side, GotControl(s)
    PROVE  BacklogInv'
<1>1. Types /\ Small /\ \A o \in Side : Backlog(o)
  BY DEF BacklogInv, Small
<1> DEFINE r == rx[s]
           w == Wanted(r)
<1>2. /\ w \in 0 .. Len(r.rbuf) /\ r \in RxState /\ r.clen \in Nat
  BY <1>1, RxFacts, WantedRange
<1>3. /\ rx' = [rx EXCEPT ![s] = [Skip(r, w) EXCEPT !.rstate = "Normal", !.cbuf = <<>>]]
      /\ slot' = [slot EXCEPT ![s] = "top"] /\ UNCHANGED <<wire, ttyopen, rest>>
  BY DEF GotControl
<1>4. Skip(r, w) \in RxState /\ Skip(r, w).clen = r.clen
  BY <1>2, Skipped
<1> DEFINE q == [Skip(r, w) EXCEPT !.rstate = "Normal", !.cbuf = <<>>]
<1>5. <<>> \in Seq(Byte)
  OBVIOUS
<1>6. q \in RxState /\ q.rbuf = Skip(r, w).rbuf
  BY <1>4, <1>5 DEF RxState
<1> HIDE DEF w, q
<1>7. rx' \in [Side -> RxState] /\ Small'
  BY <1>1, <1>2, <1>3, <1>6, Consumes DEF q
<1>8. file' = file \/ file' = [file EXCEPT !["srv"] = OpenFile(@)]
  BY DEF GotControl, SrvControl, CliControl, OpenPty, Run
<1>9. /\ file' \in [Side -> FileState]
      /\ \A o \in Side : file'[o].outq = file[o].outq /\ file'[o].outqd = file[o].outqd
  <2>1. CASE file' = file
    BY <1>1, <2>1 DEF Types
  <2>2. CASE file' = [file EXCEPT !["srv"] = OpenFile(@)]
    <3>1. "srv" \in Side /\ file["srv"] \in FileState
      BY <1>1 DEF Types, Side
    <3> DEFINE g == OpenFile(file["srv"])
    <3>2. g \in FileState /\ g.outq = file["srv"].outq /\ g.outqd = file["srv"].outqd
      BY <3>1, OpenOrClose
    <3>3. file' = [file EXCEPT !["srv"] = g]
      BY <2>2
    <3> HIDE DEF g
    <3> QED
      BY <1>1, <3>1, <3>2, <3>3 DEF Types
  <2> QED
    BY <1>8, <2>1, <2>2
<1>10. /\ slot' \in [Side -> {"idle", "top", "receive", "escape"}]
       /\ \A o \in Side : slot'[o] = "receive" => slot[o] = "receive"
  BY <1>1, <1>3 DEF Types
<1>11. \A o \in Side : Backlog(o)'
  BY <1>1, <1>3, <1>9, <1>10 DEF Backlog
<1> QED
  BY <1>1, <1>3, <1>7, <1>9, <1>10, <1>11 DEF BacklogInv, Types, Small

LEMMA LengthDigit ==
    ASSUME NEW n \in Nat, NEW b \in Byte
    PROVE  n * Radix + Low(b) \in Nat
<1>1. b \in Nat /\ Radix \in Nat \ {0}
  BY Constants DEF Byte
<1>2. Low(b) \in Nat
  BY <1>1, Division DEF Low
<1>3. n * Radix \in Nat
  BY <1>1
<1> QED
  BY <1>2, <1>3

LEMMA KeepLength ==
    ASSUME BacklogInv, NEW s \in Side, GotLength(s)
    PROVE  BacklogInv'
<1>1. Types /\ Small /\ \A o \in Side : Backlog(o)
  BY DEF BacklogInv, Small
<1> DEFINE r == rx[s]
           b == Head(r.rbuf)
           l == r.clen * Radix + Low(b)
<1>2. slot[s] = "receive" /\ r.rbuf # <<>> /\ UNCHANGED <<wire, ttyopen, rest>>
  BY DEF GotLength, InState
<1>3. /\ r \in RxState /\ 1 \in 0 .. Len(r.rbuf) /\ 0 \in 0 .. Len(r.rbuf) /\ b \in Byte
      /\ r.cbuf \in Seq(Byte) /\ r.rbuf \in Seq(Byte) /\ r.clen \in Nat /\ r.rstate \in {"Normal", "Length", "Message", "Reset"}
  <2>1. /\ r \in RxState /\ b \in Byte /\ r.cbuf \in Seq(Byte) /\ r.clen \in Nat
        /\ Len(r.rbuf) \in Nat /\ Len(r.rbuf) >= 1 /\ r.rbuf \in Seq(Byte)
    BY <1>1, <1>2, RxFacts
  <2> QED
    BY <2>1 DEF RxState
<1>4. l \in Nat
  BY <1>3, LengthDigit
<1>5. /\ Skip(r, 1) \in RxState /\ Skip(r, 1).rstate = r.rstate
      /\ Skip(r, 1).clen = r.clen /\ Skip(r, 1).cbuf = r.cbuf
  BY <1>3, Skipped
<1>6. CASE r.clen < MaxControlMessage /\ High(b) /\ l = 0
  <2>1. rx' = [rx EXCEPT ![s] = Skip(r, 1)] /\ DeliverData(s, <<ControlMarker>>)
    BY <1>6 DEF GotLength
  <2>2. <<ControlMarker>> \in Seq(Byte) /\ Len(<<ControlMarker>>) <= MaxPiece
    BY Constants
  <2>3. /\ file' \in [Side -> FileState] /\ slot' \in [Side -> {"idle", "top", "receive", "escape"}]
        /\ \A o \in Side : Backlog(o)'
    BY <1>1, <1>2, <2>1, <2>2, DeliverBacklog
  <2>4. rx' \in [Side -> RxState] /\ Small'
    BY <1>1, <1>3, <1>5, <2>1, Consumes
  <2> QED
    BY <1>1, <1>2, <2>3, <2>4 DEF BacklogInv, Types, Small
<1>7. CASE ~(r.clen < MaxControlMessage /\ High(b) /\ l = 0)
  <2>1. /\ rx' = [rx EXCEPT ![s] =
              IF r.clen >= MaxControlMessage THEN [r EXCEPT !.rstate = "Reset"]
              ELSE IF High(b)
                THEN [Skip(r, 1) EXCEPT !.clen = l, !.rstate = "Message", !.cbuf = <<>>]
                ELSE [Skip(r, 1) EXCEPT !.clen = l]]
        /\ slot' = IF r.clen >= MaxControlMessage THEN [slot EXCEPT ![s] = "idle"] ELSE slot
        /\ file' = file
    BY <1>7 DEF GotLength
  <2>2. \A o \in Side : Backlog(o)'
    <3>1. CASE slot' = [slot EXCEPT ![s] = "idle"]
      BY <1>1, <1>2, <2>1, <3>1, SlotLeaves
    <3>2. CASE slot' = slot
      BY <1>1, <1>2, <2>1, <3>2, SameBacklog
    <3> QED
      BY <2>1, <3>1, <3>2
  <2>3. slot' \in [Side -> {"idle", "top", "receive", "escape"}]
    BY <1>1, <2>1 DEF Types
  <2> HIDE DEF l, b
  <2>4. CASE r.clen >= MaxControlMessage
    <3>1. rx' = [rx EXCEPT ![s] = [r EXCEPT !.rstate = "Reset"]]
      BY <2>1, <2>4
    <3>2. [r EXCEPT !.rstate = "Reset"] \in RxState
      BY <1>3 DEF RxState
    <3>3. [r EXCEPT !.rstate = "Reset"].rbuf = r.rbuf /\ Len(r.rbuf) <= MaxPiece
      BY <1>1, <1>3 DEF RxState, Small
    <3>4. rx' \in [Side -> RxState] /\ Small'
      BY <1>1, <3>1, <3>2, <3>3, RxChanges DEF Small
    <3> QED
      BY <1>1, <1>2, <2>1, <2>2, <2>3, <3>4 DEF BacklogInv, Types, Small
  <2>5. CASE ~(r.clen >= MaxControlMessage) /\ High(b)
    <3>1. rx' = [rx EXCEPT ![s] =
                   [Skip(r, 1) EXCEPT !.clen = l, !.rstate = "Message", !.cbuf = <<>>]]
      BY <2>1, <2>5
    <3> DEFINE q == [Skip(r, 1) EXCEPT !.clen = l, !.rstate = "Message", !.cbuf = <<>>]
    <3>2. q \in RxState /\ q.rbuf = Skip(r, 1).rbuf
      <4>1. <<>> \in Seq(Byte)
        OBVIOUS
      <4> QED
        BY <4>1, <1>4, <1>5 DEF RxState
    <3> HIDE DEF q
    <3>3. rx' \in [Side -> RxState] /\ Small'
      BY <1>1, <1>3, <3>1, <3>2, Consumes DEF q
    <3> QED
      BY <1>1, <1>2, <2>1, <2>2, <2>3, <3>3 DEF BacklogInv, Types, Small
  <2>6. CASE ~(r.clen >= MaxControlMessage) /\ ~High(b)
    <3>1. rx' = [rx EXCEPT ![s] = [Skip(r, 1) EXCEPT !.clen = l]]
      BY <2>1, <2>6
    <3> DEFINE q == [Skip(r, 1) EXCEPT !.clen = l]
    <3>2. q \in RxState /\ q.rbuf = Skip(r, 1).rbuf
      BY <1>4, <1>5 DEF RxState
    <3> HIDE DEF q
    <3>3. rx' \in [Side -> RxState] /\ Small'
      BY <1>1, <1>3, <3>1, <3>2, Consumes DEF q
    <3> QED
      BY <1>1, <1>2, <2>1, <2>2, <2>3, <3>3 DEF BacklogInv, Types, Small
  <2> QED
    BY <2>4, <2>5, <2>6
<1> QED
  BY <1>6, <1>7


LEMMA KeepReadyWrite ==
    ASSUME BacklogInv, NEW s \in Side, ReadyWrite(s)
    PROVE  BacklogInv'
<1>1. Types /\ Small /\ \A o \in Side : Backlog(o)
  BY DEF BacklogInv, Small
<1> DEFINE f == file[s]
<1>2. /\ f \in FileState /\ f.outq \in Seq(Byte) /\ f.out \in Seq(Byte) /\ Len(f.outq) \in Nat
  BY <1>1, LenProperties DEF Types, FileState
<1>3. UNCHANGED <<wire, rx, slot, ttyopen, rest>>
  BY DEF ReadyWrite
<1>4. \E g \in FileState : /\ Len(g.outq) <= Len(f.outq) /\ g.outqd = f.outqd
                           /\ file' = [file EXCEPT ![s] = g]
  <2>1. CASE \E n \in 1 .. Len(f.outq) :
               file' = [file EXCEPT ![s].out = @ \o SubSeq(file[s].outq, 1, n),
                                    ![s].outq = SubSeq(@, n + 1, Len(@))]
    <3>1. PICK n \in 1 .. Len(f.outq) :
               file' = [file EXCEPT ![s].out = @ \o SubSeq(file[s].outq, 1, n),
                                    ![s].outq = SubSeq(@, n + 1, Len(@))]
      BY <2>1
    <3> DEFINE a == f.out \o SubSeq(f.outq, 1, n)
               b == SubSeq(f.outq, n + 1, Len(f.outq))
               g == [f EXCEPT !.out = a, !.outq = b]
    <3>2. n \in 0 .. Len(f.outq)
      BY <1>2
    <3>3. SubSeq(f.outq, 1, n) \in Seq(Byte) /\ b \in Seq(Byte) /\ Len(b) = Len(f.outq) - n
      BY <1>2, <3>2, Cut
    <3>4. a \in Seq(Byte)
      BY <1>2, <3>3, ConcatProperties
    <3>5. file' = [file EXCEPT ![s] = g]
      BY <1>1, <3>1 DEF Types
    <3> HIDE DEF a, b
    <3>6. g \in FileState /\ g.outq = b /\ g.outqd = f.outqd
      BY <1>2, <3>3, <3>4 DEF FileState
    <3>7. Len(b) <= Len(f.outq)
      BY <1>2, <3>2, <3>3
    <3> HIDE DEF g
    <3> QED
      BY <3>5, <3>6, <3>7
  <2>2. CASE file' = [file EXCEPT ![s].outq = <<>>, ![s].st = "Error"]
    <3> DEFINE g == [f EXCEPT !.outq = <<>>, !.st = "Error"]
    <3>1. file' = [file EXCEPT ![s] = g]
      BY <1>1, <2>2 DEF Types
    <3>2. <<>> \in Seq(Byte) /\ Len(<<>>) = 0
      OBVIOUS
    <3>3. g \in FileState /\ g.outq = <<>> /\ g.outqd = f.outqd
      BY <1>2, <3>2 DEF FileState
    <3>4. Len(g.outq) <= Len(f.outq)
      BY <1>2, <3>2, <3>3
    <3> HIDE DEF g
    <3> QED
      BY <3>1, <3>3, <3>4
  <2> QED
    BY <2>1, <2>2 DEF ReadyWrite
<1>5. file' \in [Side -> FileState] /\ \A o \in Side : Backlog(o)'
  BY <1>1, <1>3, <1>4, FileChanges
<1> QED
  BY <1>1, <1>3, <1>5 DEF BacklogInv, Types, Small

(* The client opens its file, or the session closes its own. *)
LEMMA KeepFiles ==
    ASSUME Types, \A o \in Side : Backlog(o), NEW s \in Side,
           file' = [file EXCEPT ![s] = OpenFile(@)] \/ file' = [file EXCEPT ![s] = CloseFile(@)],
           slot' = slot, ttyopen' = ttyopen
    PROVE  file' \in [Side -> FileState] /\ \A o \in Side : Backlog(o)'
<1>1. file[s] \in FileState
  BY DEF Types
<1>2. PICK g \in {OpenFile(file[s]), CloseFile(file[s])} : file' = [file EXCEPT ![s] = g]
  OBVIOUS
<1>3. g \in FileState /\ g.outq = file[s].outq /\ g.outqd = file[s].outqd
  BY <1>1, OpenOrClose
<1>4. Len(g.outq) <= Len(file[s].outq)
  BY <1>1, <1>3, LenProperties DEF FileState
<1> QED
  BY <1>2, <1>3, <1>4, FileChanges

LEMMA BacklogInit ==
    ASSUME Init
    PROVE  BacklogInv
<1>1. Len(<<>>) = 0 /\ <<>> \in Seq(Byte) /\ ShellBufferSize \in Nat /\ MaxPiece \in Nat /\ MaxPiece >= 1
  BY Constants
<1>2. Input \in Seq(Byte) /\ Output \in Seq(Byte)
  BY Constants
<1>3. Types
  BY <1>1, <1>2 DEF Init, Types, RxState, FileState
<1>4. \A s \in Side : /\ rx[s].rbuf = <<>> /\ file[s].outq = <<>> /\ file[s].outqd = 0
                      /\ slot[s] = "idle"
  BY DEF Init
<1>5. \A s \in Side : Len(rx[s].rbuf) <= MaxPiece /\ Backlog(s)
  BY <1>1, <1>4 DEF Backlog
<1> QED
  BY <1>3, <1>5 DEF BacklogInv

LEMMA BacklogStep ==
    ASSUME BacklogInv, [Next]_vars
    PROVE  BacklogInv'
<1>1. Types /\ Small /\ \A o \in Side : Backlog(o)
  BY DEF BacklogInv, Small
<1>2. "cli" \in Side /\ "srv" \in Side
  BY DEF Side
<1>3. CASE Start
  <2>1. UNCHANGED <<rx, slot, ttyopen, rest>> /\ file' = [file EXCEPT !["cli"] = OpenFile(@)]
    BY <1>3 DEF Start
  <2>2. file' \in [Side -> FileState] /\ \A o \in Side : Backlog(o)'
    BY <1>1, <1>2, <2>1, KeepFiles
  <2> QED
    BY <1>1, <1>3, <2>1, <2>2, StartSends DEF BacklogInv, Types, Small
<1>4. CASE ChildExit
  <2>1. PICK p \in Prefixes(rest["srv"]) : rest' = [rest EXCEPT !["srv"] = p]
    BY <1>4 DEF ChildExit
  <2>2. PICK n \in 0 .. Len(rest["srv"]) : p = SubSeq(rest["srv"], 1, n)
    BY <2>1 DEF Prefixes
  <2>3. rest["srv"] \in Seq(Byte)
    BY <1>1, <1>2 DEF Types
  <2>4. p \in Seq(Byte)
    BY <2>2, <2>3, Cut
  <2>5. UNCHANGED <<wire, rx, slot, ttyopen, file>>
    BY <1>4 DEF ChildExit
  <2>6. \A o \in Side : Backlog(o)'
    BY <1>1, <2>5, SameBacklog
  <2> QED
    BY <1>1, <2>1, <2>4, <2>5, <2>6 DEF BacklogInv, Types, Small
<1>5. CASE ChildDone
  <2>1. UNCHANGED <<rx, slot, ttyopen, file, rest>> /\ SendControl("srv", <<ExitMsg>>)
    BY <1>5 DEF ChildDone
  <2>2. wire' = [wire EXCEPT ![Other("srv")] = @ \o ControlBytes(ExitMsg)]
    BY <1>2, <2>1, SendOne
  <2>3. ControlBytes(ExitMsg) \in Seq(Byte)
    BY ControlFrame DEF Msg
  <2>4. wire' \in [Side -> Seq(Byte)]
    BY <1>1, <1>2, <2>2, <2>3, WireGrows
  <2>5. \A o \in Side : Backlog(o)'
    BY <1>1, <2>1, SameBacklog
  <2> QED
    BY <1>1, <2>1, <2>4, <2>5 DEF BacklogInv, Types, Small
<1>6. CASE Deleted
  <2>1. /\ UNCHANGED <<wire, rx, slot, ttyopen, rest>>
        /\ file' = [file EXCEPT !["srv"] = CloseFile(@)]
    BY <1>6 DEF Deleted
  <2>2. file' \in [Side -> FileState] /\ \A o \in Side : Backlog(o)'
    BY <1>1, <1>2, <2>1, KeepFiles
  <2> QED
    BY <1>1, <2>1, <2>2 DEF BacklogInv, Types, Small
<1>7. ASSUME NEW n \in 1 .. ReadMax, CliInput(n) PROVE BacklogInv'
  <2>1. n \in Nat
    BY ShellAssumption
  <2>2. Forward("cli", n) /\ UNCHANGED <<rx, ttyopen, file>>
    BY <1>7 DEF CliInput
  <2>3. /\ wire' \in [Side -> Seq(Byte)] /\ rest' \in [Side -> Seq(Byte)]
        /\ slot' = slot \/ slot' = [slot EXCEPT !["cli"] = "escape"]
    BY <1>1, <1>2, <2>1, <2>2, Forwards
  <2>4. CASE slot' = slot
    <3>1. \A o \in Side : Backlog(o)'
      BY <1>1, <2>2, <2>4, SameBacklog
    <3> QED
      BY <1>1, <2>2, <2>3, <2>4, <3>1 DEF BacklogInv, Types, Small
  <2>5. CASE slot' = [slot EXCEPT !["cli"] = "escape"]
    <3>1. slot' \in [Side -> {"idle", "top", "receive", "escape"}] /\ \A o \in Side : Backlog(o)'
      BY <1>1, <1>2, <2>2, <2>5, SlotLeaves
    <3> QED
      BY <1>1, <2>2, <2>3, <3>1 DEF BacklogInv, Types, Small
  <2> QED
    BY <2>3, <2>4, <2>5
<1>8. ASSUME NEW n \in 1 .. ReadMax, ChildOutput(n) PROVE BacklogInv'
  <2>1. n \in Nat
    BY ShellAssumption
  <2>2. Forward("srv", n) /\ UNCHANGED <<rx, ttyopen>>
    BY <1>8 DEF ChildOutput
  <2>3. /\ wire' \in [Side -> Seq(Byte)] /\ rest' \in [Side -> Seq(Byte)]
        /\ slot' = slot \/ slot' = [slot EXCEPT !["srv"] = "escape"]
    BY <1>1, <1>2, <2>1, <2>2, Forwards
  <2>4. file' = file \/ (file' = [file EXCEPT !["srv"] = CloseFile(@)] /\ slot' = slot)
    BY <1>8 DEF ChildOutput
  <2>5. CASE file' = file /\ slot' = slot
    <3>1. \A o \in Side : Backlog(o)'
      BY <1>1, <2>2, <2>5, SameBacklog
    <3> QED
      BY <1>1, <2>2, <2>3, <2>5, <3>1 DEF BacklogInv, Types, Small
  <2>6. CASE file' = file /\ slot' = [slot EXCEPT !["srv"] = "escape"]
    <3>1. slot' \in [Side -> {"idle", "top", "receive", "escape"}] /\ \A o \in Side : Backlog(o)'
      BY <1>1, <1>2, <2>2, <2>6, SlotLeaves
    <3> QED
      BY <1>1, <2>2, <2>3, <2>6, <3>1 DEF BacklogInv, Types, Small
  <2>7. CASE file' = [file EXCEPT !["srv"] = CloseFile(@)] /\ slot' = slot
    <3>1. file' \in [Side -> FileState] /\ \A o \in Side : Backlog(o)'
      BY <1>1, <1>2, <2>2, <2>7, KeepFiles
    <3> QED
      BY <1>1, <2>2, <2>3, <2>7, <3>1 DEF BacklogInv, Types, Small
  <2> QED
    BY <2>3, <2>4, <2>5, <2>6, <2>7
<1>9. ASSUME NEW s \in Side, ReadyRead(s) PROVE BacklogInv'
  <2>1. /\ slot[s] = "idle" /\ slot' = [slot EXCEPT ![s] = "top"]
        /\ ttyopen' = (IF s = "srv" THEN file[s].open ELSE ttyopen)
        /\ UNCHANGED <<wire, rx, file, rest>>
    BY <1>9 DEF ReadyRead
  <2>2. file[s].open \in BOOLEAN
    BY <1>1 DEF Types, FileState
  <2>3. ttyopen' \in BOOLEAN /\ slot' \in [Side -> {"idle", "top", "receive", "escape"}]
    BY <1>1, <2>1, <2>2 DEF Types
  <2>4. slot'[s] = "top" /\ \A o \in Side : o # s => slot'[o] = slot[o]
    BY <1>1, <2>1 DEF Types
  <2>5. Backlog(s)'
    BY <1>1, <2>1, <2>4 DEF Backlog
  <2>6. ASSUME NEW o \in Side, o # s PROVE Backlog(o)'
    BY <1>1, <2>1, <2>4, <2>6 DEF Backlog, Side
  <2>7. \A o \in Side : Backlog(o)'
    BY <2>5, <2>6
  <2> QED
    BY <1>1, <2>1, <2>3, <2>7 DEF BacklogInv, Types, Small
<1>10. ASSUME NEW s \in Side, LoopTop(s) PROVE BacklogInv'
  <2>1. UNCHANGED <<wire, rx, ttyopen, file, rest>>
    BY <1>10 DEF LoopTop
  <2>2. CASE slot' = [slot EXCEPT ![s] = "idle"]
    BY <1>1, <2>1, <2>2, SlotLeaves DEF BacklogInv, Types, Small
  <2>3. CASE /\ slot' = [slot EXCEPT ![s] = "receive"]
             /\ ~((s = "srv" => ttyopen) /\ BytesToWrite(file[s]) >= ShellBufferSize)
    <3>1. slot' \in [Side -> {"idle", "top", "receive", "escape"}]
      BY <1>1, <2>3 DEF Types
    <3>2. (s = "srv" => ttyopen) => file[s].outqd < ShellBufferSize
      <4>1. file[s].outqd \in Nat /\ ShellBufferSize \in Nat
        BY <1>1, Constants DEF Types, FileState
      <4> QED
        BY <2>3, <4>1 DEF BytesToWrite
    <3>3. Backlog(s)'
      BY <1>1, <2>1, <3>2 DEF Backlog
    <3>4. \A o \in Side : o # s => Backlog(o)'
      BY <1>1, <2>1, <2>3 DEF Backlog, Types
    <3>5. \A o \in Side : Backlog(o)'
      BY <3>3, <3>4
    <3> QED
      BY <1>1, <2>1, <3>1, <3>5 DEF BacklogInv, Types, Small
  <2> QED
    BY <1>10, <2>2, <2>3 DEF LoopTop
<1>11. ASSUME NEW s \in Side, Fill(s) PROVE BacklogInv'
  <2>1. /\ rx' \in [Side -> RxState] /\ Small' /\ wire' \in [Side -> Seq(Byte)]
        /\ UNCHANGED <<slot, ttyopen, file, rest>>
    BY <1>1, <1>11, KeepFill
  <2>2. \A o \in Side : Backlog(o)'
    BY <1>1, <2>1, SameBacklog
  <2> QED
    BY <1>1, <2>1, <2>2 DEF BacklogInv, Types, Small
<1>12. ASSUME NEW s \in Side, NothingYet(s) PROVE BacklogInv'
  <2>1. UNCHANGED <<wire, rx, ttyopen, file, rest>> /\ slot' = [slot EXCEPT ![s] = "idle"]
    BY <1>12 DEF NothingYet
  <2> QED
    BY <1>1, <2>1, SlotLeaves DEF BacklogInv, Types, Small
<1>13. CASE UNCHANGED vars
  <2>1. \A o \in Side : Backlog(o)'
    BY <1>1, <1>13, SameBacklog DEF vars
  <2> QED
    BY <1>1, <1>13, <2>1 DEF BacklogInv, Types, Small, vars
<1> QED
  BY <1>3, <1>4, <1>5, <1>6, <1>7, <1>8, <1>9, <1>10, <1>11, <1>12, <1>13, KeepReadyWrite,
     KeepReceiving, KeepData, KeepLength, KeepControl DEF Next

(* However fast bytes arrive and however slowly a file takes them, less    *)
(* than the buffer and one piece of the stream wait in an AsyncFile        *)
(* (inReady, outReady, AsyncFile::writeData).                              *)
THEOREM BacklogLimited == Spec => []BacklogBounded
<1>1. BacklogInv => BacklogBounded
  <2> SUFFICES ASSUME BacklogInv, NEW s \in Side
               PROVE  Len(file[s].outq) < ShellBufferSize + MaxPiece
    BY DEF BacklogBounded
  <2>1. file[s].outq \in Seq(Byte) /\ file[s].outqd \in Nat
    BY DEF BacklogInv, Types, FileState
  <2>2. Len(file[s].outq) \in Nat /\ ShellBufferSize \in Nat /\ MaxPiece \in Nat
    BY <2>1, LenProperties, Constants
  <2>3. Len(file[s].outq) <= file[s].outqd /\ file[s].outqd < ShellBufferSize + MaxPiece
    BY DEF BacklogInv, Backlog
  <2> QED
    BY <2>1, <2>2, <2>3
<1> QED
  BY <1>1, BacklogInit, BacklogStep, PTL DEF Spec


-----------------------------------------------------------------------------
(* What a file is given.  DataOf() goes through the items one by one; f[i] *)
(* is what it has after i of them.                                         *)

Received == ({"Data"} \X Byte) \cup ({"Control"} \X Seq(Byte))

AfterItem(d, it) == IF it[1] = "Data" THEN Append(d, it[2]) ELSE d

Collects(f, q) ==
    /\ f \in [0 .. Len(q) -> Seq(Byte)] /\ f[0] = <<>>
    /\ \A i \in 1 .. Len(q) : f[i] = AfterItem(f[i - 1], q[i])

LEMMA AfterItemType ==
    ASSUME NEW d \in Seq(Byte), NEW it \in Received
    PROVE  AfterItem(d, it) \in Seq(Byte)
<1>1. it[1] = "Data" => it[2] \in Byte
  BY DEF Received
<1>2. ASSUME NEW b \in Byte PROVE Append(d, b) \in Seq(Byte)
  BY AppendProperties
<1> QED
  BY <1>1, <1>2 DEF AfterItem

(* Statements about the positions of a sequence, by the first that fails. *)
LEMMA Upwards ==
    ASSUME NEW n \in Nat, NEW P \in SUBSET (0 .. n), 0 \in P,
           \A i \in 1 .. n : i - 1 \in P => i \in P
    PROVE  \A i \in 0 .. n : i \in P
<1> DEFINE Bad == (0 .. n) \ P
<1>1. ASSUME Bad # {} PROVE FALSE
  <2>1. Bad \in SUBSET Nat
    OBVIOUS
  <2>2. PICK m \in Bad : \A d \in Bad : m <= d
    BY <1>1, <2>1, Least
  <2>3. m # 0 /\ m \in 0 .. n
    BY <2>2
  <2>4. m - 1 \in 0 .. n /\ m - 1 \notin Bad
    BY <2>2, <2>3
  <2> QED
    BY <2>2, <2>3, <2>4
<1> QED
  BY <1>1

LEMMA DataCollected ==
    ASSUME NEW q \in Seq(Received)
    PROVE  \E f : Collects(f, q) /\ DataOf(q) = f[Len(q)]
<1>1. PICK n \in Nat : n = Len(q)
  BY LenProperties
<1>2. \A i \in 1 .. n : q[i] \in Received
  BY <1>1, ElementOfSeq
<1> DEFINE Made(f, k) == /\ f \in [0 .. k -> Seq(Byte)] /\ f[0] = <<>>
                        /\ \A i \in 1 .. k : f[i] = AfterItem(f[i - 1], q[i])
           P == {k \in 0 .. n : \E f : Made(f, k)}
           F(f) == f = [i \in 0 .. n |-> IF i = 0 THEN <<>> ELSE AfterItem(f[i - 1], q[i])]
<1>3. P \in SUBSET (0 .. n) /\ 0 \in P
  <2>1. Made([i \in 0 .. 0 |-> <<>>], 0)
    OBVIOUS
  <2> HIDE DEF Made
  <2> QED
    BY <2>1
<1>4. ASSUME NEW k \in 1 .. n, k - 1 \in P PROVE k \in P
  <2>1. PICK f : Made(f, k - 1)
    BY <1>4
  <2>2. PICK x \in Seq(Byte) : x = AfterItem(f[k - 1], q[k])
    <3>1. f[k - 1] \in Seq(Byte) /\ q[k] \in Received
      BY <1>2, <2>1
    <3> QED
      BY <3>1, AfterItemType
  <2> DEFINE g == [i \in 0 .. k |-> IF i = k THEN x ELSE f[i]]
  <2>3. g \in [0 .. k -> Seq(Byte)] /\ g[0] = <<>>
    <3>1. ASSUME NEW i \in 0 .. k PROVE (IF i = k THEN x ELSE f[i]) \in Seq(Byte)
      <4>1. CASE i = k
        BY <4>1
      <4>2. CASE i # k
        <5>1. i \in 0 .. k - 1
          BY <4>2
        <5> QED
          BY <2>1, <4>2, <5>1
      <4> QED
        BY <4>1, <4>2
    <3> QED
      BY <2>1, <3>1
  <2>4. ASSUME NEW i \in 1 .. k PROVE g[i] = AfterItem(g[i - 1], q[i])
    <3>1. g[i - 1] = f[i - 1]
      OBVIOUS
    <3>2. CASE i = k
      BY <2>2, <3>1, <3>2
    <3>3. CASE i # k
      <4>1. i \in 1 .. k - 1 /\ g[i] = f[i]
        BY <3>3
      <4> QED
        BY <2>1, <3>1, <4>1
    <3> QED
      BY <3>2, <3>3
  <2>5. Made(g, k)
    BY <2>3, <2>4
  <2> HIDE DEF Made, g
  <2> QED
    BY <2>5
<1>5. PICK f : Made(f, n)
  <2> HIDE DEF P
  <2>1. \A k \in 0 .. n : k \in P
    BY <1>3, <1>4, Upwards, Zenon
  <2>2. n \in P
    BY <2>1
  <2> QED
    BY <2>2 DEF P
<1>6. F(f)
  <2>1. f = [i \in 0 .. n |-> f[i]]
    BY <1>5
  <2>2. \A i \in 0 .. n : f[i] = IF i = 0 THEN <<>> ELSE AfterItem(f[i - 1], q[i])
    BY <1>5
  <2> QED
    BY <2>1, <2>2
<1>7. PICK h : h = CHOOSE g : F(g)
  OBVIOUS
<1>8. F(h)
  <2> HIDE DEF F
  <2> QED
    BY <1>6, <1>7
<1>9. DataOf(q) = h[n]
  BY <1>1, <1>7, Zenon DEF DataOf, AfterItem
<1>10. \A i \in 1 .. n : h[i] = AfterItem(h[i - 1], q[i])
  BY <1>8
<1>11. h[0] = <<>> /\ h = [i \in 0 .. n |-> h[i]]
  BY <1>8
<1> HIDE DEF F
<1> DEFINE Q == {i \in 0 .. n : h[i] \in Seq(Byte)}
<1>12. Q \in SUBSET (0 .. n) /\ 0 \in Q
  <2>1. <<>> \in Seq(Byte)
    OBVIOUS
  <2> QED
    BY <1>11, <2>1
<1>13. ASSUME NEW i \in 1 .. n, i - 1 \in Q PROVE i \in Q
  <2>1. h[i - 1] \in Seq(Byte) /\ q[i] \in Received
    BY <1>2, <1>13
  <2>2. h[i] \in Seq(Byte)
    BY <1>10, <2>1, AfterItemType
  <2> QED
    BY <2>2
<1>14. \A i \in 0 .. n : h[i] \in Seq(Byte)
  <2> HIDE DEF Q
  <2>1. \A i \in 0 .. n : i \in Q
    BY <1>12, <1>13, Upwards, Zenon
  <2> QED
    BY <2>1 DEF Q
<1>15. h \in [0 .. n -> Seq(Byte)]
  BY <1>11, <1>14
<1>16. Collects(h, q)
  BY <1>1, <1>10, <1>11, <1>15 DEF Collects
<1> QED
  BY <1>1, <1>9, <1>16

(* It depends only on the items so far. *)
LEMMA SameSoFar ==
    ASSUME NEW q, NEW r, NEW f, NEW g, Len(q) \in Nat, Len(r) \in Nat, Len(q) <= Len(r),
           \A i \in 1 .. Len(q) : r[i] = q[i], Collects(f, q), Collects(g, r)
    PROVE  g[Len(q)] = f[Len(q)]
<1>0. PICK n \in Nat : n = Len(q)
  OBVIOUS
<1> DEFINE P == {i \in 0 .. n : g[i] = f[i]}
<1>1. P \in SUBSET (0 .. n) /\ 0 \in P
  BY DEF Collects
<1>2. ASSUME NEW i \in 1 .. n, i - 1 \in P PROVE i \in P
  <2>1. g[i - 1] = f[i - 1] /\ i \in 1 .. Len(r) /\ r[i] = q[i]
    BY <1>0, <1>2
  <2>2. f[i] = AfterItem(f[i - 1], q[i]) /\ g[i] = AfterItem(g[i - 1], r[i])
    BY <1>0, <2>1 DEF Collects
  <2> QED
    BY <2>1, <2>2
<1> HIDE DEF P
<1>3. \A i \in 0 .. n : i \in P
  BY <1>1, <1>2, Upwards, Zenon
<1>4. n \in P
  BY <1>3
<1> QED
  BY <1>0, <1>4 DEF P

LEMMA ControlAdds ==
    ASSUME NEW q \in Seq(Received), NEW m \in Seq(Byte)
    PROVE  /\ Append(q, <<"Control", m>>) \in Seq(Received)
           /\ DataOf(Append(q, <<"Control", m>>)) = DataOf(q)
<1>1. PICK x \in Received : x = <<"Control", m>> /\ x[1] = "Control"
  <2>1. <<"Control", m>> \in Received /\ <<"Control", m>>[1] = "Control"
    BY DEF Received
  <2> QED
    BY <2>1, Zenon
<1>2. PICK n \in Nat : n = Len(q)
  BY LenProperties
<1>3. PICK r \in Seq(Received) :
        r = Append(q, x) /\ Len(r) = n + 1 /\ (\A i \in 1 .. n : r[i] = q[i]) /\ r[n + 1] = x
  BY <1>2, AppendProperties
<1>4. PICK f : Collects(f, q) /\ DataOf(q) = f[n]
  BY <1>2, DataCollected
<1>5. PICK g : Collects(g, r) /\ DataOf(r) = g[n + 1]
  BY <1>3, DataCollected
<1>6. g[n] = f[n]
  <2>1. Len(q) \in Nat /\ Len(r) \in Nat /\ Len(q) <= Len(r)
    BY <1>2, <1>3
  <2>2. \A i \in 1 .. Len(q) : r[i] = q[i]
    BY <1>2, <1>3
  <2>3. g[Len(q)] = f[Len(q)]
    BY <1>4, <1>5, <2>1, <2>2, SameSoFar, Zenon
  <2> QED
    BY <1>2, <2>3
<1>7. g[n + 1] = AfterItem(g[n], x)
  <2>1. n + 1 \in 1 .. n + 1 /\ (n + 1) - 1 = n
    OBVIOUS
  <2>2. g[n + 1] = AfterItem(g[(n + 1) - 1], r[n + 1])
    BY <1>3, <1>5, <2>1 DEF Collects
  <2> QED
    BY <1>3, <2>1, <2>2
<1>8. g[n + 1] = g[n]
  BY <1>1, <1>7 DEF AfterItem
<1> QED
  BY <1>1, <1>3, <1>4, <1>5, <1>6, <1>8

LEMMA DataAdds ==
    ASSUME NEW q \in Seq(Received), NEW d \in Seq(Byte)
    PROVE  LET r == q \o [i \in DOMAIN d |-> <<"Data", d[i]>>]
           IN  r \in Seq(Received) /\ DataOf(r) = DataOf(q) \o d
<1>1. PICK n \in Nat, k \in Nat : n = Len(q) /\ k = Len(d) /\ DOMAIN d = 1 .. k
  BY LenProperties
<1>2. PICK t \in Seq(Received) : /\ t = [i \in DOMAIN d |-> <<"Data", d[i]>>] /\ Len(t) = k
                                 /\ \A i \in 1 .. k : t[i] = <<"Data", d[i]>> /\ d[i] \in Byte
  <2>1. \A i \in 1 .. k : d[i] \in Byte
    BY <1>1, ElementOfSeq
  <2>2. [i \in DOMAIN d |-> <<"Data", d[i]>>] \in [1 .. k -> Received]
    BY <1>1, <2>1 DEF Received
  <2>3. /\ [i \in DOMAIN d |-> <<"Data", d[i]>>] \in Seq(Received)
        /\ Len([i \in DOMAIN d |-> <<"Data", d[i]>>]) = k
    BY <1>1, <2>2, SeqDef, LenProperties
  <2> QED
    BY <1>1, <2>1, <2>3
<1>3. PICK r \in Seq(Received) :
        /\ r = q \o t /\ Len(r) = n + k
        /\ \A i \in 1 .. n + k : r[i] = IF i <= n THEN q[i] ELSE t[i - n]
  <2>1. q \o t \in Seq(Received) /\ Len(q \o t) = Len(q) + Len(t)
    BY ConcatProperties
  <2>2. \A i \in 1 .. Len(q) + Len(t) : (q \o t)[i] = IF i <= Len(q) THEN q[i] ELSE t[i - Len(q)]
    BY ConcatProperties
  <2>3. PICK r : r = q \o t
    OBVIOUS
  <2>4. r \in Seq(Received) /\ Len(r) = n + k
    BY <1>1, <1>2, <2>1, <2>3
  <2>5. ASSUME NEW i \in 1 .. n + k PROVE r[i] = IF i <= n THEN q[i] ELSE t[i - n]
    <3>1. i \in 1 .. Len(q) + Len(t)
      BY <1>1, <1>2
    <3>2. r[i] = IF i <= Len(q) THEN q[i] ELSE t[i - Len(q)]
      BY <2>2, <2>3, <3>1, Zenon
    <3> QED
      BY <1>1, <3>2, Zenon
  <2> QED
    BY <2>3, <2>4, <2>5, Zenon
<1>4. PICK f : Collects(f, q) /\ DataOf(q) = f[n]
  BY <1>1, DataCollected
<1>5. PICK g : Collects(g, r) /\ DataOf(r) = g[n + k]
  BY <1>3, DataCollected
<1>6. g[n] = f[n]
  <2>1. Len(q) \in Nat /\ Len(r) \in Nat /\ Len(q) <= Len(r)
    BY <1>1, <1>3
  <2>2. \A i \in 1 .. Len(q) : r[i] = q[i]
    BY <1>1, <1>3
  <2>3. g[Len(q)] = f[Len(q)]
    BY <1>4, <1>5, <2>1, <2>2, SameSoFar, Zenon
  <2> QED
    BY <1>1, <2>3
<1>7. PICK a \in Seq(Byte) : a = g[n]
  <2>1. g \in [0 .. n + k -> Seq(Byte)]
    BY <1>3, <1>5, Zenon DEF Collects
  <2>2. n \in 0 .. n + k
    OBVIOUS
  <2> QED
    BY <2>1, <2>2
<1>8. PICK l \in Nat : l = Len(a)
  BY LenProperties
<1> DEFINE Grown(e, i) == /\ e \in Seq(Byte) /\ Len(e) = l + i
                          /\ \A j \in 1 .. l + i : e[j] = IF j <= l THEN a[j] ELSE d[j - l]
           P == {i \in 0 .. k : Grown(g[n + i], i)}
<1>9. P \in SUBSET (0 .. k) /\ 0 \in P
  BY <1>7, <1>8
<1>10. ASSUME NEW i \in 1 .. k, i - 1 \in P PROVE i \in P
  <2>1. PICK e : e = g[n + (i - 1)] /\ Grown(e, i - 1)
    BY <1>10
  <2>2. n + i \in 1 .. n + k /\ (n + i) - 1 = n + (i - 1) /\ r[n + i] = <<"Data", d[i]>> /\ d[i] \in Byte
    <3>1. n + i \in 1 .. n + k /\ (n + i) - 1 = n + (i - 1) /\ ~(n + i <= n) /\ (n + i) - n = i
      OBVIOUS
    <3>2. r[n + i] = IF n + i <= n THEN q[n + i] ELSE t[(n + i) - n]
      BY <1>3, <3>1, Zenon
    <3>3. r[n + i] = t[i]
      BY <3>1, <3>2, Zenon
    <3> QED
      BY <1>2, <3>1, <3>3, Zenon
  <2>3. g[n + i] = AfterItem(g[(n + i) - 1], r[n + i])
    BY <1>3, <1>5, <2>2 DEF Collects
  <2>4. g[n + i] = Append(e, d[i])
    <3>1. r[n + i][1] = "Data" /\ r[n + i][2] = d[i] /\ g[(n + i) - 1] = e
      BY <2>1, <2>2
    <3>2. g[n + i] = IF r[n + i][1] = "Data" THEN Append(e, r[n + i][2]) ELSE e
      BY <2>3, <3>1, Zenon DEF AfterItem
    <3> QED
      BY <3>1, <3>2, Zenon
  <2>5. PICK m \in Nat : m = l + (i - 1) /\ m + 1 = l + i
    <3>1. l + (i - 1) \in Nat /\ (l + (i - 1)) + 1 = l + i
      OBVIOUS
    <3> QED
      BY <3>1, Zenon
  <2>6. e \in Seq(Byte) /\ Len(e) = m /\ \A j \in 1 .. m : e[j] = IF j <= l THEN a[j] ELSE d[j - l]
    BY <2>1, <2>5
  <2>7. PICK c \in Seq(Byte) : /\ c = Append(e, d[i]) /\ Len(c) = m + 1
                               /\ (\A j \in 1 .. m : c[j] = e[j]) /\ c[m + 1] = d[i]
    <3>1. /\ Append(e, d[i]) \in Seq(Byte) /\ Len(Append(e, d[i])) = Len(e) + 1
          /\ \A j \in 1 .. Len(e) : Append(e, d[i])[j] = e[j]
          /\ Append(e, d[i])[Len(e) + 1] = d[i]
      BY <2>2, <2>6, AppendProperties
    <3> QED
      BY <2>6, <3>1, Zenon
  <2>8. ASSUME NEW j \in 1 .. m + 1 PROVE c[j] = IF j <= l THEN a[j] ELSE d[j - l]
    <3>1. CASE j = m + 1
      <4>1. ~(j <= l) /\ j - l = i
        BY <2>5, <3>1
      <4> QED
        BY <2>7, <3>1, <4>1
    <3>2. CASE j # m + 1
      <4>1. j \in 1 .. m
        BY <3>2
      <4> QED
        BY <2>6, <2>7, <4>1
    <3> QED
      BY <3>1, <3>2
  <2>9. Grown(c, i)
    BY <2>5, <2>7, <2>8
  <2> HIDE DEF Grown
  <2>10. i \in 0 .. k
    OBVIOUS
  <2> QED
    BY <2>10, <2>4, <2>7, <2>9, Zenon
<1> HIDE DEF P
<1>11. k \in P
  <2>1. \A i \in 0 .. k : i \in P
    BY <1>9, <1>10, Upwards, Zenon
  <2> QED
    BY <2>1
<1>12. PICK e : e = g[n + k] /\ Grown(e, k)
  BY <1>11 DEF P
<1>13. e = a \o d
  <2>1. PICK c \in Seq(Byte) : /\ c = a \o d /\ Len(c) = l + k
                               /\ \A j \in 1 .. l + k : c[j] = IF j <= l THEN a[j] ELSE d[j - l]
    <3>1. a \o d \in Seq(Byte) /\ Len(a \o d) = Len(a) + Len(d)
      BY ConcatProperties
    <3>2. \A j \in 1 .. Len(a) + Len(d) : (a \o d)[j] = IF j <= Len(a) THEN a[j] ELSE d[j - Len(a)]
      BY ConcatProperties
    <3> QED
      BY <1>1, <1>8, <3>1, <3>2, Zenon
  <2>2. Len(e) = Len(c) /\ \A j \in 1 .. Len(e) : e[j] = c[j]
    BY <1>12, <2>1
  <2> QED
    BY <1>12, <2>1, <2>2, SeqEqual
<1> QED
  BY <1>2, <1>3, <1>4, <1>5, <1>6, <1>7, <1>12, <1>13

-----------------------------------------------------------------------------
(* What a file took and what waits for it, together, are what the side     *)
(* received.                                                               *)

LEMMA Joined ==
    ASSUME NEW S, NEW q \in Seq(S), NEW n \in 0 .. Len(q)
    PROVE  SubSeq(q, 1, n) \o SubSeq(q, n + 1, Len(q)) = q
<1>1. Len(q) \in Nat
  BY LenProperties
<1>2. /\ SubSeq(q, 1, n) \in Seq(S) /\ Len(SubSeq(q, 1, n)) = n
      /\ \A i \in 1 .. n : SubSeq(q, 1, n)[i] = q[i]
  BY Cut
<1>3. /\ SubSeq(q, n + 1, Len(q)) \in Seq(S)
      /\ Len(SubSeq(q, n + 1, Len(q))) = Len(q) - n
      /\ \A i \in 1 .. Len(q) - n : SubSeq(q, n + 1, Len(q))[i] = q[n + i]
  BY Cut
<1>4. PICK a \in Seq(S) : a = SubSeq(q, 1, n) /\ Len(a) = n /\ \A i \in 1 .. n : a[i] = q[i]
  BY <1>2, Zenon
<1>5. PICK b \in Seq(S) : /\ b = SubSeq(q, n + 1, Len(q)) /\ Len(b) = Len(q) - n
                          /\ \A i \in 1 .. Len(q) - n : b[i] = q[n + i]
  BY <1>3, Zenon
<1>6. a \o b \in Seq(S) /\ Len(a \o b) = Len(a) + Len(b)
  BY ConcatProperties
<1>7. \A i \in 1 .. Len(a) + Len(b) : (a \o b)[i] = IF i <= Len(a) THEN a[i] ELSE b[i - Len(a)]
  BY ConcatProperties
<1>8. Len(a) + Len(b) = Len(q)
  <2>1. PICK l \in Nat : l = Len(q)
    BY <1>1
  <2>2. n \in 0 .. l
    BY <2>1
  <2>3. n + (l - n) = l
    BY <2>2
  <2> QED
    BY <1>4, <1>5, <2>1, <2>3, Zenon
<1>9. ASSUME NEW i \in 1 .. Len(q) PROVE (a \o b)[i] = q[i]
  <2>1. (a \o b)[i] = IF i <= n THEN a[i] ELSE b[i - n]
    <3>1. i \in 1 .. Len(a) + Len(b)
      BY <1>8
    <3>2. (a \o b)[i] = IF i <= Len(a) THEN a[i] ELSE b[i - Len(a)]
      BY <1>7, <3>1, Zenon
    <3> QED
      BY <1>4, <3>2, Zenon
  <2>2. CASE i <= n
    <3>1. i \in 1 .. n
      BY <2>2
    <3>2. a[i] = q[i]
      BY <1>4, <3>1
    <3> QED
      BY <2>1, <2>2, <3>2, Zenon
  <2>3. CASE ~(i <= n)
    <3>1. i - n \in 1 .. Len(q) - n /\ n + (i - n) = i
      BY <1>1, <2>3
    <3>2. b[i - n] = q[i]
      BY <1>5, <3>1
    <3> QED
      BY <2>1, <2>3, <3>2, Zenon
  <2> QED
    BY <2>2, <2>3
<1>10. a \o b = q
  <2>1. Len(a \o b) = Len(q)
    BY <1>6, <1>8
  <2>2. PICK c \in Seq(S) : c = a \o b
    BY <1>6
  <2> QED
    BY <1>9, <2>1, <2>2, SeqEqual
<1> QED
  BY <1>4, <1>5, <1>10, Zenon

LEMMA Regrouped == \A a, b, c \in Seq(Byte) : (a \o b) \o c = a \o (b \o c)
  BY ONLY ConcatAssociative, SMTT(30)

(* writeData() puts the bytes after the ones that were there. *)
LEMMA WrittenData ==
    ASSUME NEW f \in FileState, NEW d \in Seq(Byte), NEW n \in 0 .. Len(d)
    PROVE  LET g == WriteData(f, d, n)
           IN  g.st = f.st /\ g.out \o g.outq = (f.out \o f.outq) \o d
<1> DEFINE k == IF f.outq = <<>> THEN n ELSE 0
<1>1. Len(d) \in Nat /\ k \in 0 .. Len(d)
  BY LenProperties
<1>2. PICK o \in Seq(Byte) : o = f.out
  BY DEF FileState
<1>3. PICK w \in Seq(Byte) : w = f.outq
  BY DEF FileState
<1>4. PICK a \in Seq(Byte) : a = SubSeq(d, 1, k)
  BY <1>1, Cut
<1>5. PICK b \in Seq(Byte) : b = SubSeq(d, k + 1, Len(d))
  BY <1>1, Cut
<1>6. a \o b = d
  <2> HIDE DEF k
  <2>1. SubSeq(d, 1, k) \o SubSeq(d, k + 1, Len(d)) = d
    BY <1>1, Joined
  <2> QED
    BY <1>4, <1>5, <2>1, Zenon
<1>7. /\ WriteData(f, d, n).st = f.st
      /\ WriteData(f, d, n).out = o \o a /\ WriteData(f, d, n).outq = w \o b
  <2>1. WriteData(f, d, n) = [f EXCEPT !.out = @ \o SubSeq(d, 1, k),
                                       !.outq = @ \o SubSeq(d, k + 1, Len(d)),
                                       !.outqd = @ + Len(d) - k]
    BY DEF WriteData
  <2> HIDE DEF k
  <2>2. WriteData(f, d, n) = [f EXCEPT !.out = @ \o a, !.outq = @ \o b, !.outqd = @ + Len(d) - k]
    BY <1>4, <1>5, <2>1, Zenon
  <2> QED
    BY <1>2, <1>3, <2>2 DEF FileState
<1>0. \A x \in Seq(Byte) : x \o <<>> = x /\ <<>> \o x = x
  BY ConcatEmptySeq
<1>8. (o \o a) \o (w \o b) = (o \o w) \o d
  <2>1. CASE w = <<>>
    <3>1. w \o b = b /\ o \o w = o
      <4>1. <<>> \o b = b /\ o \o <<>> = o
        BY <1>0, Zenon
      <4> QED
        BY <2>1, <4>1
    <3>2. (o \o a) \o b = o \o (a \o b)
      BY Regrouped, SMTT(30)
    <3> QED
      BY <1>6, <3>1, <3>2, Zenon
  <2>2. CASE w # <<>>
    <3>1. k = 0
      BY <1>3, <2>2
    <3>2. a = <<>>
      <4>1. Len(a) = 0
        BY <1>1, <1>4, <3>1, Cut
      <4> QED
        BY <4>1, EmptySeq
    <3>3. o \o a = o /\ a \o b = b
      <4>1. <<>> \o b = b /\ o \o <<>> = o
        BY <1>0, Zenon
      <4> QED
        BY <3>2, <4>1
    <3>4. (o \o w) \o b = o \o (w \o b)
      BY Regrouped, SMTT(30)
    <3> QED
      BY <1>6, <3>3, <3>4, Zenon
  <2> QED
    BY <2>1, <2>2
<1> QED
  BY <1>2, <1>3, <1>7, <1>8, Zenon

(* The session.  One that is dying, or gone, does not come back to life. *)
SessState == [state : {"live", "dying", "gone"}, tios : {NoPty, TermUnpack(TermPack(Tios))},
              child : {"none", "running", "exited", "reaped"}]

Lives == sess' \in SessState /\ (sess'.state = "live" => sess.state = "live")

LEMMA SessionChanges ==
    ASSUME sess \in SessState
    PROVE  /\ \A t \in {"dying", "gone"} :
                 [sess EXCEPT !.state = t] \in SessState /\ [sess EXCEPT !.state = t].state = t
           /\ \A c \in {"none", "running", "exited", "reaped"} :
                 [sess EXCEPT !.child = c] \in SessState /\ [sess EXCEPT !.child = c].state = sess.state
           /\ \A t \in {NoPty, TermUnpack(TermPack(Tios))} :
                 [sess EXCEPT !.tios = t] \in SessState /\ [sess EXCEPT !.tios = t].state = sess.state
  BY DEF SessState

LEMMA SessionDies ==
    ASSUME sess \in SessState, sess' = Error(sess)
    PROVE  Lives /\ sess'.state = "dying"
  BY SessionChanges DEF Error, Lives

LEMMA DeliverLives ==
    ASSUME sess \in SessState, NEW s \in Side, NEW d, DeliverData(s, d)
    PROVE  Lives
<1>1. sess' = Error(sess) \/ sess' = sess
  BY DEF DeliverData, WriteFails
<1> QED
  BY <1>1, SessionDies DEF Lives

LEMMA ControlLives ==
    ASSUME sess \in SessState, NEW s \in Side, GotControl(s)
    PROVE  Lives
<1> DEFINE t == TermUnpack(TermPack(Tios))
<1>1. PICK m : IF s = "srv" THEN SrvControl(m) ELSE CliControl(m)
  BY DEF GotControl
<1>2. \/ sess' = Error(sess) \/ sess' = sess
      \/ sess' = [sess EXCEPT !.tios = t] \/ sess' = [sess EXCEPT !.child = "running"]
  <2>1. CASE s # "srv"
    BY <1>1, <2>1 DEF CliControl
  <2>2. CASE s = "srv"
    <3>1. OpenPty \/ Run \/ sess' = sess
      BY <1>1, <2>2 DEF SrvControl
    <3>2. CASE OpenPty
      BY <3>2, Zenon DEF OpenPty
    <3>3. CASE Run
      BY <3>3 DEF Run
    <3> QED
      BY <3>1, <3>2, <3>3
  <2> QED
    BY <2>1, <2>2
<1>3. CASE sess' = Error(sess)
  BY <1>3, SessionDies
<1>4. CASE sess' = [sess EXCEPT !.tios = t]
  BY <1>4, SessionChanges DEF Lives
<1>5. CASE sess' = [sess EXCEPT !.child = "running"]
  BY <1>5, SessionChanges DEF Lives
<1> QED
  BY <1>2, <1>3, <1>4, <1>5 DEF Lives

LEMMA SessionStep ==
    ASSUME sess \in SessState, [Next]_vars
    PROVE  Lives
<1>1. CASE sess' = sess
  BY <1>1 DEF Lives
<1>2. CASE ChildExit
  BY <1>2, SessionChanges DEF ChildExit, Lives
<1>3. CASE ChildDone
  <2>1. PICK e \in SessState : e = Error(sess) /\ e.state = "dying"
    BY SessionChanges DEF Error
  <2>2. sess' = [e EXCEPT !.child = "reaped"]
    BY <1>3, <2>1 DEF ChildDone
  <2>3. sess' \in SessState /\ sess'.state = "dying"
    BY <2>1, <2>2 DEF SessState
  <2> QED
    BY <2>3 DEF Lives
<1>4. CASE Deleted
  BY <1>4, SessionChanges DEF Deleted, Lives
<1>5. ASSUME NEW n \in 1 .. ReadMax, CliInput(n) \/ ChildOutput(n) PROVE Lives
  <2>1. sess' = sess \/ sess' = Error(sess)
    BY <1>5 DEF CliInput, ChildOutput
  <2> QED
    BY <1>1, <2>1, SessionDies
<1>6. ASSUME NEW s \in Side, GotData(s) PROVE Lives
  BY <1>6, DeliverLives DEF GotData
<1>7. ASSUME NEW s \in Side, GotLength(s) PROVE Lives
  <2>1. sess' = sess \/ DeliverData(s, <<ControlMarker>>)
    BY <1>7 DEF GotLength
  <2> QED
    BY <1>1, <2>1, DeliverLives
<1>8. ASSUME NEW s \in Side, GotControl(s) PROVE Lives
  BY <1>8, ControlLives
<1>9. CASE Start
  BY <1>1, <1>9 DEF Start
<1>10. ASSUME NEW s \in Side,
              \/ ReadyRead(s) \/ LoopTop(s) \/ Fill(s) \/ NothingYet(s) \/ ReadyWrite(s)
              \/ GotMarker(s) \/ GotPart(s)
       PROVE  Lives
  BY <1>1, <1>10 DEF ReadyRead, LoopTop, Fill, NothingYet, ReadyWrite, GotMarker, GotPart
<1>11. CASE UNCHANGED vars
  BY <1>1, <1>11 DEF vars
<1> QED
  BY <1>2, <1>3, <1>4, <1>5, <1>6, <1>7, <1>8, <1>9, <1>10, <1>11 DEF Next

Forwarded(s) ==
    (s = "cli" \/ sess.state = "live") /\ file[s].st = "Ok" =>
        file[s].out \o file[s].outq = DataOf(got[s])

ForwardInv ==
    /\ BacklogInv /\ got \in [Side -> Seq(Received)] /\ sess \in SessState
    /\ \A s \in Side : Forwarded(s)

(* Nothing moves at side s, though its file may open, close or fail. *)
SameBytes(s) ==
    /\ file'[s].out = file[s].out /\ file'[s].outq = file[s].outq
    /\ file'[s].st = "Ok" => file[s].st = "Ok"

LEMMA SameForward ==
    ASSUME Lives, NEW s \in Side, Forwarded(s), SameBytes(s), DataOf(got'[s]) = DataOf(got[s])
    PROVE  Forwarded(s)'
  BY DEF Lives, Forwarded, SameBytes

LEMMA FileOpensOrCloses ==
    ASSUME Types, NEW s \in Side, NEW g \in {OpenFile(file[s]), CloseFile(file[s])},
           file' = [file EXCEPT ![s] = g]
    PROVE  \A o \in Side : SameBytes(o)
<1>1. PICK f \in FileState : f = file[s]
  BY DEF Types
<1>2. g = [f EXCEPT !.st = "Error"] \/ g = [f EXCEPT !.open = TRUE] \/ g = [f EXCEPT !.open = FALSE]
  BY <1>1 DEF OpenFile, CloseFile
<1>3. g.out = f.out /\ g.outq = f.outq /\ (g.st = "Ok" => f.st = "Ok")
  BY <1>2 DEF FileState
<1>4. \A o \in Side : file'[o] = IF o = s THEN g ELSE file[o]
  BY DEF Types
<1> QED
  BY <1>1, <1>3, <1>4 DEF SameBytes

LEMMA FileKept ==
    ASSUME file' = file
    PROVE  \A o \in Side : SameBytes(o)
  BY DEF SameBytes

(* readyWrite() moves bytes from the queue to the file, or gives up. *)
LEMMA WriteForward ==
    ASSUME Types, Lives, \A o \in Side : Forwarded(o), NEW s \in Side, ReadyWrite(s)
    PROVE  \A o \in Side : Forwarded(o)'
<1>1. got' = got
  BY DEF ReadyWrite
<1>2. PICK f \in FileState : f = file[s]
  BY DEF Types
<1>3. ASSUME NEW o \in Side, o # s PROVE Forwarded(o)'
  <2>1. file'[o] = file[o]
    BY <1>3 DEF ReadyWrite, Types
  <2> QED
    BY <1>1, <2>1, SameForward DEF SameBytes
<1>4. CASE file' = [file EXCEPT ![s].outq = <<>>, ![s].st = "Error"]
  <2>1. file'[s] = [f EXCEPT !.outq = <<>>, !.st = "Error"]
    BY <1>2, <1>4 DEF Types
  <2>2. file'[s].st = "Error"
    BY <2>1 DEF FileState
  <2>3. Forwarded(s)'
    BY <2>2 DEF Forwarded
  <2> QED
    BY <1>3, <2>3
<1>5. ASSUME NEW n \in 1 .. Len(file[s].outq),
             file' = [file EXCEPT ![s].out = @ \o SubSeq(file[s].outq, 1, n),
                                  ![s].outq = SubSeq(@, n + 1, Len(@))]
      PROVE  \A o \in Side : Forwarded(o)'
  <2>1. PICK o \in Seq(Byte) : o = f.out
    BY DEF FileState
  <2>2. PICK w \in Seq(Byte) : w = f.outq
    BY DEF FileState
  <2>3. n \in 0 .. Len(w)
    BY <1>2, <1>5, <2>2
  <2>4. PICK a \in Seq(Byte) : a = SubSeq(w, 1, n)
    BY <2>3, Cut
  <2>5. PICK b \in Seq(Byte) : b = SubSeq(w, n + 1, Len(w))
    BY <2>3, Cut
  <2>6. a \o b = w
    <3>1. SubSeq(w, 1, n) \o SubSeq(w, n + 1, Len(w)) = w
      BY <2>3, Joined
    <3> QED
      BY <2>4, <2>5, <3>1, Zenon
  <2>7. file'[s] = [f EXCEPT !.out = o \o a, !.outq = b]
    <3>1. file'[s] = [f EXCEPT !.out = f.out \o SubSeq(f.outq, 1, n),
                               !.outq = SubSeq(f.outq, n + 1, Len(f.outq))]
      BY <1>2, <1>5 DEF Types
    <3> QED
      BY <2>1, <2>2, <2>4, <2>5, <3>1, Zenon
  <2>8. file'[s].out = o \o a /\ file'[s].outq = b /\ file'[s].st = f.st
    BY <2>7 DEF FileState
  <2>9. (o \o a) \o b = o \o w
    <3>1. (o \o a) \o b = o \o (a \o b)
      BY Regrouped, SMTT(30)
    <3> QED
      BY <2>6, <3>1, Zenon
  <2>10. file'[s].out \o file'[s].outq = file[s].out \o file[s].outq
    BY <1>2, <2>1, <2>2, <2>8, <2>9, Zenon
  <2>11. Forwarded(s)'
    <3> SUFFICES ASSUME s = "cli" \/ sess'.state = "live", file'[s].st = "Ok"
                 PROVE  file'[s].out \o file'[s].outq = DataOf(got'[s])
      BY DEF Forwarded
    <3>1. (s = "cli" \/ sess.state = "live") /\ file[s].st = "Ok"
      BY <1>2, <2>8 DEF Lives
    <3>2. file[s].out \o file[s].outq = DataOf(got[s])
      BY <3>1 DEF Forwarded
    <3> QED
      BY <1>1, <2>10, <3>2, Zenon
  <2> QED
    BY <1>3, <2>11
<1> QED
  BY <1>4, <1>5 DEF ReadyWrite

(* A packet of data is written, unless the write fails or the session had  *)
(* no tty; then it dies.                                                   *)
LEMMA DeliverForward ==
    ASSUME Types, Lives, got \in [Side -> Seq(Received)], sess \in SessState,
           \A o \in Side : Forwarded(o),
           NEW s \in Side, NEW d \in Seq(Byte), DeliverData(s, d)
    PROVE  got' \in [Side -> Seq(Received)] /\ \A o \in Side : Forwarded(o)'
<1>1. PICK q \in Seq(Received) : q = got[s]
  OBVIOUS
<1>2. PICK r \in Seq(Received) :
        r = q \o [i \in DOMAIN d |-> <<"Data", d[i]>>] /\ DataOf(r) = DataOf(q) \o d
  BY DataAdds, Zenon
<1>3. got' = [got EXCEPT ![s] = r]
  <2>1. got' = [got EXCEPT ![s] = got[s] \o DataItems(d)]
    BY DEF DeliverData
  <2>2. r = got[s] \o DataItems(d)
    BY <1>1, <1>2, Zenon DEF DataItems
  <2> QED
    BY <2>1, <2>2, Zenon
<1>4. got' \in [Side -> Seq(Received)] /\ got'[s] = r /\ \A o \in Side : o # s => got'[o] = got[o]
  BY <1>3
<1>5. PICK f \in FileState : f = file[s]
  BY DEF Types
<1>6. \A o \in Side : o # s => file'[o] = file[o]
  BY DEF DeliverData, WriteFails, Types
<1>7. ASSUME NEW o \in Side, o # s PROVE Forwarded(o)'
  BY <1>4, <1>6, <1>7, SameForward DEF SameBytes
<1>8. CASE s = "srv" /\ ~ttyopen
  <2>1. sess' = Error(sess)
    BY <1>8 DEF DeliverData
  <2>2. sess'.state = "dying"
    BY <2>1, SessionDies
  <2>3. Forwarded(s)'
    BY <1>8, <2>2 DEF Forwarded
  <2> QED
    BY <1>4, <1>7, <2>3
<1>9. CASE WriteFails(s)
  <2>1. file'[s] = [f EXCEPT !.st = "Error"]
    BY <1>5, <1>9 DEF WriteFails, Types
  <2>2. file'[s].st = "Error"
    BY <2>1 DEF FileState
  <2>3. Forwarded(s)'
    BY <2>2 DEF Forwarded
  <2> QED
    BY <1>4, <1>7, <2>3
<1>10. ASSUME NEW n \in 0 .. Len(d), file' = [file EXCEPT ![s] = WriteData(@, d, n)]
       PROVE  Forwarded(s)'
  <2>1. PICK g : g = WriteData(f, d, n)
    OBVIOUS
  <2>2. g.st = f.st /\ g.out \o g.outq = (f.out \o f.outq) \o d
    BY <2>1, WrittenData
  <2>3. file'[s] = g
    BY <1>5, <1>10, <2>1 DEF Types
  <2> SUFFICES ASSUME s = "cli" \/ sess'.state = "live", file'[s].st = "Ok"
               PROVE  file'[s].out \o file'[s].outq = DataOf(got'[s])
    BY DEF Forwarded
  <2>4. (s = "cli" \/ sess.state = "live") /\ file[s].st = "Ok"
    BY <1>5, <2>2, <2>3 DEF Lives
  <2>5. f.out \o f.outq = DataOf(q)
    BY <1>1, <1>5, <2>4 DEF Forwarded
  <2> QED
    BY <1>2, <1>4, <2>2, <2>3, <2>5, Zenon
<1> QED
  BY <1>4, <1>7, <1>8, <1>9, <1>10 DEF DeliverData

(* A control message adds no data. *)
LEMMA ControlForward ==
    ASSUME Types, Lives, got \in [Side -> Seq(Received)], \A o \in Side : Forwarded(o),
           NEW s \in Side, GotControl(s)
    PROVE  got' \in [Side -> Seq(Received)] /\ \A o \in Side : Forwarded(o)'
<1> DEFINE t == rx[s].cbuf \o SubSeq(rx[s].rbuf, 1, Wanted(rx[s]))
<1>1. PICK m \in Seq(Byte) : m = t
  <2>1. PICK w \in 0 .. Len(rx[s].rbuf) : w = Wanted(rx[s])
    BY WantedRange
  <2>2. rx[s].rbuf \in Seq(Byte) /\ rx[s].cbuf \in Seq(Byte)
    BY RxFacts
  <2>3. SubSeq(rx[s].rbuf, 1, w) \in Seq(Byte)
    BY <2>2, Cut
  <2>4. rx[s].cbuf \o SubSeq(rx[s].rbuf, 1, w) \in Seq(Byte)
    BY <2>2, <2>3, ConcatProperties
  <2> QED
    BY <2>1, <2>4, Zenon
<1>2. /\ got' = [got EXCEPT ![s] = Append(@, <<"Control", m>>)]
      /\ IF s = "srv" THEN SrvControl(m) ELSE CliControl(m)
  BY <1>1 DEF GotControl
<1> HIDE DEF t
<1>3. PICK q \in Seq(Received) : q = got[s]
  OBVIOUS
<1>4. PICK r \in Seq(Received) : r = Append(q, <<"Control", m>>) /\ DataOf(r) = DataOf(q)
  BY ControlAdds, Zenon
<1>5. got' = [got EXCEPT ![s] = r]
  BY <1>2, <1>3, <1>4
<1>6. got' \in [Side -> Seq(Received)] /\ got'[s] = r /\ \A o \in Side : o # s => got'[o] = got[o]
  BY <1>5
<1>7. \A o \in Side : SameBytes(o)
  <2>1. file' = file \/ file' = [file EXCEPT !["srv"] = OpenFile(@)]
    <3>1. CASE s # "srv"
      BY <1>2, <3>1 DEF CliControl
    <3>2. CASE s = "srv"
      <4>1. OpenPty \/ Run \/ file' = file
        BY <1>2, <3>2 DEF SrvControl
      <4> QED
        BY <4>1 DEF OpenPty, Run
    <3> QED
      BY <3>1, <3>2
  <2>2. CASE file' = [file EXCEPT !["srv"] = OpenFile(@)]
    <3>1. file' = [file EXCEPT !["srv"] = OpenFile(file["srv"])] /\ "srv" \in Side
      BY <2>2 DEF Side
    <3> QED
      BY <3>1, FileOpensOrCloses
  <2> QED
    BY <2>1, <2>2, FileKept
<1>8. \A o \in Side : DataOf(got'[o]) = DataOf(got[o])
  BY <1>3, <1>4, <1>6
<1> QED
  BY <1>6, <1>7, <1>8, SameForward

LEMMA ForwardInit ==
    ASSUME Init
    PROVE  ForwardInv
<1>1. BacklogInv
  BY BacklogInit
<1>2. <<>> \in Seq(Received) /\ <<>> \in Seq(Byte) /\ Len(<<>>) = 0
  OBVIOUS
<1>3. DataOf(<<>>) = <<>>
  <2>1. PICK f : Collects(f, <<>>) /\ DataOf(<<>>) = f[Len(<<>>)]
    BY <1>2, DataCollected, Zenon
  <2> QED
    BY <1>2, <2>1 DEF Collects
<1>4. got \in [Side -> Seq(Received)]
  BY <1>2 DEF Init
<1>5. sess \in SessState
  BY DEF Init, NewSession, SessState
<1>6. ASSUME NEW s \in Side PROVE Forwarded(s)
  <2>1. file[s].out = <<>> /\ file[s].outq = <<>> /\ got[s] = <<>>
    BY DEF Init
  <2>2. <<>> \o <<>> = <<>>
    BY <1>2, ConcatEmptySeq
  <2>3. file[s].out \o file[s].outq = DataOf(got[s])
    BY <1>3, <2>1, <2>2, Zenon
  <2> QED
    BY <2>3 DEF Forwarded
<1> QED
  BY <1>1, <1>4, <1>5, <1>6 DEF ForwardInv

LEMMA ForwardStep ==
    ASSUME ForwardInv, [Next]_vars
    PROVE  ForwardInv'
<1>1. /\ Types /\ got \in [Side -> Seq(Received)] /\ sess \in SessState
      /\ \A o \in Side : Forwarded(o)
  BY DEF ForwardInv, BacklogInv
<1>2. BacklogInv' /\ Lives
  BY <1>1, BacklogStep, SessionStep DEF ForwardInv
<1>3. SUFFICES got' \in [Side -> Seq(Received)] /\ \A o \in Side : Forwarded(o)'
  BY <1>2 DEF ForwardInv, Lives
<1>4. "cli" \in Side /\ "srv" \in Side
  BY DEF Side
<1>5. ASSUME got' = got, \A o \in Side : SameBytes(o)
      PROVE  got' \in [Side -> Seq(Received)] /\ \A o \in Side : Forwarded(o)'
  BY <1>1, <1>2, <1>5, SameForward
<1>6. CASE got' = got /\ file' = file
  BY <1>5, <1>6, FileKept
<1>7. CASE Start
  <2>1. got' = got /\ file' = [file EXCEPT !["cli"] = OpenFile(file["cli"])]
    BY <1>7 DEF Start
  <2> QED
    BY <1>1, <1>4, <1>5, <2>1, FileOpensOrCloses
<1>8. ASSUME got' = got, file' = [file EXCEPT !["srv"] = CloseFile(@)]
      PROVE  got' \in [Side -> Seq(Received)] /\ \A o \in Side : Forwarded(o)'
  <2>1. file' = [file EXCEPT !["srv"] = CloseFile(file["srv"])]
    BY <1>8
  <2> QED
    BY <1>1, <1>4, <1>5, <1>8, <2>1, FileOpensOrCloses
<1>9. CASE Deleted
  BY <1>8, <1>9 DEF Deleted
<1>10. CASE ChildExit \/ ChildDone
  BY <1>6, <1>10 DEF ChildExit, ChildDone
<1>11. ASSUME NEW n \in 1 .. ReadMax, CliInput(n) \/ ChildOutput(n)
       PROVE  got' \in [Side -> Seq(Received)] /\ \A o \in Side : Forwarded(o)'
  BY <1>6, <1>8, <1>11 DEF CliInput, ChildOutput
<1>12. ASSUME NEW s \in Side, GotData(s)
       PROVE  got' \in [Side -> Seq(Received)] /\ \A o \in Side : Forwarded(o)'
  <2>1. DeliverData(s, Plain(rx[s].rbuf))
    BY <1>12 DEF GotData, Plain
  <2>2. Plain(rx[s].rbuf) \in Seq(Byte)
    <3>1. Plain(rx[s].rbuf) \in Seq(Char)
      BY <1>1, RxFacts, PlainPrefix
    <3> QED
      BY <3>1, SeqMonotonic DEF Char
  <2> QED
    BY <1>1, <1>2, <2>1, <2>2, DeliverForward
<1>13. ASSUME NEW s \in Side, GotLength(s)
       PROVE  got' \in [Side -> Seq(Received)] /\ \A o \in Side : Forwarded(o)'
  <2>1. DeliverData(s, <<ControlMarker>>) \/ (got' = got /\ file' = file)
    BY <1>13 DEF GotLength
  <2>2. <<ControlMarker>> \in Seq(Byte)
    BY Constants
  <2>3. CASE DeliverData(s, <<ControlMarker>>)
    BY <1>1, <1>2, <2>2, <2>3, DeliverForward
  <2> QED
    BY <1>6, <2>1, <2>3
<1>14. ASSUME NEW s \in Side, GotControl(s)
       PROVE  got' \in [Side -> Seq(Received)] /\ \A o \in Side : Forwarded(o)'
  BY <1>1, <1>2, <1>14, ControlForward
<1>15. ASSUME NEW s \in Side, ReadyWrite(s)
       PROVE  got' \in [Side -> Seq(Received)] /\ \A o \in Side : Forwarded(o)'
  <2>1. got' = got
    BY <1>15 DEF ReadyWrite
  <2> QED
    BY <1>1, <1>2, <1>15, <2>1, WriteForward
<1>16. ASSUME NEW s \in Side,
              ReadyRead(s) \/ LoopTop(s) \/ Fill(s) \/ NothingYet(s) \/ GotMarker(s) \/ GotPart(s)
       PROVE  got' \in [Side -> Seq(Received)] /\ \A o \in Side : Forwarded(o)'
  BY <1>6, <1>16 DEF ReadyRead, LoopTop, Fill, NothingYet, GotMarker, GotPart
<1>17. CASE UNCHANGED vars
  BY <1>6, <1>17 DEF vars
<1> QED
  BY <1>7, <1>9, <1>10, <1>11, <1>12, <1>13, <1>14, <1>15, <1>16, <1>17 DEF Next

(* While the session lives and the file has not failed, what AsyncFile     *)
(* wrote and what it queues are the data received, none lost, repeated or  *)
(* overtaken, whatever part of each write the kernel takes (writeData,     *)
(* readyWrite, inReady and outReady).                                      *)
THEOREM OutputForwarded == Spec => []BytesForwarded
<1>1. ForwardInv => BytesForwarded
  BY DEF ForwardInv, Forwarded, BytesForwarded
<1> QED
  BY <1>1, ForwardInit, ForwardStep, PTL DEF Spec


-----------------------------------------------------------------------------
(* Framing.  The bytes b encode a sequence of items if they are the frames *)
(* of the items one after the other; frame i ends after byte o[i].  The    *)
(* escapes that sendData() writes after a marker count as its frame.       *)
Item == ({"Data"} \X Byte) \cup ({"Control"} \X Msg)

Frame(it) ==
    IF it = Marker THEN EscapedMarker
    ELSE IF it[1] = "Data" THEN <<it[2]>> ELSE ControlBytes(it[2])

Encodes(b, items, o) ==
    /\ o \in [0 .. Len(items) -> 0 .. Len(b)] /\ o[0] = 0 /\ o[Len(items)] = Len(b)
    /\ \A i \in 1 .. Len(items) :
          /\ o[i] = o[i - 1] + Len(Frame(items[i]))
          /\ \A k \in 1 .. Len(Frame(items[i])) : b[o[i - 1] + k] = Frame(items[i])[k]

LEMMA SameRange ==
    ASSUME NEW m \in Nat, NEW n \in Nat, 1 .. m = 1 .. n
    PROVE  m = n
<1>1. ASSUME NEW i \in Nat, NEW j \in Nat, i < j PROVE 1 .. i # 1 .. j
  <2>1. j \in 1 .. j /\ j \notin 1 .. i
    BY <1>1
  <2> QED
    BY <2>1
<1> QED
  BY <1>1

LEMMA FrameFacts ==
    ASSUME NEW it \in Item
    PROVE  /\ Frame(it) \in Seq(Byte) /\ Len(Frame(it)) \in Nat /\ Len(Frame(it)) >= 1
           /\ it[1] \in {"Data", "Control"}
           /\ it = Marker => /\ it[1] = "Data" /\ Frame(it)[1] = ControlMarker
                             /\ Len(Frame(it)) >= 2 /\ Frame(it)[2] = Radix
           /\ it[1] = "Data" /\ it # Marker =>
                 /\ Len(Frame(it)) = 1 /\ Frame(it)[1] = it[2] /\ it[2] \in Char
                 /\ it = <<"Data", it[2]>>
           /\ it[1] = "Control" => /\ Frame(it)[1] = ControlMarker /\ it[2] \in Msg
                                   /\ Frame(it) = ControlBytes(it[2]) /\ it = <<"Control", it[2]>>
                                   /\ it # Marker
<1>0. CASE it = Marker
  <2>1. it[1] = "Data" /\ Frame(it) = EscapedMarker
    BY <1>0 DEF Marker, Frame
  <2> QED
    BY <1>0, <2>1, EscapedType
<1>1. CASE it \in {"Data"} \X Byte /\ it # Marker
  <2>1. it[1] = "Data" /\ it[2] \in Byte /\ it = <<"Data", it[2]>>
    BY <1>1
  <2>2. Frame(it) = <<it[2]>>
    BY <1>1, <2>1 DEF Frame
  <2>3. it[2] \in Char
    BY <1>1, <2>1 DEF Char, Marker
  <2>4. Frame(it) \in Seq(Byte) /\ Len(Frame(it)) = 1 /\ Frame(it)[1] = it[2]
    BY <2>1, <2>2
  <2> QED
    BY <1>1, <2>1, <2>3, <2>4
<1>2. CASE it \in {"Control"} \X Msg
  <2>1. it[1] = "Control" /\ it[2] \in Msg /\ it = <<"Control", it[2]>>
    BY <1>2
  <2>0. it # Marker
    BY <2>1 DEF Marker
  <2>2. Frame(it) = ControlBytes(it[2])
    BY <2>0, <2>1 DEF Frame
  <2> DEFINE m == it[2]
  <2>3. m \in Msg
    BY <2>1
  <2> HIDE DEF m
  <2>4. /\ ControlBytes(m) \in Seq(Byte) /\ ControlBytes(m)[1] = ControlMarker
        /\ Len(ControlBytes(m)) = 1 + Digits(Len(m)) + Len(m)
    BY <2>3, ControlFrame
  <2>5. Len(m) \in Nat /\ Digits(Len(m)) \in {1, 2}
    BY <2>3, Constants DEF Digits
  <2>6. Len(ControlBytes(m)) \in Nat /\ Len(ControlBytes(m)) >= 1
    BY <2>4, <2>5
  <2> QED
    BY <2>0, <2>1, <2>2, <2>4, <2>6 DEF m
<1> QED
  BY <1>0, <1>1, <1>2 DEF Item

(* Two encodings one after the other encode both. *)
LEMMA EncodesBoth ==
    ASSUME NEW b \in Seq(Byte), NEW items \in Seq(Item), NEW o, Encodes(b, items, o),
           NEW d \in Seq(Byte), NEW more \in Seq(Item), NEW p, Encodes(d, more, p)
    PROVE  \E q : /\ Encodes(b \o d, items \o more, q)
                  /\ \A i \in 0 .. Len(items) : q[i] = o[i]
<1> DEFINE L == Len(items)
           K == Len(more)
           B == Len(b)
           D == Len(d)
           q == [i \in 0 .. L + K |-> IF i <= L THEN o[i] ELSE B + p[i - L]]
<1>1. L \in Nat /\ K \in Nat /\ B \in Nat /\ D \in Nat
  BY LenProperties
<1>2. /\ b \o d \in Seq(Byte) /\ Len(b \o d) = B + D
      /\ \A i \in 1 .. B : (b \o d)[i] = b[i]
      /\ \A i \in 1 .. D : (b \o d)[B + i] = d[i]
  <2>1. /\ b \o d \in Seq(Byte) /\ Len(b \o d) = B + D
        /\ \A i \in 1 .. B + D : (b \o d)[i] = IF i <= B THEN b[i] ELSE d[i - B]
    BY ConcatProperties
  <2> HIDE DEF B, D
  <2> QED
    BY <1>1, <2>1, SMTT(30)
<1>3. /\ items \o more \in Seq(Item) /\ Len(items \o more) = L + K
      /\ \A i \in 1 .. L : (items \o more)[i] = items[i]
      /\ \A i \in 1 .. K : (items \o more)[L + i] = more[i]
  <2>1. /\ items \o more \in Seq(Item) /\ Len(items \o more) = L + K
        /\ \A i \in 1 .. L + K : (items \o more)[i] = IF i <= L THEN items[i] ELSE more[i - L]
    BY ConcatProperties
  <2> HIDE DEF L, K
  <2> QED
    BY <1>1, <2>1, SMTT(30)
<1>4. /\ o \in [0 .. L -> 0 .. B] /\ o[0] = 0 /\ o[L] = B
      /\ p \in [0 .. K -> 0 .. D] /\ p[0] = 0 /\ p[K] = D
  BY DEF Encodes
<1>5. \A i \in 1 .. L : /\ o[i] = o[i - 1] + Len(Frame(items[i]))
                        /\ \A k \in 1 .. Len(Frame(items[i])) :
                              b[o[i - 1] + k] = Frame(items[i])[k]
  BY DEF Encodes
<1>6. \A i \in 1 .. K : /\ p[i] = p[i - 1] + Len(Frame(more[i]))
                        /\ \A k \in 1 .. Len(Frame(more[i])) :
                              d[p[i - 1] + k] = Frame(more[i])[k]
  BY DEF Encodes
<1>7. \A i \in 1 .. L : Len(Frame(items[i])) \in Nat
  BY FrameFacts, ElementOfSeq
<1>8. \A i \in 1 .. K : Len(Frame(more[i])) \in Nat
  BY FrameFacts, ElementOfSeq
<1> HIDE DEF L, K, B, D
<1>9. /\ \A i \in 0 .. L : q[i] = o[i]
      /\ \A i \in 0 .. K : q[L + i] = B + p[i]
  <2>1. \A i \in 0 .. L : q[i] = o[i]
    BY <1>1
  <2>2. ASSUME NEW i \in 0 .. K PROVE q[L + i] = B + p[i]
    <3>1. CASE i = 0
      BY <1>1, <1>4, <2>1, <3>1
    <3>2. CASE i # 0
      <4>1. L + i \in 0 .. L + K /\ ~(L + i <= L) /\ (L + i) - L = i
        BY <1>1, <3>2
      <4> QED
        BY <4>1
    <3> QED
      BY <3>1, <3>2
  <2> QED
    BY <2>1, <2>2
<1>10. q \in [0 .. L + K -> 0 .. B + D]
  <2> SUFFICES ASSUME NEW i \in 0 .. L + K PROVE q[i] \in 0 .. B + D
    OBVIOUS
  <2>1. CASE i <= L
    <3>1. i \in 0 .. L
      BY <1>1, <2>1
    <3>2. q[i] \in 0 .. B
      BY <1>4, <1>9, <3>1
    <3> QED
      BY <1>1, <3>2
  <2>2. CASE ~(i <= L)
    <3>1. PICK j \in 0 .. K : i = L + j
      <4>1. i - L \in 0 .. K /\ i = L + (i - L)
        BY <1>1, <2>2
      <4> QED
        BY <4>1
    <3>2. q[i] = B + p[j] /\ p[j] \in 0 .. D
      BY <1>4, <1>9, <3>1
    <3> QED
      BY <1>1, <3>2, SMTT(30)
  <2> QED
    BY <2>1, <2>2
<1>11. q[0] = 0 /\ q[L + K] = B + D
  <2>1. 0 \in 0 .. L /\ K \in 0 .. K
    BY <1>1
  <2> QED
    BY <1>4, <1>9, <2>1
<1> HIDE DEF q
<1>12. ASSUME NEW i \in 1 .. L + K
       PROVE  LET f == Frame((items \o more)[i])
              IN  /\ q[i] = q[i - 1] + Len(f)
                  /\ \A k \in 1 .. Len(f) : (b \o d)[q[i - 1] + k] = f[k]
  <2>1. CASE i <= L
    <3>1. i \in 1 .. L /\ i \in 0 .. L /\ i - 1 \in 0 .. L
      BY <1>1, <2>1
    <3> DEFINE f == Frame(items[i])
    <3>2. (items \o more)[i] = items[i] /\ q[i] = o[i] /\ q[i - 1] = o[i - 1]
      BY <1>3, <1>9, <3>1
    <3>3. o[i] = o[i - 1] + Len(f) /\ Len(f) \in Nat /\ o[i] \in 0 .. B /\ o[i - 1] \in 0 .. B
      BY <1>4, <1>5, <1>7, <3>1
    <3>4. \A k \in 1 .. Len(f) : b[o[i - 1] + k] = f[k]
      BY <1>5, <3>1
    <3> HIDE DEF f
    <3>5. \A k \in 1 .. Len(f) : o[i - 1] + k \in 1 .. B
      BY <1>1, <3>3, SMTT(30)
    <3>6. \A k \in 1 .. Len(f) : (b \o d)[o[i - 1] + k] = f[k]
      BY <1>2, <3>4, <3>5
    <3> QED
      BY <3>2, <3>3, <3>6 DEF f
  <2>2. CASE ~(i <= L)
    <3>1. PICK j \in 1 .. K : i = L + j
      <4>1. i - L \in 1 .. K /\ i = L + (i - L)
        BY <1>1, <2>2
      <4> QED
        BY <4>1
    <3>2. j \in 0 .. K /\ j - 1 \in 0 .. K /\ i - 1 = L + (j - 1)
      BY <1>1, <3>1
    <3> DEFINE f == Frame(more[j])
    <3>3. (items \o more)[i] = more[j] /\ q[i] = B + p[j] /\ q[i - 1] = B + p[j - 1]
      BY <1>3, <1>9, <3>1, <3>2
    <3>4. p[j] = p[j - 1] + Len(f) /\ Len(f) \in Nat /\ p[j] \in 0 .. D /\ p[j - 1] \in 0 .. D
      BY <1>4, <1>6, <1>8, <3>2
    <3>5. \A k \in 1 .. Len(f) : d[p[j - 1] + k] = f[k]
      BY <1>6, <3>2
    <3> HIDE DEF f
    <3>6. ASSUME NEW k \in 1 .. Len(f) PROVE (b \o d)[q[i - 1] + k] = f[k]
      <4> DEFINE x == p[j - 1]
                 z == Len(f)
      <4>1. x \in 0 .. D /\ z \in Nat /\ x + z \in 0 .. D /\ k \in 1 .. z /\ q[i - 1] = B + x
        BY <3>3, <3>4
      <4> HIDE DEF x, z
      <4>2. x + k \in 1 .. D /\ q[i - 1] + k = B + (x + k)
        BY <1>1, <4>1
      <4>3. d[x + k] = f[k]
        BY <3>5 DEF x
      <4> QED
        BY <1>2, <4>2, <4>3
    <3>7. q[i] = q[i - 1] + Len(f)
      BY <1>1, <3>3, <3>4
    <3> QED
      BY <3>3, <3>6, <3>7 DEF f
  <2> QED
    BY <2>1, <2>2
<1>13. Encodes(b \o d, items \o more, q)
  BY <1>2, <1>3, <1>10, <1>11, <1>12 DEF Encodes
<1> QED
  BY <1>9, <1>13 DEF L


LEMMA EncodesOne ==
    ASSUME NEW it \in Item
    PROVE  <<it>> \in Seq(Item) /\ \E o : Encodes(Frame(it), <<it>>, o)
<1> DEFINE f == Frame(it)
           o == [i \in 0 .. 1 |-> IF i = 0 THEN 0 ELSE Len(f)]
<1>1. f \in Seq(Byte) /\ Len(f) \in Nat
  BY FrameFacts
<1>2. <<it>> \in Seq(Item) /\ Len(<<it>>) = 1 /\ <<it>>[1] = it
  OBVIOUS
<1> HIDE DEF f
<1>3. o \in [0 .. 1 -> 0 .. Len(f)] /\ o[0] = 0 /\ o[1] = Len(f)
  BY <1>1
<1> HIDE DEF o
<1>4. ASSUME NEW i \in 1 .. 1
      PROVE  /\ o[i] = o[i - 1] + Len(Frame(<<it>>[i]))
             /\ \A k \in 1 .. Len(Frame(<<it>>[i])) : f[o[i - 1] + k] = Frame(<<it>>[i])[k]
  <2>1. i = 1 /\ i - 1 = 0 /\ <<it>>[i] = it
    BY <1>2
  <2>2. o[i] = Len(f) /\ o[i - 1] = 0 /\ Frame(<<it>>[i]) = f
    BY <1>3, <2>1 DEF f
  <2> QED
    BY <1>1, <2>2
<1>5. Encodes(f, <<it>>, o)
  BY <1>2, <1>3, <1>4 DEF Encodes
<1> QED
  BY <1>2, <1>5 DEF f

LEMMA EncodesControl ==
    ASSUME NEW m \in Msg
    PROVE  /\ << <<"Control", m>> >> \in Seq(Item) /\ ControlBytes(m) \in Seq(Byte)
           /\ \E o : Encodes(ControlBytes(m), << <<"Control", m>> >>, o)
<1> DEFINE it == <<"Control", m>>
<1>1. it \in Item /\ Frame(it) = ControlBytes(m)
  BY DEF Item, Frame, Marker
<1>2. ControlBytes(m) \in Seq(Byte)
  BY ControlFrame
<1> HIDE DEF it
<1>3. <<it>> \in Seq(Item) /\ \E o : Encodes(ControlBytes(m), <<it>>, o)
  BY <1>1, EncodesOne
<1> QED
  BY <1>2, <1>3 DEF it

LEMMA EncodesMarker ==
    /\ <<Marker>> \in Seq(Item) /\ EscapedMarker \in Seq(Byte)
    /\ \E o : Encodes(EscapedMarker, <<Marker>>, o)
<1>1. Marker \in Item /\ Frame(Marker) = EscapedMarker
  BY Constants DEF Item, Frame, Marker
<1>2. EscapedMarker \in Seq(Byte)
  BY EscapedType
<1> QED
  BY <1>1, <1>2, EncodesOne

LEMMA EncodesData ==
    ASSUME NEW d \in Seq(Char)
    PROVE  /\ DataItems(d) \in Seq(Item) /\ d \in Seq(Byte)
           /\ Len(DataItems(d)) = Len(d)
           /\ \E o : Encodes(d, DataItems(d), o)
<1> DEFINE items == [i \in DOMAIN d |-> <<"Data", d[i]>>]
           o == [i \in 0 .. Len(d) |-> i]
<1>1. Len(d) \in Nat /\ DOMAIN d = 1 .. Len(d) /\ d \in [1 .. Len(d) -> Char]
  BY LenProperties
<1>2. d \in Seq(Byte)
  BY SeqMonotonic DEF Char
<1>3. \A i \in 1 .. Len(d) : <<"Data", d[i]>> \in Item /\ Frame(<<"Data", d[i]>>) = <<d[i]>>
  BY <1>1 DEF Item, Frame, Marker, Char
<1>4. items \in [1 .. Len(d) -> Item]
  BY <1>1, <1>3
<1>5. items \in Seq(Item)
  BY <1>1, <1>4, SeqDef
<1>6. Len(items) = Len(d)
  <2>1. DOMAIN items = 1 .. Len(items) /\ Len(items) \in Nat /\ DOMAIN items = 1 .. Len(d)
    BY <1>1, <1>5, LenProperties
  <2> HIDE DEF items
  <2> QED
    BY <1>1, <2>1, SameRange
<1>7. o \in [0 .. Len(d) -> 0 .. Len(d)] /\ \A i \in 0 .. Len(d) : o[i] = i
  OBVIOUS
<1>8. \A i \in 1 .. Len(d) : Frame(items[i]) = <<d[i]>>
  BY <1>1, <1>3
<1> HIDE DEF items, o
<1>9. ASSUME NEW i \in 1 .. Len(d)
      PROVE  /\ o[i] = o[i - 1] + Len(Frame(items[i]))
             /\ \A k \in 1 .. Len(Frame(items[i])) : d[o[i - 1] + k] = Frame(items[i])[k]
  <2>1. o[i] = i /\ o[i - 1] = i - 1 /\ (i - 1) + 1 = i
    BY <1>1, <1>7
  <2>2. Len(<<d[i]>>) = 1 /\ <<d[i]>>[1] = d[i]
    OBVIOUS
  <2>3. \A k \in 1 .. 1 : k = 1
    OBVIOUS
  <2> QED
    BY <1>8, <2>1, <2>2, <2>3
<1>10. 0 \in 0 .. Len(d) /\ Len(d) \in 0 .. Len(d)
  BY <1>1
<1>11. Encodes(d, items, o)
  BY <1>6, <1>7, <1>9, <1>10 DEF Encodes
<1> QED
  BY <1>2, <1>5, <1>6, <1>11 DEF items, DataItems

(* Where a side is in the bytes b sent to it: the buffer and the wire hold *)
(* what follows the bytes it consumed, and it consumed the frames of the   *)
(* items received and, within a control message or after a marker, as much *)
(* of the next frame as its receive state tells.                           *)
Consumed(s, b) == Len(b) - Len(rx[s].rbuf) - Len(wire[s])

Begun(s) == Len(got[s]) < Len(sent[s]) /\ sent[s][Len(got[s]) + 1][1] = "Control"
Message(s) == sent[s][Len(got[s]) + 1][2]
Escaping(s) == Len(got[s]) < Len(sent[s]) /\ sent[s][Len(got[s]) + 1] = Marker

(* The digits of a length, or the first escape of a marker, are awaited. *)
InLength(s, r, c, start) ==
    /\ Begun(s)
    /\ \/ r.clen = 0 /\ c = start + 1
       \/ /\ Len(Message(s)) >= Radix /\ r.clen = Len(Message(s)) \div Radix
          /\ c = start + 2

InEscape(s, r, c, start) == Escaping(s) /\ r.clen = 0 /\ c = start + 1

Ahead(s, b) ==
    LET r == rx[s]
        c == Consumed(s, b)
    IN  /\ c >= 0
        /\ \A k \in 1 .. Len(r.rbuf) : r.rbuf[k] = b[c + k]
        /\ \A k \in 1 .. Len(wire[s]) : wire[s][k] = b[c + Len(r.rbuf) + k]

Within(s, c, start) ==
    LET r == rx[s]
    IN  /\ r.rstate = "Normal" => c = start
        /\ r.rstate = "Length" => InLength(s, r, c, start) \/ InEscape(s, r, c, start)
        /\ r.rstate = "Message" =>
              /\ Begun(s) /\ r.clen = Len(Message(s)) /\ Len(r.cbuf) < r.clen
              /\ c = start + 1 + Digits(r.clen) + Len(r.cbuf)
              /\ \A k \in 1 .. Len(r.cbuf) : r.cbuf[k] = Message(s)[k]

Placed(s, b, o) == Ahead(s, b) /\ Within(s, Consumed(s, b), o[Len(got[s])])

Framed(s) ==
    /\ sent[s] \in Seq(Item) /\ got[s] \in Seq(Item)
    /\ Len(got[s]) <= Len(sent[s])
    /\ \A i \in 1 .. Len(got[s]) : got[s][i] = sent[s][i]
    /\ \E b \in Seq(Byte) : \E o : Encodes(b, sent[s], o) /\ Placed(s, b, o)

Histories == sent \in [Side -> Seq(Item)] /\ got \in [Side -> Seq(Received)]

(* The side has received all that was sent, the marker at its end too, and *)
(* anything after it.                                                      *)
Beyond(s) ==
    /\ MarkerSent(s) /\ Len(sent[s]) <= Len(got[s])
    /\ \A i \in 1 .. Len(sent[s]) : got[s][i] = sent[s][i]

Line(s) == Framed(s) \/ Beyond(s)

(* A marker among the data is the last thing a side ever sends.            *)
Marked(s) ==
    \A i \in 1 .. Len(sent[s]) :
        sent[s][i] = Marker => i = Len(sent[s]) /\ slot[Other(s)] = "escape"

NotStarted == cli = "new" => slot["cli"] = "idle"

FramesInv ==
    /\ ForwardInv /\ Histories /\ NotStarted
    /\ \A s \in Side : Line(s) /\ Marked(s)

(* Nothing happens at side s. *)
LEMMA SameFrames ==
    ASSUME NEW s \in Side, Framed(s),
           rx'[s] = rx[s], wire'[s] = wire[s], sent'[s] = sent[s], got'[s] = got[s]
    PROVE  Framed(s)'
<1>1. PICK b \in Seq(Byte) : \E o : Encodes(b, sent[s], o) /\ Placed(s, b, o)
  BY DEF Framed
<1>2. PICK o : Encodes(b, sent[s], o) /\ Placed(s, b, o)
  BY <1>1
<1>3. /\ Consumed(s, b)' = Consumed(s, b) /\ Message(s)' = Message(s)
      /\ (Begun(s)' <=> Begun(s)) /\ (Escaping(s)' <=> Escaping(s))
  BY DEF Consumed, Message, Begun, Escaping
<1>4. Placed(s, b, o)'
  <2>1. Ahead(s, b)'
    BY <1>2, <1>3 DEF Placed, Ahead
  <2>2. Within(s, Consumed(s, b), o[Len(got[s])])'
    BY <1>2, <1>3 DEF Placed, Within, InLength, InEscape
  <2> QED
    BY <2>1, <2>2 DEF Placed
<1> QED
  BY <1>2, <1>4 DEF Framed


(* Items are sent to side t. *)
LEMMA SendsFrames ==
    ASSUME Types, NEW t \in Side, Framed(t), NEW d \in Seq(Byte), NEW more \in Seq(Item), NEW p,
           Encodes(d, more, p), wire'[t] = wire[t] \o d, sent'[t] = sent[t] \o more,
           rx'[t] = rx[t], got'[t] = got[t]
    PROVE  Framed(t)'
<1>1. PICK b \in Seq(Byte) : \E o : Encodes(b, sent[t], o) /\ Placed(t, b, o)
  BY DEF Framed
<1>2. PICK o : Encodes(b, sent[t], o) /\ Placed(t, b, o)
  BY <1>1
<1>3. PICK q : /\ Encodes(b \o d, sent[t] \o more, q)
               /\ \A i \in 0 .. Len(sent[t]) : q[i] = o[i]
  BY <1>2, EncodesBoth DEF Framed
<1> DEFINE B == Len(b)
           D == Len(d)
           R == Len(rx[t].rbuf)
           W == Len(wire[t])
           S == Len(sent[t])
           G == Len(got[t])
           c == Consumed(t, b)
<1>4. /\ B \in Nat /\ D \in Nat /\ R \in Nat /\ W \in Nat /\ S \in Nat /\ G \in Nat /\ G <= S
      /\ wire[t] \in Seq(Byte)
  BY RxFacts, LenProperties DEF Framed
<1>5. /\ b \o d \in Seq(Byte) /\ Len(b \o d) = B + D
      /\ \A i \in 1 .. B + D : (b \o d)[i] = IF i <= B THEN b[i] ELSE d[i - B]
  BY ConcatProperties
<1>6. /\ Len(wire[t] \o d) = W + D
      /\ \A i \in 1 .. W + D : (wire[t] \o d)[i] = IF i <= W THEN wire[t][i] ELSE d[i - W]
  BY <1>4, ConcatProperties
<1>7. /\ sent[t] \o more \in Seq(Item) /\ Len(sent[t] \o more) = S + Len(more) /\ Len(more) \in Nat
      /\ \A i \in 1 .. S + Len(more) : (sent[t] \o more)[i] = IF i <= S THEN sent[t][i] ELSE more[i - S]
  BY ConcatProperties, LenProperties DEF Framed
<1>8. c = B - R - W /\ c >= 0
  BY <1>2 DEF Placed, Ahead, Consumed
<1>9. Consumed(t, b \o d)' = c
  <2>1. Consumed(t, b \o d)' = (B + D) - R - (W + D)
    BY <1>5, <1>6 DEF Consumed
  <2> HIDE DEF B, D, R, W, c
  <2> QED
    BY <1>4, <1>8, <2>1
<1>10. Ahead(t, b \o d)'
  <2>1. \A k \in 1 .. R : rx[t].rbuf[k] = b[c + k]
    BY <1>2 DEF Placed, Ahead
  <2>2. \A k \in 1 .. W : wire[t][k] = b[c + R + k]
    BY <1>2 DEF Placed, Ahead
  <2>3. \A k \in 1 .. R : rx[t].rbuf[k] = (b \o d)[c + k]
    <3> HIDE DEF B, D, R, W, c
    <3>1. \A k \in 1 .. R : c + k \in 1 .. B + D /\ c + k <= B
      BY <1>4, <1>8, SMTT(30)
    <3> QED
      BY <1>5, <2>1, <3>1
  <2>4. ASSUME NEW k \in 1 .. W + D PROVE (wire[t] \o d)[k] = (b \o d)[c + R + k]
    <3> HIDE DEF B, D, R, W, c
    <3>1. CASE k <= W
      <4>1. k \in 1 .. W /\ c + R + k \in 1 .. B + D /\ c + R + k <= B
        BY <1>4, <1>8, <3>1, SMTT(30)
      <4> QED
        BY <1>5, <1>6, <2>2, <4>1
    <3>2. CASE ~(k <= W)
      <4>1. c + R = B - W
        BY <1>4, <1>8
      <4>2. PICK j \in 1 .. D : k = W + j
        <5>0. W \in Nat /\ D \in Nat
          BY <1>4
        <5>1. k - W \in 1 .. D /\ k = W + (k - W)
          BY <3>2, <5>0
        <5> QED
          BY <5>1
      <4>3. c \in Int /\ c + R + k = B + j
        BY <1>4, <1>8, <4>1, <4>2
      <4>4. B + j \in 1 .. B + D /\ ~(B + j <= B) /\ (B + j) - B = j
        BY <1>4
      <4>5. W + j \in 1 .. W + D /\ ~(W + j <= W) /\ (W + j) - W = j
        BY <1>4
      <4>6. (b \o d)[B + j] = d[j]
        BY <1>5, <4>4
      <4>7. (wire[t] \o d)[W + j] = d[j]
        BY <1>6, <4>5
      <4> QED
        BY <4>2, <4>3, <4>6, <4>7
    <3> QED
      BY <3>1, <3>2
  <2>5. Len(wire'[t]) = W + D
    BY <1>6
  <2> HIDE DEF W, D, c
  <2> QED
    BY <1>8, <1>9, <2>3, <2>4, <2>5 DEF Ahead
<1>11. ASSUME Begun(t) \/ Escaping(t)
       PROVE  /\ Begun(t) => Begun(t)' /\ Message(t)' = Message(t)
              /\ Escaping(t) => Escaping(t)'
  <2>1. G < S
    BY <1>11 DEF Begun, Escaping
  <2>2. Len(sent'[t]) = S + Len(more) /\ sent'[t][G + 1] = sent[t][G + 1]
    <3>1. Len(sent'[t]) = S + Len(more)
      BY <1>7
    <3> HIDE DEF G, S
    <3>2. G + 1 \in 1 .. S + Len(more) /\ G + 1 <= S
      BY <1>4, <1>7, <2>1, SMTT(30)
    <3> QED
      BY <3>1, <3>2, <1>7
  <2>3. G < S + Len(more)
    <3> HIDE DEF G, S
    <3> QED
      BY <1>4, <1>7, <2>1
  <2> QED
    BY <2>2, <2>3 DEF Begun, Message, Escaping
<1>12. Within(t, Consumed(t, b \o d), q[Len(got[t])])'
  <2>1. q[G] = o[G]
    BY <1>3, <1>4
  <2>2. Within(t, c, o[G])
    BY <1>2 DEF Placed
  <2>3. PICK e : e = o[G]
    OBVIOUS
  <2>4. PICK x : x = c
    OBVIOUS
  <2>5. Within(t, x, e)'
    BY <1>11, <2>2, <2>3, <2>4 DEF Within, InLength, InEscape
  <2>6. Consumed(t, b \o d)' = x /\ q[Len(got[t])]' = e
    BY <1>9, <2>1, <2>3, <2>4
  <2> QED
    BY <2>5, <2>6
<1>13. Placed(t, b \o d, q)'
  BY <1>10, <1>12 DEF Placed
<1>14. Encodes(b \o d, sent'[t], q)
  BY <1>3
<1>15. \E a \in Seq(Byte) : \E z : Encodes(a, sent'[t], z) /\ Placed(t, a, z)'
  BY <1>5, <1>13, <1>14
<1>16. /\ sent'[t] \in Seq(Item) /\ got'[t] \in Seq(Item) /\ Len(got'[t]) <= Len(sent'[t])
       /\ \A i \in 1 .. Len(got'[t]) : got'[t][i] = sent'[t][i]
  <2>1. /\ got[t] \in Seq(Item) /\ \A i \in 1 .. G : got[t][i] = sent[t][i]
    BY DEF Framed
  <2>2. \A i \in 1 .. G : i \in 1 .. S + Len(more) /\ i <= S
    <3> HIDE DEF G, S
    <3> QED
      BY <1>4, <1>7
  <2>3. G <= S + Len(more)
    <3> HIDE DEF G, S
    <3> QED
      BY <1>4, <1>7
  <2>4. \A i \in 1 .. G : sent'[t][i] = got[t][i]
    BY <1>7, <2>1, <2>2
  <2> QED
    BY <1>7, <2>1, <2>3, <2>4
<1> QED
  BY <1>15, <1>16 DEF Framed


(* A side takes n bytes of its buffer. *)
LEMMA Advances ==
    ASSUME Types, NEW s \in Side, NEW b \in Seq(Byte), Ahead(s, b),
           NEW n \in 0 .. Len(rx[s].rbuf), wire'[s] = wire[s],
           rx'[s].rbuf = SubSeq(rx[s].rbuf, n + 1, Len(rx[s].rbuf))
    PROVE  Ahead(s, b)' /\ Consumed(s, b)' = Consumed(s, b) + n
<1> DEFINE B == Len(b)
           R == Len(rx[s].rbuf)
           W == Len(wire[s])
           c == Consumed(s, b)
           q == SubSeq(rx[s].rbuf, n + 1, R)
<1>1. B \in Nat /\ R \in Nat /\ W \in Nat /\ rx[s].rbuf \in Seq(Byte)
  BY RxFacts, LenProperties
<1>2. c = B - R - W /\ c >= 0
  BY DEF Consumed, Ahead
<1>3. Len(q) = R - n /\ \A i \in 1 .. R - n : q[i] = rx[s].rbuf[n + i]
  BY <1>1, Cut
<1>4. Consumed(s, b)' = B - (R - n) - W
  BY <1>3 DEF Consumed
<1>5. /\ \A k \in 1 .. R : rx[s].rbuf[k] = b[c + k]
      /\ \A k \in 1 .. W : wire[s][k] = b[c + R + k]
  BY DEF Ahead
<1> HIDE DEF c, q, B, W, R
<1>6. c \in Int /\ n \in Nat /\ n <= R
  BY <1>1, <1>2 DEF R
<1>7. Consumed(s, b)' = c + n
  BY <1>1, <1>2, <1>4, <1>6
<1>8. \A k \in 1 .. R - n : q[k] = b[c + n + k]
  <2> TAKE k \in 1 .. R - n
  <2>1. n + k \in 1 .. R /\ c + (n + k) = c + n + k
    BY <1>1, <1>6
  <2> QED
    BY <1>3, <1>5, <2>1
<1>9. \A k \in 1 .. W : wire[s][k] = b[(c + n) + (R - n) + k]
  <2> TAKE k \in 1 .. W
  <2>1. (c + n) + (R - n) + k = c + R + k
    BY <1>1, <1>6
  <2> QED
    BY <1>5, <2>1
<1>10. c + n >= 0
  BY <1>2, <1>6
<1>11. rx'[s].rbuf = q /\ Len(rx'[s].rbuf) = R - n /\ Len(wire'[s]) = W
  BY <1>3 DEF q, R, W
<1>12. Ahead(s, b)'
  BY <1>7, <1>8, <1>9, <1>10, <1>11 DEF Ahead
<1> QED
  BY <1>7, <1>12 DEF c

(* A piece of the stream comes into the buffer. *)
LEMMA FillFrames ==
    ASSUME Types, NEW s \in Side, Framed(s), Fill(s)
    PROVE  Framed(s)'
<1>1. PICK b \in Seq(Byte) : \E o : Encodes(b, sent[s], o) /\ Placed(s, b, o)
  BY DEF Framed
<1>2. PICK o : Encodes(b, sent[s], o) /\ Placed(s, b, o)
  BY <1>1
<1>3. PICK n \in 1 .. MaxPiece :
        /\ n <= Len(wire[s])
        /\ rx' = [rx EXCEPT ![s].rbuf = SubSeq(wire[s], 1, n)]
        /\ wire' = [wire EXCEPT ![s] = SubSeq(@, n + 1, Len(@))]
  BY DEF Fill
<1> DEFINE B == Len(b)
           W == Len(wire[s])
           c == Consumed(s, b)
           q == SubSeq(wire[s], 1, n)
           v == SubSeq(wire[s], n + 1, W)
<1>4. B \in Nat /\ W \in Nat /\ wire[s] \in Seq(Byte) /\ rx[s] \in RxState /\ n \in 0 .. W
  BY <1>3, RxFacts, LenProperties, Constants
<1>5. /\ Len(q) = n /\ \A i \in 1 .. n : q[i] = wire[s][i]
      /\ Len(v) = W - n /\ \A i \in 1 .. W - n : v[i] = wire[s][n + i]
  BY <1>4, Cut
<1>6. /\ wire'[s] = v /\ rx'[s].rbuf = q /\ rx'[s].rstate = rx[s].rstate
      /\ rx'[s].clen = rx[s].clen /\ rx'[s].cbuf = rx[s].cbuf
  BY <1>3, <1>4 DEF Types, RxState
<1>7. rx[s].rbuf = <<>> /\ Len(<<>>) = 0 /\ UNCHANGED <<sent, got>>
  BY DEF Fill
<1>8. c = B - 0 - W /\ c >= 0 /\ \A k \in 1 .. W : wire[s][k] = b[c + 0 + k]
  BY <1>2, <1>7 DEF Consumed, Placed, Ahead
<1>9. Consumed(s, b)' = B - n - (W - n)
  BY <1>5, <1>6 DEF Consumed
<1>10. Within(s, Consumed(s, b), o[Len(got[s])])
  BY <1>2 DEF Placed
<1> HIDE DEF B, W, c, q, v
<1>11. Consumed(s, b)' = c /\ c \in Int /\ n \in Nat
  BY <1>4, <1>8, <1>9
<1>12. Ahead(s, b)'
  <2>1. \A k \in 1 .. n : q[k] = b[c + k]
    <3> TAKE k \in 1 .. n
    <3>1. k \in 1 .. W /\ c + 0 + k = c + k
      BY <1>4, <1>11
    <3> QED
      BY <1>5, <1>8, <3>1
  <2>2. \A k \in 1 .. W - n : v[k] = b[c + n + k]
    <3> TAKE k \in 1 .. W - n
    <3>1. n + k \in 1 .. W /\ c + 0 + (n + k) = c + n + k
      BY <1>4, <1>11
    <3> QED
      BY <1>5, <1>8, <3>1
  <2>3. Len(rx'[s].rbuf) = n /\ Len(wire'[s]) = W - n
    BY <1>5, <1>6
  <2> QED
    BY <1>6, <1>8, <1>11, <2>1, <2>2, <2>3 DEF Ahead
<1>13. Within(s, Consumed(s, b), o[Len(got[s])])'
  <2>1. PICK x : x = c
    OBVIOUS
  <2>2. Within(s, x, o[Len(got[s])])
    BY <1>10, <2>1 DEF c
  <2>3. (Begun(s)' <=> Begun(s)) /\ (Escaping(s)' <=> Escaping(s)) /\ Message(s)' = Message(s)
    BY <1>7 DEF Begun, Escaping, Message
  <2>4. Within(s, x, o[Len(got[s])])'
    BY <1>6, <1>7, <2>2, <2>3 DEF Within, InLength, InEscape
  <2> QED
    BY <1>11, <2>1, <2>4
<1>14. Placed(s, b, o)'
  BY <1>12, <1>13 DEF Placed
<1> QED
  BY <1>2, <1>7, <1>14 DEF Framed


(* The item after item i, if there are bytes left. *)
Opens(it) == it[1] = "Control" \/ it = Marker

LEMMA NextItem ==
    ASSUME NEW b \in Seq(Byte), NEW items \in Seq(Item), NEW o, Encodes(b, items, o),
           NEW i \in 0 .. Len(items), o[i] < Len(b)
    PROVE  /\ i + 1 \in 1 .. Len(items) /\ items[i + 1] \in Item /\ o[i] \in Nat
           /\ o[i + 1] = o[i] + Len(Frame(items[i + 1]))
           /\ \A k \in 1 .. Len(Frame(items[i + 1])) : b[o[i] + k] = Frame(items[i + 1])[k]
           /\ b[o[i] + 1] = Frame(items[i + 1])[1]
           /\ Opens(items[i + 1]) <=> b[o[i] + 1] = ControlMarker
<1>1. Len(items) \in Nat /\ Len(b) \in Nat
  BY LenProperties
<1>2. o[Len(items)] = Len(b) /\ o[i] \in 0 .. Len(b)
  BY DEF Encodes
<1>3. i # Len(items)
  BY <1>1, <1>2
<1>4. i + 1 \in 1 .. Len(items) /\ (i + 1) - 1 = i
  BY <1>1, <1>3
<1> DEFINE j == i + 1
           it == items[j]
<1>5. /\ o[j] = o[j - 1] + Len(Frame(it))
      /\ \A k \in 1 .. Len(Frame(it)) : b[o[j - 1] + k] = Frame(it)[k]
  BY <1>4 DEF Encodes
<1>6. it \in Item
  BY <1>4, ElementOfSeq
<1>7. j - 1 = i
  BY <1>4
<1>8. /\ o[j] = o[i] + Len(Frame(it))
      /\ \A k \in 1 .. Len(Frame(it)) : b[o[i] + k] = Frame(it)[k]
  BY <1>5, <1>7
<1> HIDE DEF it
<1>9. b[o[i] + 1] = Frame(it)[1]
  <2>1. 1 \in 1 .. Len(Frame(it))
    BY <1>6, FrameFacts
  <2> QED
    BY <1>8, <2>1
<1>10. Opens(it) <=> b[o[i] + 1] = ControlMarker
  <2>1. CASE Opens(it)
    <3>1. Frame(it)[1] = ControlMarker
      BY <1>6, <2>1, FrameFacts DEF Opens
    <3> QED
      BY <1>9, <2>1, <3>1
  <2>2. CASE ~Opens(it)
    <3>1. it[1] = "Data" /\ it # Marker
      BY <1>6, <2>2, FrameFacts DEF Opens
    <3>2. Frame(it)[1] \in Char
      BY <1>6, <3>1, FrameFacts
    <3> QED
      BY <1>9, <2>2, <3>2 DEF Char
  <2> QED
    BY <2>1, <2>2
<1> QED
  BY <1>1, <1>2, <1>4, <1>6, <1>8, <1>9, <1>10 DEF it

(* Side s is where the bytes b and the ends o of their frames say. *)
At(s, b, o) ==
    /\ Encodes(b, sent[s], o) /\ Placed(s, b, o)
    /\ Len(b) \in Nat /\ Consumed(s, b) \in Nat
    /\ Consumed(s, b) + Len(rx[s].rbuf) <= Len(b)
    /\ \A k \in 1 .. Len(rx[s].rbuf) : rx[s].rbuf[k] = b[Consumed(s, b) + k]

LEMMA Position ==
    ASSUME Types, NEW s \in Side, Framed(s)
    PROVE  \E b \in Seq(Byte) : \E o : At(s, b, o)
<1>1. PICK b \in Seq(Byte) : \E o : Encodes(b, sent[s], o) /\ Placed(s, b, o)
  BY DEF Framed
<1>2. PICK o : Encodes(b, sent[s], o) /\ Placed(s, b, o)
  BY <1>1
<1> DEFINE B == Len(b)
           W == Len(wire[s])
           R == Len(rx[s].rbuf)
           c == Consumed(s, b)
<1>3. B \in Nat /\ W \in Nat /\ R \in Nat
  BY RxFacts, LenProperties
<1>4. c = B - R - W /\ c >= 0 /\ \A k \in 1 .. R : rx[s].rbuf[k] = b[c + k]
  BY <1>2 DEF Consumed, Placed, Ahead
<1> HIDE DEF B, W, R, c
<1>5. c \in Nat /\ c + R <= B
  BY <1>3, <1>4
<1> QED
  BY <1>2, <1>3, <1>4, <1>5 DEF At, B, W, R, c

LEMMA HistoryFacts ==
    ASSUME NEW s \in Side, Framed(s)
    PROVE  /\ Len(got[s]) \in Nat /\ Len(sent[s]) \in Nat /\ Len(got[s]) \in 0 .. Len(sent[s])
           /\ sent[s] \in Seq(Item) /\ got[s] \in Seq(Item)
           /\ Begun(s) => Message(s) \in Msg
<1>1. /\ Len(got[s]) \in Nat /\ Len(sent[s]) \in Nat /\ Len(got[s]) \in 0 .. Len(sent[s])
      /\ sent[s] \in Seq(Item) /\ got[s] \in Seq(Item)
  BY LenProperties DEF Framed
<1>2. ASSUME Begun(s) PROVE Message(s) \in Msg
  <2>1. Len(got[s]) + 1 \in 1 .. Len(sent[s])
    BY <1>1, <1>2 DEF Begun
  <2>2. sent[s][Len(got[s]) + 1] \in Item
    BY <1>1, <2>1, ElementOfSeq
  <2> QED
    BY <1>2, <2>2, FrameFacts DEF Begun, Message
<1> QED
  BY <1>1, <1>2

(* A marker opens a control message, or is one of the data. *)
LEMMA MarkerFrames ==
    ASSUME Types, NEW s \in Side, Framed(s), GotMarker(s)
    PROVE  Framed(s)'
<1>1. PICK b \in Seq(Byte) : \E o : At(s, b, o)
  BY Position
<1>2. PICK o :
             /\ Encodes(b, sent[s], o) /\ Placed(s, b, o)
             /\ Len(b) \in Nat /\ Consumed(s, b) \in Nat
             /\ Consumed(s, b) + Len(rx[s].rbuf) <= Len(b)
             /\ \A k \in 1 .. Len(rx[s].rbuf) : rx[s].rbuf[k] = b[Consumed(s, b) + k]
  BY <1>1 DEF At
<1> DEFINE c == Consumed(s, b)
           G == Len(got[s])
           r == rx[s]
<1>3. r.rbuf # <<>> /\ r.rstate = "Normal" /\ Head(r.rbuf) = ControlMarker
  BY DEF GotMarker, InState
<1>4. /\ Len(r.rbuf) \in Nat /\ Len(r.rbuf) >= 1 /\ r.rbuf[1] = ControlMarker /\ r \in RxState
      /\ 1 \in 0 .. Len(r.rbuf)
  BY <1>3, RxFacts
<1>5. c = o[G]
  BY <1>2, <1>3 DEF Placed, Within
<1>6. c < Len(b) /\ b[c + 1] = ControlMarker
  <2>1. c \in Nat /\ Len(b) \in Nat /\ c + Len(r.rbuf) <= Len(b)
    BY <1>2
  <2>2. r.rbuf[1] = b[c + 1]
    <3>1. 1 \in 1 .. Len(r.rbuf)
      BY <1>4
    <3> QED
      BY <1>2, <3>1
  <2> HIDE DEF c
  <2> QED
    BY <1>4, <2>1, <2>2
<1>7. /\ G + 1 \in 1 .. Len(sent[s]) /\ Opens(sent[s][G + 1])
  <2>1. sent[s] \in Seq(Item) /\ G \in 0 .. Len(sent[s]) /\ Encodes(b, sent[s], o)
    BY <1>2, HistoryFacts
  <2>2. o[G] < Len(b) /\ b[o[G] + 1] = ControlMarker
    BY <1>5, <1>6
  <2> HIDE DEF G, c
  <2> QED
    BY <2>1, <2>2, NextItem
<1>8. /\ UNCHANGED <<wire, sent, got>>
      /\ rx'[s] = [Skip(r, 1) EXCEPT !.rstate = "Length", !.clen = 0]
  BY DEF GotMarker, Types
<1>9. /\ rx'[s].rstate = "Length" /\ rx'[s].clen = 0
      /\ rx'[s].rbuf = SubSeq(r.rbuf, 1 + 1, Len(r.rbuf))
  <2>1. Skip(r, 1) \in RxState /\ Skip(r, 1).rbuf = SubSeq(r.rbuf, 1 + 1, Len(r.rbuf))
    BY <1>4, Skipped
  <2> QED
    BY <1>8, <2>1 DEF RxState
<1>10. Ahead(s, b)' /\ Consumed(s, b)' = c + 1
  <2>1. Ahead(s, b)
    BY <1>2 DEF Placed
  <2>2. wire'[s] = wire[s] /\ 1 \in 0 .. Len(rx[s].rbuf)
        /\ rx'[s].rbuf = SubSeq(rx[s].rbuf, 1 + 1, Len(rx[s].rbuf))
    BY <1>4, <1>8, <1>9
  <2> QED
    BY <2>1, <2>2, Advances
<1>11. Begun(s)' \/ Escaping(s)'
  <2>1. G < Len(sent[s])
    BY <1>7, HistoryFacts
  <2> QED
    BY <1>7, <1>8, <2>1 DEF Begun, Escaping, Opens
<1>12. Within(s, Consumed(s, b), o[Len(got[s])])'
  BY <1>5, <1>8, <1>9, <1>10, <1>11 DEF Within, InLength, InEscape
<1>13. Placed(s, b, o)'
  BY <1>10, <1>12 DEF Placed
<1> QED
  BY <1>2, <1>8, <1>13 DEF Framed


(* Bytes that hold no marker, from the start of a frame on, are as many    *)
(* items of data.                                                          *)
Reads(b, n, d) == n + Len(d) <= Len(b) /\ \A k \in 1 .. Len(d) : b[n + k] = d[k]

LEMMA DataRun ==
    ASSUME NEW b \in Seq(Byte), NEW items \in Seq(Item), NEW o, Encodes(b, items, o),
           NEW G \in 0 .. Len(items), NEW d \in Seq(Char), Reads(b, o[G], d),
           NEW n \in 0 .. Len(d)
    PROVE  /\ G + n <= Len(items) /\ o[G + n] = o[G] + n
           /\ n >= 1 => items[G + n] = <<"Data", d[n]>>
<1> USE DEF Reads
<1> DEFINE P(j) == /\ G + j <= Len(items) /\ o[G + j] = o[G] + j
                   /\ j >= 1 => items[G + j] = <<"Data", d[j]>>
           S == {j \in 0 .. Len(d) : ~P(j)}
<1>1. /\ Len(items) \in Nat /\ Len(b) \in Nat /\ Len(d) \in Nat /\ o[G] \in Nat /\ G \in Nat
      /\ \A i \in 1 .. Len(d) : d[i] \in Char
  <2>1. Len(items) \in Nat /\ Len(b) \in Nat /\ Len(d) \in Nat /\ \A i \in 1 .. Len(d) : d[i] \in Char
    BY LenProperties, ElementOfSeq
  <2>2. o[G] \in 0 .. Len(b)
    BY DEF Encodes
  <2> QED
    BY <2>1, <2>2
<1>2. P(0)
  BY <1>1
<1>3. ASSUME NEW j \in 0 .. Len(d), j + 1 \in 0 .. Len(d), P(j) PROVE P(j + 1)
  <2>1. o[G + j] = o[G] + j /\ G + j \in 0 .. Len(items)
    BY <1>1, <1>3
  <2>2. o[G] + j < Len(b) /\ j + 1 \in 1 .. Len(d)
    BY <1>1, <1>3
  <2>3. o[G + j] < Len(b)
    BY <2>1, <2>2
  <2> DEFINE i == G + j
             it == items[i + 1]
  <2>4. i \in 0 .. Len(items) /\ o[i] < Len(b)
    BY <2>1, <2>3
  <2> HIDE DEF i
  <2>5. /\ i + 1 \in 1 .. Len(items) /\ it \in Item
        /\ o[i + 1] = o[i] + Len(Frame(it)) /\ b[o[i] + 1] = Frame(it)[1]
        /\ Opens(it) <=> b[o[i] + 1] = ControlMarker
    BY <2>4, NextItem
  <2> HIDE DEF it
  <2>6. o[i] + 1 = o[G] + (j + 1) /\ i + 1 = G + (j + 1) /\ o[i] \in Nat
    BY <1>1, <2>1, SMTT(30) DEF i
  <2>7. b[o[i] + 1] = d[j + 1] /\ d[j + 1] \in Char
    BY <1>1, <2>2, <2>6, SMTT(30)
  <2>8. it[1] = "Data" /\ it # Marker
    <3>1. d[j + 1] # ControlMarker
      BY <2>7 DEF Char
    <3> QED
      BY <2>5, <2>7, <3>1, FrameFacts DEF Opens
  <2>9. Len(Frame(it)) = 1 /\ Frame(it)[1] = it[2] /\ it = <<"Data", it[2]>>
    BY <2>5, <2>8, FrameFacts
  <2>10. it = <<"Data", d[j + 1]>>
    BY <2>5, <2>7, <2>9
  <2>11. o[G + (j + 1)] = o[G] + (j + 1)
    BY <2>5, <2>6, <2>9
  <2>12. G + (j + 1) <= Len(items)
    BY <1>1, <2>5, <2>6
  <2>13. items[G + (j + 1)] = <<"Data", d[j + 1]>>
    BY <2>6, <2>10 DEF it
  <2> QED
    BY <2>11, <2>12, <2>13
<1> HIDE DEF P
<1>4. S = {}
  <2> SUFFICES ASSUME S # {} PROVE FALSE
    OBVIOUS
  <2>1. S \in SUBSET Nat
    BY <1>1
  <2>2. PICK j \in S : \A i \in S : j <= i
    BY <2>1, Least
  <2>3. j \in 0 .. Len(d) /\ ~P(j) /\ j # 0
    BY <1>2, <2>2
  <2>4. j - 1 \in 0 .. Len(d) /\ ~(j <= j - 1) /\ (j - 1) + 1 = j
    BY <1>1, <2>3
  <2>5. P(j - 1)
    BY <2>2, <2>4
  <2>6. P((j - 1) + 1)
    BY <1>3, <2>3, <2>4, <2>5
  <2> QED
    BY <2>3, <2>4, <2>6
<1>5. \A j \in 0 .. Len(d) : P(j)
  BY <1>4
<1> QED
  BY <1>5 DEF P

(* Data is handed on. *)
LEMMA DataFrames ==
    ASSUME Types, NEW s \in Side, Framed(s), Histories, GotData(s)
    PROVE  Framed(s)'
<1>1. PICK b \in Seq(Byte) : \E o : At(s, b, o)
  BY Position
<1>2. PICK o :
             /\ Encodes(b, sent[s], o) /\ Placed(s, b, o)
             /\ Len(b) \in Nat /\ Consumed(s, b) \in Nat
             /\ Consumed(s, b) + Len(rx[s].rbuf) <= Len(b)
             /\ \A k \in 1 .. Len(rx[s].rbuf) : rx[s].rbuf[k] = b[Consumed(s, b) + k]
  BY <1>1 DEF At
<1> DEFINE c == Consumed(s, b)
           G == Len(got[s])
           r == rx[s]
           d == Plain(r.rbuf)
           more == DataItems(d)
<1>3. /\ r.rstate = "Normal" /\ rx' = [rx EXCEPT ![s] = Skip(@, Len(d))]
      /\ got' = [got EXCEPT ![s] = @ \o more] /\ UNCHANGED <<wire, sent>>
  BY DEF GotData, InState, DeliverData
<1>4. r.rbuf \in Seq(Byte) /\ r \in RxState /\ Len(r.rbuf) \in Nat
  BY RxFacts
<1>5. /\ d \in Seq(Char) /\ Len(d) \in 0 .. Len(r.rbuf)
      /\ \A i \in 1 .. Len(d) : d[i] = r.rbuf[i]
  BY <1>4, PlainPrefix
<1> HIDE DEF d
<1>6. c = o[G]
  BY <1>2, <1>3 DEF Placed, Within
<1>7. o[G] + Len(d) <= Len(b) /\ \A k \in 1 .. Len(d) : b[o[G] + k] = d[k]
  <2>1. c \in Nat /\ Len(b) \in Nat /\ c + Len(r.rbuf) <= Len(b) /\ Len(d) \in Nat /\ Len(d) <= Len(r.rbuf)
    BY <1>2, <1>4, <1>5
  <2>2. \A k \in 1 .. Len(r.rbuf) : r.rbuf[k] = b[c + k]
    BY <1>2
  <2> HIDE DEF c, r
  <2>3. c + Len(d) <= Len(b)
    BY <1>4, <2>1
  <2>4. \A k \in 1 .. Len(d) : k \in 1 .. Len(r.rbuf)
    BY <1>4, <2>1
  <2> QED
    BY <1>5, <1>6, <2>2, <2>3, <2>4
<1>8. G \in 0 .. Len(sent[s]) /\ sent[s] \in Seq(Item) /\ got[s] \in Seq(Item)
      /\ G \in Nat /\ Len(sent[s]) \in Nat
  BY HistoryFacts
<1>9. \A j \in 0 .. Len(d) : /\ G + j <= Len(sent[s]) /\ o[G + j] = o[G] + j
                             /\ j >= 1 => sent[s][G + j] = <<"Data", d[j]>>
  <2>1. Encodes(b, sent[s], o) /\ d \in Seq(Char)
    BY <1>2, <1>5
  <2>2. PICK items \in Seq(Item) : items = sent[s]
    BY <1>8
  <2> HIDE DEF G, more
  <2>3. \A j \in 0 .. Len(d) : /\ G + j <= Len(items) /\ o[G + j] = o[G] + j
                               /\ j >= 1 => items[G + j] = <<"Data", d[j]>>
    <3>1. G \in 0 .. Len(items) /\ Encodes(b, items, o)
      BY <2>1, <2>2, <1>8
    <3>2. Reads(b, o[G], d)
      BY <1>7 DEF Reads
    <3> QED
      BY <2>1, <3>1, <3>2, DataRun
  <2> QED
    BY <2>2, <2>3
<1>10. more \in Seq(Item) /\ Len(more) = Len(d) /\ \A i \in 1 .. Len(d) : more[i] = <<"Data", d[i]>>
  <2>1. DOMAIN d = 1 .. Len(d)
    BY <1>5, LenProperties
  <2>2. \A i \in 1 .. Len(d) : more[i] = <<"Data", d[i]>>
    BY <2>1 DEF DataItems
  <2> QED
    BY <1>5, <2>2, EncodesData
<1> HIDE DEF more
<1>11. /\ got'[s] = got[s] \o more /\ got[s] \o more \in Seq(Item)
       /\ Len(got[s] \o more) = G + Len(d)
       /\ \A i \in 1 .. G + Len(d) : (got[s] \o more)[i] = IF i <= G THEN got[s][i] ELSE more[i - G]
  <2>1. got'[s] = got[s] \o more
    BY <1>3 DEF Histories
  <2>2. /\ got[s] \o more \in Seq(Item) /\ Len(got[s] \o more) = G + Len(more)
        /\ \A i \in 1 .. G + Len(more) :
              (got[s] \o more)[i] = IF i <= G THEN got[s][i] ELSE more[i - G]
    BY <1>8, <1>10, ConcatProperties, ZenonT(30)
  <2> QED
    BY <1>10, <2>1, <2>2
<1>12. Len(d) \in Nat /\ Len(d) \in 0 .. Len(d)
  BY <1>4, <1>5
<1>13. Len(got'[s]) <= Len(sent'[s])
  BY <1>3, <1>9, <1>11, <1>12
<1>14. \A i \in 1 .. Len(got'[s]) : got'[s][i] = sent'[s][i]
  <2> SUFFICES ASSUME NEW i \in 1 .. G + Len(d) PROVE (got[s] \o more)[i] = sent[s][i]
    BY <1>3, <1>11
  <2>1. CASE i <= G
    <3>1. got[s][i] = sent[s][i]
      BY <2>1, <1>8 DEF Framed
    <3> QED
      BY <1>11, <2>1, <3>1
  <2>2. CASE ~(i <= G)
    <3> HIDE DEF G
    <3>1. PICK j \in 1 .. Len(d) : i = G + j /\ i - G = j
      <4>1. i - G \in 1 .. Len(d) /\ i = G + (i - G)
        BY <1>8, <1>12, <2>2
      <4> QED
        BY <4>1
    <3>2. (got[s] \o more)[i] = more[j]
      BY <1>11, <2>2, <3>1
    <3>3. j \in 0 .. Len(d) /\ j >= 1
      BY <1>12
    <3> QED
      BY <1>9, <1>10, <3>1, <3>2, <3>3
  <2> QED
    BY <2>1, <2>2
<1>15. /\ rx'[s] = Skip(r, Len(d)) /\ Skip(r, Len(d)).rstate = "Normal"
       /\ Skip(r, Len(d)).rbuf = SubSeq(r.rbuf, Len(d) + 1, Len(r.rbuf))
  BY <1>3, <1>4, <1>5, Skipped DEF Types
<1>16. Ahead(s, b)' /\ Consumed(s, b)' = c + Len(d)
  <2>1. Ahead(s, b)
    BY <1>2 DEF Placed
  <2>2. wire'[s] = wire[s] /\ Len(d) \in 0 .. Len(rx[s].rbuf)
        /\ rx'[s].rbuf = SubSeq(rx[s].rbuf, Len(d) + 1, Len(rx[s].rbuf))
    BY <1>3, <1>5, <1>15
  <2> QED
    BY <2>1, <2>2, Advances
<1>17. o[Len(got'[s])] = c + Len(d)
  BY <1>6, <1>9, <1>11, <1>12
<1>18. Within(s, Consumed(s, b), o[Len(got[s])])'
  BY <1>15, <1>16, <1>17 DEF Within
<1>19. Placed(s, b, o)'
  BY <1>16, <1>18 DEF Placed
<1> QED
  BY <1>2, <1>3, <1>8, <1>11, <1>13, <1>14, <1>19 DEF Framed


(* The low bits of a byte, and its high bit. *)
LEMMA LowHigh ==
    ASSUME NEW x \in 0 .. Radix - 1
    PROVE  Low(x) = x /\ ~High(x) /\ Low(x + Radix) = x /\ High(x + Radix)
<1>1. Radix \in Nat \ {0} /\ x \in Nat /\ x < Radix
  BY Constants
<1>2. ~High(x) /\ High(x + Radix)
  BY <1>1 DEF High
<1>3. ASSUME NEW k \in {0, 1} PROVE (x + Radix * k) % Radix = x
  <2> DEFINE n == x + Radix * k
             q == n \div Radix
             y == n % Radix
  <2>1. n \in Nat
    BY <1>1
  <2>2. q \in Nat /\ y \in 0 .. Radix - 1 /\ n = Radix * q + y
    BY <1>1, <2>1, Division
  <2> HIDE DEF q, y
  <2>3. Radix * (k - q) = y - x
    BY <1>1, <2>2
  <2>4. k - q >= 1 => Radix * (k - q) >= Radix
    BY <1>1, <2>2
  <2>5. k - q <= -1 => Radix * (k - q) <= -Radix
    BY <1>1, <2>2
  <2>6. k = q
    BY <1>1, <2>2, <2>3, <2>4, <2>5
  <2> QED
    BY <1>1, <2>2, <2>6 DEF y
<1>4. x + Radix * 0 = x /\ x + Radix * 1 = x + Radix
  BY <1>1
<1>5. x % Radix = x /\ (x + Radix) % Radix = x
  BY <1>3, <1>4
<1> QED
  BY <1>2, <1>5 DEF Low

(* The digits of a length give it back. *)
LEMMA DigitsGiveLength ==
    ASSUME NEW m \in Msg
    PROVE  LET n == Len(m)
           IN  /\ n < Radix => High(n + Radix) /\ Low(n + Radix) = n
               /\ n >= Radix => /\ ~High(n \div Radix) /\ Low(n \div Radix) = n \div Radix
                                /\ High((n % Radix) + Radix) /\ n \div Radix \in Nat
                                /\ (n \div Radix) * Radix + Low((n % Radix) + Radix) = n
<1> DEFINE n == Len(m)
<1>1. n \in Nat /\ n < Radix * Radix
  BY Constants
<1>2. Radix \in Nat \ {0}
  BY Constants
<1> HIDE DEF n
<1> DEFINE q == n \div Radix
           y == n % Radix
<1>3. q \in Nat /\ y \in 0 .. Radix - 1 /\ n = Radix * q + y
  BY <1>1, <1>2, Division
<1> HIDE DEF q, y
<1>4. q < Radix
  <2> SUFFICES ASSUME q >= Radix PROVE FALSE
    BY <1>2, <1>3
  <2>1. q - Radix \in Nat
    BY <1>2, <1>3
  <2>2. Radix * (q - Radix) >= 0 /\ Radix * q = Radix * Radix + Radix * (q - Radix)
    BY <1>2, <1>3, <2>1
  <2> QED
    BY <1>1, <1>2, <1>3, <2>2
<1>5. q \in 0 .. Radix - 1
  BY <1>2, <1>3, <1>4
<1>6. n < Radix => n \in 0 .. Radix - 1
  BY <1>1, <1>2
<1>7. Low(q) = q /\ ~High(q) /\ Low(y + Radix) = y /\ High(y + Radix)
  BY <1>3, <1>5, LowHigh
<1>8. n < Radix => High(n + Radix) /\ Low(n + Radix) = n
  BY <1>6, LowHigh
<1>9. q * Radix + y = n
  BY <1>2, <1>3
<1> QED
  BY <1>3, <1>7, <1>8, <1>9 DEF n, q, y

(* The frame a side is in. *)
LEMMA Current ==
    ASSUME NEW s \in Side, Framed(s), Begun(s), NEW b \in Seq(Byte), NEW o,
           Encodes(b, sent[s], o)
    PROVE  LET G == Len(got[s])
               m == Message(s)
           IN  /\ m \in Msg /\ Len(m) \in Nat /\ 0 < Len(m) /\ G + 1 <= Len(sent[s])
               /\ sent[s][G + 1] = <<"Control", m>> /\ sent[s][G + 1] \in Item
               /\ o[G] \in Nat /\ o[G + 1] = o[G] + 1 + Digits(Len(m)) + Len(m)
               /\ b[o[G] + 2] = ControlBytes(m)[2]
               /\ Len(m) >= Radix => b[o[G] + 3] = ControlBytes(m)[3]
               /\ \A k \in 1 .. Len(m) : b[o[G] + 1 + Digits(Len(m)) + k] = m[k]
<1> DEFINE G == Len(got[s])
           i == G + 1
           it == sent[s][i]
           m == Message(s)
           F == ControlBytes(m)
<1>1. G \in Nat /\ Len(sent[s]) \in Nat /\ G < Len(sent[s]) /\ sent[s] \in Seq(Item)
      /\ it[1] = "Control" /\ m = it[2]
  BY HistoryFacts DEF Begun, Message
<1>2. i \in 1 .. Len(sent[s]) /\ i - 1 = G /\ G \in 0 .. Len(sent[s])
  BY <1>1
<1>3. it \in Item
  BY <1>1, <1>2, ElementOfSeq
<1> HIDE DEF it
<1>4. m \in Msg /\ Frame(it) = F /\ it = <<"Control", m>>
  BY <1>1, <1>3, FrameFacts
<1>5. /\ o[G] \in 0 .. Len(b) /\ o[i] = o[G] + Len(F)
      /\ \A k \in 1 .. Len(F) : b[o[G] + k] = F[k]
  <2>1. /\ o[i] = o[i - 1] + Len(Frame(it))
        /\ \A k \in 1 .. Len(Frame(it)) : b[o[i - 1] + k] = Frame(it)[k]
    <3>1. \A j \in 1 .. Len(sent[s]) :
            /\ o[j] = o[j - 1] + Len(Frame(sent[s][j]))
            /\ \A k \in 1 .. Len(Frame(sent[s][j])) : b[o[j - 1] + k] = Frame(sent[s][j])[k]
      BY DEF Encodes
    <3> HIDE DEF i, G
    <3> QED
      BY <1>2, <3>1 DEF it
  <2>2. o[G] \in 0 .. Len(b)
    BY <1>2 DEF Encodes
  <2> QED
    BY <1>2, <1>4, <2>1, <2>2
<1>6. Len(b) \in Nat /\ Len(m) \in Nat /\ 0 < Len(m)
  BY <1>4, LenProperties, Constants
<1>7. Digits(Len(m)) \in {1, 2} /\ (Len(m) >= Radix => Digits(Len(m)) = 2)
  BY <1>6, Constants DEF Digits
<1> HIDE DEF m, F
<1>8. Len(F) = 1 + Digits(Len(m)) + Len(m) /\ \A k \in 1 .. Len(m) : F[1 + Digits(Len(m)) + k] = m[k]
  BY <1>4, ControlFrame DEF F
<1> DEFINE D == Digits(Len(m))
           e == o[G]
           M == Len(m)
<1> HIDE DEF D, e, M
<1>9. /\ e \in Nat /\ M \in Nat /\ 0 < M /\ D \in {1, 2} /\ (M >= Radix => D = 2)
      /\ Len(F) = 1 + D + M /\ \A k \in 1 .. Len(F) : b[e + k] = F[k]
  BY <1>5, <1>6, <1>7, <1>8 DEF D, e, M
<1>10. 2 \in 1 .. Len(F) /\ (M >= Radix => 3 \in 1 .. Len(F))
  BY <1>9
<1>11. o[i] = e + 1 + D + M
  <2>1. o[i] = e + Len(F)
    BY <1>5 DEF e
  <2> QED
    BY <1>9, <2>1
<1>12. ASSUME NEW k \in 1 .. M PROVE b[e + 1 + D + k] = m[k]
  <2>1. 1 + D + k \in 1 .. Len(F) /\ e + (1 + D + k) = e + 1 + D + k
    <3>1. e \in Nat /\ M \in Nat /\ D \in Nat /\ Len(F) = 1 + D + M /\ k \in Nat /\ k <= M /\ k >= 1
      BY <1>9
    <3> QED
      BY <3>1
  <2>2. b[e + (1 + D + k)] = F[1 + D + k]
    BY <1>9, <2>1
  <2>3. F[1 + D + k] = m[k]
    BY <1>8 DEF D, M
  <2> QED
    BY <2>1, <2>2, <2>3
<1>13. b[e + 2] = F[2] /\ (M >= Radix => b[e + 3] = F[3])
  BY <1>9, <1>10
<1>14. G + 1 <= Len(sent[s])
  BY <1>1
<1> QED
  BY <1>3, <1>4, <1>9, <1>11, <1>12, <1>13, <1>14 DEF D, e, M, m, F, it


(* A length that is too long already. *)
LEMMA ResetFrames ==
    ASSUME Types, NEW s \in Side, Framed(s), NEW b \in Seq(Byte), NEW o, At(s, b, o),
           GotLength(s), rx[s].clen >= MaxControlMessage
    PROVE  Framed(s)'
<1>1. rx[s] \in RxState /\ UNCHANGED <<wire, sent>> /\ Encodes(b, sent[s], o) /\ Ahead(s, b)
  BY RxFacts DEF GotLength, At, Placed
<1>2. rx[s].clen \in Nat /\ MaxControlMessage \in Nat
  BY <1>1, Constants DEF RxState
<1>3. ~(rx[s].clen < MaxControlMessage)
  BY <1>2
<1>4. rx'[s] = [rx[s] EXCEPT !.rstate = "Reset"] /\ UNCHANGED got
  BY <1>3 DEF GotLength, Types
<1>5. rx'[s].rstate = "Reset" /\ rx'[s].rbuf = rx[s].rbuf
  BY <1>1, <1>4 DEF RxState
<1>6. Ahead(s, b)'
  BY <1>1, <1>5 DEF Ahead, Consumed
<1>7. Within(s, Consumed(s, b), o[Len(got[s])])'
  BY <1>5 DEF Within
<1>8. Placed(s, b, o)'
  BY <1>6, <1>7 DEF Placed
<1> QED
  BY <1>1, <1>4, <1>8 DEF Framed

(* A digit of the length. *)
LEMMA DigitFrames ==
    ASSUME Types, NEW s \in Side, Framed(s), NEW b \in Seq(Byte), NEW o, At(s, b, o),
           GotLength(s), InLength(s, rx[s], Consumed(s, b), o[Len(got[s])])
    PROVE  Framed(s)'
<1>2. /\ Encodes(b, sent[s], o) /\ Placed(s, b, o)
      /\ Len(b) \in Nat /\ Consumed(s, b) \in Nat
      /\ Consumed(s, b) + Len(rx[s].rbuf) <= Len(b)
      /\ \A k \in 1 .. Len(rx[s].rbuf) : rx[s].rbuf[k] = b[Consumed(s, b) + k]
  BY DEF At
<1> DEFINE c == Consumed(s, b)
           G == Len(got[s])
           e == o[G]
           r == rx[s]
           m == Message(s)
           M == Len(m)
           x == Head(r.rbuf)
           l == r.clen * Radix + Low(x)
<1>3. r.rbuf # <<>> /\ r.rstate = "Length" /\ UNCHANGED <<wire, sent>>
  BY DEF GotLength, InState
<1>4. /\ Len(r.rbuf) \in Nat /\ Len(r.rbuf) >= 1 /\ x = r.rbuf[1] /\ x \in Byte /\ r \in RxState
      /\ 1 \in 0 .. Len(r.rbuf) /\ 1 \in 1 .. Len(r.rbuf)
  BY <1>3, RxFacts
<1>5. Begun(s) /\ \/ r.clen = 0 /\ c = e + 1
                  \/ M >= Radix /\ r.clen = M \div Radix /\ c = e + 2
  BY DEF InLength
<1>6. /\ m \in Msg /\ M \in Nat /\ 0 < M /\ e \in Nat
      /\ b[e + 2] = ControlBytes(m)[2] /\ (M >= Radix => b[e + 3] = ControlBytes(m)[3])
  BY <1>2, <1>5, Current
<1>7. x = b[c + 1] /\ c \in Nat
  BY <1>2, <1>4
<1> HIDE DEF c, e, m, x
<1>8. Radix \in Nat
  BY Constants
<1>9. \/ /\ M < Radix /\ High(x) /\ l = M /\ c + 1 = e + 1 + Digits(M)
      \/ /\ M >= Radix /\ ~High(x) /\ l = M \div Radix /\ c + 1 = e + 2
      \/ /\ M >= Radix /\ High(x) /\ l = M /\ c + 1 = e + 1 + Digits(M)
  <2>1. CASE r.clen = 0 /\ c = e + 1 /\ M < Radix
    <3>1. x = M + Radix /\ Digits(M) = 1
      <4>1. c + 1 = e + 2
        BY <1>6, <2>1
      <4> QED
        BY <1>6, <1>7, <2>1, <4>1, ControlFrame DEF Digits
    <3>2. High(x) /\ Low(x) = M
      BY <1>6, <2>1, <3>1, DigitsGiveLength
    <3>3. l = M
      BY <1>6, <1>8, <2>1, <3>2
    <3>4. c + 1 = e + 1 + Digits(M)
      BY <1>6, <2>1, <3>1
    <3> QED
      BY <2>1, <3>2, <3>3, <3>4
  <2>2. CASE r.clen = 0 /\ c = e + 1 /\ ~(M < Radix)
    <3>1. M >= Radix /\ c + 1 = e + 2
      BY <1>6, <1>8, <2>2
    <3>2. x = M \div Radix
      BY <1>6, <1>7, <3>1, ControlFrame
    <3>3. ~High(x) /\ Low(x) = M \div Radix /\ M \div Radix \in Nat
      BY <1>6, <3>1, <3>2, DigitsGiveLength
    <3>4. l = Low(x)
      <4>1. 0 * Radix = 0 /\ Low(x) \in Nat
        BY <1>8, <3>3
      <4> QED
        BY <2>2, <4>1
    <3> QED
      BY <3>1, <3>3, <3>4
  <2>3. CASE M >= Radix /\ r.clen = M \div Radix /\ c = e + 2
    <3>1. c + 1 = e + 3
      BY <1>6, <2>3
    <3>2. x = (M % Radix) + Radix
      BY <1>6, <1>7, <2>3, <3>1, ControlFrame
    <3>3. High(x) /\ l = M
      BY <1>6, <2>3, <3>2, DigitsGiveLength
    <3>4. Digits(M) = 2
      BY <1>6, <1>8, <2>3 DEF Digits
    <3>5. c + 1 = e + 1 + Digits(M)
      BY <1>6, <3>1, <3>4
    <3> QED
      BY <2>3, <3>3, <3>5
  <2> QED
    BY <1>5, <2>1, <2>2, <2>3
<1>10. ~(r.clen < MaxControlMessage /\ High(x) /\ l = 0)
  BY <1>6, <1>9
<1>11. /\ UNCHANGED got
       /\ rx' = [rx EXCEPT ![s] =
              IF r.clen >= MaxControlMessage THEN [r EXCEPT !.rstate = "Reset"]
              ELSE IF High(x)
                THEN [Skip(r, 1) EXCEPT !.clen = l, !.rstate = "Message", !.cbuf = <<>>]
                ELSE [Skip(r, 1) EXCEPT !.clen = l]]
  BY <1>10 DEF GotLength, x
<1>12. (Begun(s)' <=> Begun(s)) /\ Message(s)' = m
  BY <1>3, <1>11 DEF Begun, Message, m
<1>13. Ahead(s, b)
  BY <1>2 DEF Placed
<1> HIDE DEF l
<1>14. CASE r.clen >= MaxControlMessage
  BY <1>14, ResetFrames
<1>15. CASE ~(r.clen >= MaxControlMessage)
  <2>1. Skip(r, 1) \in RxState /\ Skip(r, 1).rbuf = SubSeq(r.rbuf, 1 + 1, Len(r.rbuf))
        /\ Skip(r, 1).rstate = "Length"
    BY <1>3, <1>4, Skipped
  <2>2. \/ /\ High(x) /\ rx'[s] = [Skip(r, 1) EXCEPT !.clen = l, !.rstate = "Message", !.cbuf = <<>>]
        \/ /\ ~High(x) /\ rx'[s] = [Skip(r, 1) EXCEPT !.clen = l]
    BY <1>11, <1>15 DEF Types
  <2>3. rx'[s].rbuf = SubSeq(r.rbuf, 1 + 1, Len(r.rbuf)) /\ rx'[s].clen = l
        /\ \/ High(x) /\ rx'[s].rstate = "Message" /\ rx'[s].cbuf = <<>>
           \/ ~High(x) /\ rx'[s].rstate = "Length"
    BY <2>1, <2>2 DEF RxState
  <2>4. Ahead(s, b)' /\ Consumed(s, b)' = c + 1
    <3>1. wire'[s] = wire[s] /\ 1 \in 0 .. Len(rx[s].rbuf)
          /\ rx'[s].rbuf = SubSeq(rx[s].rbuf, 1 + 1, Len(rx[s].rbuf))
      BY <1>3, <1>4, <2>3
    <3> QED
      BY <1>13, <3>1, Advances DEF c
  <2>5. o[Len(got[s])]' = e
    BY <1>11 DEF e
  <2>6. Within(s, Consumed(s, b), o[Len(got[s])])'
    <3>1. CASE High(x)
      <4>1. l = M /\ c + 1 = e + 1 + Digits(M)
        BY <1>9, <3>1
      <4>2. Len(<<>>) = 0
        OBVIOUS
      <4>3. rx'[s].rstate = "Message" /\ rx'[s].cbuf = <<>> /\ rx'[s].clen = M
        BY <2>3, <3>1, <4>1
      <4>4. c + 1 = e + 1 + Digits(M) + 0
        <5>1. Digits(M) \in Nat
          BY DEF Digits
        <5> QED
          BY <4>1, <5>1, <1>6
      <4> QED
        BY <1>5, <1>6, <1>12, <2>4, <2>5, <4>2, <4>3, <4>4 DEF Within
    <3>2. CASE ~High(x)
      <4>1. M >= Radix /\ l = M \div Radix /\ c + 1 = e + 2
        BY <1>9, <3>2
      <4>2. rx'[s].rstate = "Length" /\ rx'[s].clen = M \div Radix
        BY <2>3, <3>2, <4>1
      <4> QED
        BY <1>5, <1>12, <2>4, <2>5, <4>1, <4>2 DEF Within, InLength
    <3> QED
      BY <3>1, <3>2
  <2>7. Placed(s, b, o)'
    BY <2>4, <2>6 DEF Placed
  <2> QED
    BY <1>2, <1>3, <1>11, <2>7 DEF Framed
<1> QED
  BY <1>14, <1>15

(* The first escape of a marker gives the marker. *)
LEMMA EscapeFrames ==
    ASSUME Types, NEW s \in Side, Framed(s), NEW b \in Seq(Byte), NEW o, At(s, b, o),
           Histories, Marked(s),
           GotLength(s), InEscape(s, rx[s], Consumed(s, b), o[Len(got[s])])
    PROVE  Framed(s)' \/ Beyond(s)'
<1> DEFINE G == Len(got[s])
           S == Len(sent[s])
           e == o[G]
           r == rx[s]
           x == Head(r.rbuf)
<1>1. /\ G < S /\ sent[s][G + 1] = Marker /\ r.clen = 0 /\ Consumed(s, b) = e + 1
  BY DEF InEscape, Escaping
<1>2. /\ G \in Nat /\ S \in Nat /\ G \in 0 .. S /\ sent[s] \in Seq(Item) /\ got[s] \in Seq(Item)
  BY HistoryFacts
<1>3. S = G + 1
  <2>1. G + 1 \in 1 .. S
    BY <1>1, <1>2
  <2> QED
    BY <1>1, <2>1 DEF Marked
<1>4. x = Radix
  <2>1. r.rbuf # <<>>
    BY DEF GotLength, InState
  <2>2. Len(r.rbuf) \in Nat /\ Len(r.rbuf) >= 1 /\ x = r.rbuf[1] /\ 1 \in 1 .. Len(r.rbuf)
    BY <2>1, RxFacts
  <2>3. x = b[(e + 1) + 1] /\ e + 1 \in Nat /\ e + 1 < Len(b) /\ Len(b) \in Nat
    BY <1>1, <2>2 DEF At
  <2>4. Encodes(b, sent[s], o)
    BY DEF At
  <2>5. e \in 0 .. Len(b)
    BY <1>2, <2>4 DEF Encodes
  <2>6. e < Len(b) /\ (e + 1) + 1 = e + 2
    BY <2>3, <2>5
  <2>7. \A k \in 1 .. Len(Frame(sent[s][G + 1])) : b[e + k] = Frame(sent[s][G + 1])[k]
    <3>1. \A j \in 1 .. Len(sent[s]) : \A k \in 1 .. Len(Frame(sent[s][j])) :
              b[o[j - 1] + k] = Frame(sent[s][j])[k]
      BY <2>4 DEF Encodes
    <3>2. G + 1 \in 1 .. Len(sent[s]) /\ (G + 1) - 1 = G
      BY <1>1, <1>2
    <3> HIDE DEF G
    <3> QED
      BY <3>1, <3>2
  <2>8. Frame(Marker) = EscapedMarker
    BY DEF Frame
  <2>9. 2 \in 1 .. Len(EscapedMarker) /\ EscapedMarker[2] = Radix
    BY EscapedType
  <2>10. b[e + 2] = Radix
    BY <1>1, <2>7, <2>8, <2>9
  <2> QED
    BY <2>3, <2>6, <2>10
<1>5. High(x) /\ r.clen * Radix + Low(x) = 0
  <2>1. 0 \in 0 .. Radix - 1 /\ 0 + Radix = Radix /\ 0 * Radix + 0 = 0
    BY Constants
  <2>2. Low(0 + Radix) = 0 /\ High(0 + Radix)
    BY <2>1, LowHigh
  <2> QED
    BY <1>1, <1>4, <2>1, <2>2
<1>6. CASE r.clen >= MaxControlMessage
  BY <1>6, ResetFrames
<1>7. CASE ~(r.clen >= MaxControlMessage)
  <2>1. r.clen < MaxControlMessage
    BY <1>1, <1>7, Constants
  <2>2. DeliverData(s, <<ControlMarker>>) /\ sent' = sent
    BY <1>5, <2>1 DEF GotLength
  <2>3. DataItems(<<ControlMarker>>) = <<Marker>>
    BY DEF DataItems, Marker
  <2>4. got'[s] = got[s] \o <<Marker>>
    BY <2>2, <2>3 DEF DeliverData, Histories
  <2>5. /\ Len(got[s] \o <<Marker>>) = G + 1
        /\ \A i \in 1 .. G + 1 : (got[s] \o <<Marker>>)[i] = IF i <= G THEN got[s][i] ELSE Marker
    <3>1. <<Marker>> \in Seq(Item) /\ Len(<<Marker>>) = 1 /\ <<Marker>>[1] = Marker
      BY EncodesMarker
    <3>2. /\ Len(got[s] \o <<Marker>>) = G + Len(<<Marker>>)
          /\ \A i \in 1 .. G + Len(<<Marker>>) :
                (got[s] \o <<Marker>>)[i] = IF i <= G THEN got[s][i] ELSE <<Marker>>[i - G]
      BY <1>2, <3>1, ConcatProperties, ZenonT(30)
    <3>3. \A i \in 1 .. G + 1 : ~(i <= G) => i - G = 1
      BY <1>2
    <3> QED
      BY <3>1, <3>2, <3>3
  <2>6. \A i \in 1 .. G : got[s][i] = sent[s][i]
    BY DEF Framed
  <2>7. \A i \in 1 .. G + 1 : got'[s][i] = sent[s][i]
    <3> TAKE i \in 1 .. G + 1
    <3>1. CASE i <= G
      <4>1. i \in 1 .. G
        BY <1>2, <3>1
      <4> QED
        BY <2>4, <2>5, <2>6, <3>1, <4>1
    <3>2. CASE ~(i <= G)
      <4>1. i = G + 1
        BY <1>2, <3>2
      <4> QED
        BY <1>1, <2>4, <2>5, <3>2, <4>1
    <3> QED
      BY <3>1, <3>2
  <2>8. Last(sent[s]) = Marker /\ sent[s] # <<>>
    BY <1>1, <1>2, <1>3 DEF Last
  <2>9. Beyond(s)'
    BY <1>2, <1>3, <2>2, <2>4, <2>5, <2>7, <2>8 DEF Beyond, MarkerSent
  <2> QED
    BY <2>9
<1> QED
  BY <1>6, <1>7

LEMMA LengthFrames ==
    ASSUME Types, NEW s \in Side, Framed(s), Histories, Marked(s), GotLength(s)
    PROVE  Framed(s)' \/ Beyond(s)'
<1>1. PICK b \in Seq(Byte) : \E o : At(s, b, o)
  BY Position
<1>2. PICK o : At(s, b, o)
  BY <1>1
<1>3. \/ InLength(s, rx[s], Consumed(s, b), o[Len(got[s])])
      \/ InEscape(s, rx[s], Consumed(s, b), o[Len(got[s])])
  BY <1>2 DEF At, Placed, Within, GotLength, InState
<1> QED
  BY <1>2, <1>3, DigitFrames, EscapeFrames


(* What there is of the message after a step that takes more of its body. *)
LEMMA BodySoFar ==
    ASSUME Types, NEW s \in Side, Framed(s), NEW b \in Seq(Byte), NEW o, Encodes(b, sent[s], o),
           Placed(s, b, o), Consumed(s, b) \in Nat, rx[s].rstate = "Message",
           \A k \in 1 .. Len(rx[s].rbuf) : rx[s].rbuf[k] = b[Consumed(s, b) + k]
    PROVE  LET r == rx[s]
               m == Message(s)
               w == Wanted(r)
               t == r.cbuf \o SubSeq(r.rbuf, 1, w)
           IN  /\ w \in 0 .. Len(r.rbuf) /\ Begun(s) /\ r.clen = Len(m)
               /\ t \in Seq(Byte) /\ Len(t) = Len(r.cbuf) + w /\ Len(t) <= Len(m)
               /\ \A k \in 1 .. Len(t) : t[k] = m[k]
               /\ Consumed(s, b) + w = o[Len(got[s])] + 1 + Digits(Len(m)) + Len(t)
<1> DEFINE r == rx[s]
           m == Message(s)
           w == Wanted(r)
           u == SubSeq(r.rbuf, 1, w)
           t == r.cbuf \o u
           c == Consumed(s, b)
           e == o[Len(got[s])]
           M == Len(m)
           D == Digits(M)
           C == Len(r.cbuf)
           R == Len(r.rbuf)
<1>1. R \in Nat /\ C \in Nat /\ r.cbuf \in Seq(Byte) /\ r.rbuf \in Seq(Byte) /\ c \in Nat
  BY RxFacts
<1>2. /\ Begun(s) /\ r.clen = M /\ C < r.clen /\ c = e + 1 + Digits(r.clen) + C
      /\ \A k \in 1 .. C : r.cbuf[k] = m[k]
  BY DEF Placed, Within
<1>3. m \in Msg /\ M \in Nat /\ e \in Nat /\ \A k \in 1 .. M : b[e + 1 + D + k] = m[k]
  BY <1>2, Current
<1>4. w = IF R < M - C THEN R ELSE M - C
  BY <1>2 DEF Wanted
<1>5. D \in Nat /\ c = e + 1 + D + C /\ C < M
  BY <1>2 DEF Digits
<1> HIDE DEF c, e, m, M, D, C, R, w
<1>6. w \in 0 .. R /\ C + w <= M
  <2>1. R \in Nat /\ C \in Nat /\ M \in Nat /\ C < M
    BY <1>1, <1>3, <1>5
  <2>2. CASE R < M - C
    BY <1>4, <2>1, <2>2
  <2>3. CASE ~(R < M - C)
    BY <1>4, <2>1, <2>3
  <2> QED
    BY <2>2, <2>3
<1>7. u \in Seq(Byte) /\ Len(u) = w /\ \A i \in 1 .. w : u[i] = r.rbuf[i]
  BY <1>1, <1>6, Cut DEF R
<1> HIDE DEF u
<1>8. /\ t \in Seq(Byte) /\ Len(t) = C + w
      /\ \A i \in 1 .. C + w : t[i] = IF i <= C THEN r.cbuf[i] ELSE u[i - C]
  <2>1. /\ t \in Seq(Byte) /\ Len(t) = C + Len(u)
        /\ \A i \in 1 .. C + Len(u) : t[i] = IF i <= C THEN r.cbuf[i] ELSE u[i - C]
    BY <1>1, <1>7, ConcatProperties, ZenonT(30) DEF C
  <2> QED
    BY <1>7, <2>1
<1> HIDE DEF t
<1>9. \A k \in 1 .. R : r.rbuf[k] = b[c + k]
  BY DEF R, c
<1>10. ASSUME NEW i \in 1 .. C + w PROVE t[i] = m[i]
  <2>1. CASE i <= C
    BY <1>1, <1>2, <1>8, <2>1
  <2>2. CASE ~(i <= C)
    <3>1. PICK k \in 1 .. w : i = C + k /\ i - C = k
      <4>1. i - C \in 1 .. w /\ i = C + (i - C)
        BY <1>1, <1>6, <2>2
      <4> QED
        BY <4>1
    <3>2. k \in 1 .. R /\ C + k \in 1 .. M
      BY <1>1, <1>3, <1>6
    <3>3. e + 1 + D + (C + k) = c + k
      <4>1. k \in Nat
        BY <1>1, <3>2
      <4> QED
        BY <4>1, <1>1, <1>3, <1>5
    <3>4. t[i] = r.rbuf[k]
      BY <1>7, <1>8, <2>2, <3>1
    <3>5. r.rbuf[k] = b[c + k]
      BY <1>9, <3>2
    <3>6. m[C + k] = b[c + k]
      BY <1>3, <3>2, <3>3
    <3> QED
      BY <3>1, <3>4, <3>5, <3>6
  <2> QED
    BY <2>1, <2>2
<1>11. c + w = e + 1 + D + (C + w)
  BY <1>1, <1>3, <1>5, <1>6
<1>12. w \in 0 .. R /\ Len(t) <= M /\ c + w = e + 1 + D + Len(t) /\ \A k \in 1 .. Len(t) : t[k] = m[k]
  BY <1>6, <1>8, <1>10, <1>11
<1> QED
  BY <1>2, <1>8, <1>12 DEF c, e, m, M, D, C, R, w, u, t

LEMMA PartFrames ==
    ASSUME Types, NEW s \in Side, Framed(s), GotPart(s)
    PROVE  Framed(s)'
<1>1. PICK b \in Seq(Byte) : \E o : At(s, b, o)
  BY Position
<1>2. PICK o :
             /\ Encodes(b, sent[s], o) /\ Placed(s, b, o)
             /\ Len(b) \in Nat /\ Consumed(s, b) \in Nat
             /\ Consumed(s, b) + Len(rx[s].rbuf) <= Len(b)
             /\ \A k \in 1 .. Len(rx[s].rbuf) : rx[s].rbuf[k] = b[Consumed(s, b) + k]
  BY <1>1 DEF At
<1> DEFINE r == rx[s]
           m == Message(s)
           w == Wanted(r)
           t == r.cbuf \o SubSeq(r.rbuf, 1, w)
           c == Consumed(s, b)
           e == o[Len(got[s])]
<1>3. /\ r.rstate = "Message" /\ Len(r.cbuf) + w < r.clen /\ UNCHANGED <<wire, sent, got>>
      /\ rx' = [rx EXCEPT ![s] = [Skip(r, w) EXCEPT !.cbuf = @ \o SubSeq(r.rbuf, 1, w)]]
  BY DEF GotPart, InState
<1>4. /\ w \in 0 .. Len(r.rbuf) /\ Begun(s) /\ r.clen = Len(m)
      /\ t \in Seq(Byte) /\ Len(t) = Len(r.cbuf) + w
      /\ \A k \in 1 .. Len(t) : t[k] = m[k]
      /\ c + w = e + 1 + Digits(Len(m)) + Len(t)
  BY <1>2, <1>3, BodySoFar
<1>5. /\ Skip(r, w) \in RxState /\ Skip(r, w).rstate = r.rstate /\ Skip(r, w).clen = r.clen
      /\ Skip(r, w).cbuf = r.cbuf /\ Skip(r, w).rbuf = SubSeq(r.rbuf, w + 1, Len(r.rbuf))
  BY <1>4, RxFacts, Skipped
<1>6. rx'[s] = [Skip(r, w) EXCEPT !.cbuf = t]
  BY <1>3, <1>5 DEF Types, RxState
<1> HIDE DEF w, t
<1>7. /\ rx'[s].rstate = "Message" /\ rx'[s].clen = Len(m) /\ rx'[s].cbuf = t
      /\ rx'[s].rbuf = SubSeq(r.rbuf, w + 1, Len(r.rbuf))
  <2> DEFINE y == Skip(r, w)
  <2>1. y \in RxState
    BY <1>5
  <2> HIDE DEF y, r
  <2>2. rx'[s] = [y EXCEPT !.cbuf = t]
    BY <1>6 DEF y, r
  <2>3. rx'[s].rstate = y.rstate /\ rx'[s].clen = y.clen /\ rx'[s].cbuf = t /\ rx'[s].rbuf = y.rbuf
    BY <2>1, <2>2 DEF RxState
  <2> QED
    BY <1>3, <1>4, <1>5, <2>3 DEF y, r
<1>8. Ahead(s, b)' /\ Consumed(s, b)' = c + w
  <2>1. Ahead(s, b) /\ wire'[s] = wire[s]
    BY <1>2, <1>3 DEF Placed
  <2> QED
    BY <1>4, <1>7, <2>1, Advances
<1>9. (Begun(s)' <=> Begun(s)) /\ Message(s)' = m /\ o[Len(got[s])]' = e
  BY <1>3 DEF Begun, Message
<1>10. Len(t) < Len(m)
  BY <1>3, <1>4
<1> HIDE DEF m, e
<1>11. Within(s, Consumed(s, b), o[Len(got[s])])'
  BY <1>4, <1>7, <1>8, <1>9, <1>10 DEF Within
<1>12. Placed(s, b, o)'
  BY <1>8, <1>11 DEF Placed
<1> QED
  BY <1>2, <1>3, <1>12 DEF Framed

(* A complete control message. *)
LEMMA ControlFrames ==
    ASSUME Types, NEW s \in Side, Framed(s), Histories, GotControl(s)
    PROVE  Framed(s)'
<1>1. PICK b \in Seq(Byte) : \E o : At(s, b, o)
  BY Position
<1>2. PICK o :
             /\ Encodes(b, sent[s], o) /\ Placed(s, b, o)
             /\ Len(b) \in Nat /\ Consumed(s, b) \in Nat
             /\ Consumed(s, b) + Len(rx[s].rbuf) <= Len(b)
             /\ \A k \in 1 .. Len(rx[s].rbuf) : rx[s].rbuf[k] = b[Consumed(s, b) + k]
  BY <1>1 DEF At
<1> DEFINE r == rx[s]
           m == Message(s)
           w == Wanted(r)
           t == r.cbuf \o SubSeq(r.rbuf, 1, w)
           c == Consumed(s, b)
           G == Len(got[s])
           e == o[G]
           it == <<"Control", t>>
<1>3. /\ r.rstate = "Message" /\ Len(t) = r.clen /\ UNCHANGED <<wire, sent>>
      /\ rx' = [rx EXCEPT ![s] = [Skip(r, w) EXCEPT !.rstate = "Normal", !.cbuf = <<>>]]
      /\ got' = [got EXCEPT ![s] = Append(@, it)]
  BY DEF GotControl, InState
<1>4. /\ w \in 0 .. Len(r.rbuf) /\ Begun(s) /\ r.clen = Len(m) /\ t \in Seq(Byte)
      /\ \A k \in 1 .. Len(t) : t[k] = m[k]
      /\ c + w = e + 1 + Digits(Len(m)) + Len(t)
  BY <1>2, <1>3, BodySoFar
<1>5. /\ m \in Msg /\ G + 1 <= Len(sent[s])
      /\ sent[s][G + 1] = <<"Control", m>> /\ sent[s][G + 1] \in Item
      /\ o[G + 1] = e + 1 + Digits(Len(m)) + Len(m)
  BY <1>2, <1>4, Current, SMTT(30)
<1>6. t = m
  <2>1. m \in Seq(Byte) /\ Len(t) = Len(m)
    BY <1>3, <1>4, <1>5, Constants
  <2> HIDE DEF t, m
  <2> QED
    BY <1>4, <2>1, SeqEqual
<1>7. it = sent[s][G + 1] /\ it \in Item /\ c + w = o[G + 1]
  BY <1>3, <1>4, <1>5, <1>6
<1>8. /\ Skip(r, w) \in RxState /\ Skip(r, w).rbuf = SubSeq(r.rbuf, w + 1, Len(r.rbuf))
  BY <1>4, RxFacts, Skipped
<1>9. rx'[s].rstate = "Normal" /\ rx'[s].rbuf = SubSeq(r.rbuf, w + 1, Len(r.rbuf))
  <2>1. rx'[s] = [Skip(r, w) EXCEPT !.rstate = "Normal", !.cbuf = <<>>]
    BY <1>3 DEF Types
  <2> HIDE DEF w
  <2> QED
    BY <1>8, <2>1 DEF RxState
<1> HIDE DEF w, t, it
<1>10. Ahead(s, b)' /\ Consumed(s, b)' = c + w
  <2>1. Ahead(s, b) /\ wire'[s] = wire[s]
    BY <1>2, <1>3 DEF Placed
  <2> QED
    BY <1>4, <1>9, <2>1, Advances
<1>11. got[s] \in Seq(Item) /\ sent[s] \in Seq(Item) /\ G \in Nat /\ Len(sent[s]) \in Nat
  BY HistoryFacts
<1>12. /\ got'[s] = Append(got[s], it) /\ got'[s] \in Seq(Item) /\ Len(got'[s]) = G + 1
       /\ got'[s][G + 1] = it /\ \A i \in 1 .. G : got'[s][i] = got[s][i]
  <2>1. got'[s] = Append(got[s], it)
    BY <1>3 DEF Histories
  <2> QED
    BY <1>7, <1>11, <2>1, AppendProperties
<1>13. \A i \in 1 .. G + 1 : got'[s][i] = sent[s][i]
  <2> SUFFICES ASSUME NEW i \in 1 .. G + 1 PROVE got'[s][i] = sent[s][i]
    OBVIOUS
  <2>1. CASE i = G + 1
    BY <1>7, <1>12, <2>1
  <2>2. CASE i # G + 1
    <3>1. i \in 1 .. G
      BY <1>11, <2>2
    <3>2. got[s][i] = sent[s][i]
      BY <3>1 DEF Framed
    <3> QED
      BY <1>12, <3>1, <3>2
  <2> QED
    BY <2>1, <2>2
<1>14. Within(s, Consumed(s, b), o[Len(got[s])])'
  BY <1>7, <1>9, <1>10, <1>12 DEF Within
<1>15. Placed(s, b, o)'
  BY <1>10, <1>14 DEF Placed
<1>16. Len(got'[s]) <= Len(sent'[s]) /\ \A i \in 1 .. Len(got'[s]) : got'[s][i] = sent'[s][i]
  BY <1>3, <1>5, <1>12, <1>13
<1> QED
  BY <1>2, <1>3, <1>11, <1>12, <1>15, <1>16 DEF Framed


LEMMA OtherSide ==
    \A s \in Side : /\ Other(s) \in Side /\ Other(Other(s)) = s
                    /\ \A o \in Side : o = s \/ o = Other(s)
  BY DEF Other, Side

(* What runs at a side changes, though not if sendData() runs there, and   *)
(* nothing starts before the side does.                                    *)
Moves(s) ==
    /\ \E v : slot' = [slot EXCEPT ![s] = v]
    /\ slot[s] # "escape" /\ (slot[s] = "idle" => Alive(s))

LEMMA SlotMoves ==
    ASSUME Types, [Next]_vars
    PROVE  /\ cli' \in {cli, "running", "exited"}
           /\ slot' = slot \/ \E s \in Side : Moves(s)
<1> DEFINE P == /\ cli' \in {cli, "running", "exited"}
                /\ slot' = slot \/ \E s \in Side : Moves(s)
<1>0. "cli" \in Side /\ "srv" \in Side
  BY DEF Side
<1>1. CASE Start \/ ChildExit \/ ChildDone \/ Deleted \/ UNCHANGED vars
  BY <1>1 DEF Start, ChildExit, ChildDone, Deleted, vars
<1>2. ASSUME NEW s \in Side,
             Fill(s) \/ ReadyWrite(s) \/ GotMarker(s) \/ GotPart(s)
      PROVE  P
  BY <1>2 DEF Fill, ReadyWrite, GotMarker, GotPart
<1>3. ASSUME NEW s \in Side, ReadyRead(s) \/ LoopTop(s) \/ NothingYet(s) PROVE P
  <2>1. Moves(s)
    BY <1>3 DEF ReadyRead, LoopTop, NothingYet, Moves
  <2>2. cli' \in {cli, "exited"}
    BY <1>3 DEF ReadyRead, LoopTop, NothingYet
  <2> QED
    BY <2>1, <2>2
<1>4. ASSUME NEW s \in Side, NEW d, DeliverData(s, d), slot[s] = "receive" PROVE P
  <2>1. Moves(s)
    BY <1>4 DEF DeliverData, WriteFails, Moves
  <2>2. cli' \in {cli, "exited"}
    BY <1>4 DEF DeliverData, WriteFails
  <2> QED
    BY <2>1, <2>2
<1>5. ASSUME NEW s \in Side, GotData(s) PROVE P
  BY <1>4, <1>5 DEF GotData, InState
<1>6. ASSUME NEW s \in Side, GotLength(s) PROVE P
  <2>1. slot[s] = "receive"
    BY <1>6 DEF GotLength, InState
  <2>2. CASE DeliverData(s, <<ControlMarker>>)
    BY <1>4, <2>1, <2>2
  <2>3. CASE cli' = cli /\ (slot' = slot \/ slot' = [slot EXCEPT ![s] = "idle"])
    BY <2>1, <2>3 DEF Moves
  <2> QED
    BY <1>6, <2>2, <2>3 DEF GotLength
<1>7. ASSUME NEW s \in Side, GotControl(s) PROVE P
  <2>1. Moves(s)
    BY <1>7 DEF GotControl, InState, Moves
  <2>2. cli' \in {cli, "exited"}
    BY <1>7 DEF GotControl, SrvControl, CliControl
  <2> QED
    BY <2>1, <2>2
<1>8. ASSUME NEW n \in 1 .. ReadMax, CliInput(n) PROVE P
  <2>1. slot["cli"] = "idle" /\ Alive("cli") /\ cli' = cli
    BY <1>8 DEF CliInput, Alive
  <2>2. slot' = slot \/ slot' = [slot EXCEPT !["cli"] = "escape"]
    BY <1>8 DEF CliInput, Forward, SendData
  <2> QED
    BY <1>0, <2>1, <2>2 DEF Moves
<1>9. ASSUME NEW n \in 1 .. ReadMax, ChildOutput(n) PROVE P
  <2>1. slot["srv"] = "idle" /\ Alive("srv") /\ cli' = cli
    BY <1>9 DEF ChildOutput, Alive
  <2>2. slot' = slot \/ slot' = [slot EXCEPT !["srv"] = "escape"]
    BY <1>9 DEF ChildOutput, Forward, SendData
  <2> QED
    BY <1>0, <2>1, <2>2 DEF Moves
<1> HIDE DEF P
<1>10. P
  BY <1>1, <1>2, <1>3, <1>5, <1>6, <1>7, <1>8, <1>9 DEF Next, P
<1> QED
  BY <1>10 DEF P

(* sendData() does not return once it has found a marker. *)
LEMMA EscapeStays ==
    ASSUME Types, NEW x \in Side, slot[x] = "escape", [Next]_vars
    PROVE  slot'[x] = "escape"
<1>1. ASSUME NEW s \in Side, Moves(s) PROVE slot'[x] = "escape"
  BY <1>1 DEF Moves, Types
<1> QED
  BY <1>1, SlotMoves

LEMMA NotStartedStep ==
    ASSUME Types, NotStarted, [Next]_vars
    PROVE  NotStarted'
<1> SUFFICES ASSUME cli' = "new" PROVE slot'["cli"] = "idle"
  BY DEF NotStarted
<1>1. cli = "new" /\ slot["cli"] = "idle" /\ "cli" \in Side
  BY SlotMoves DEF NotStarted, Side
<1>2. ASSUME NEW s \in Side, Moves(s) PROVE slot'["cli"] = "idle"
  <2>1. s # "cli"
    BY <1>1, <1>2 DEF Moves, Alive
  <2> QED
    BY <1>1, <1>2, <2>1 DEF Moves, Types
<1> QED
  BY <1>1, <1>2, SlotMoves

LEMMA SameLine ==
    ASSUME NEW s \in Side, Line(s),
           rx'[s] = rx[s], wire'[s] = wire[s], sent'[s] = sent[s], got'[s] = got[s]
    PROVE  Line(s)'
<1>1. CASE Framed(s)
  BY <1>1, SameFrames DEF Line
<1>2. CASE Beyond(s)
  BY <1>2 DEF Line, Beyond, MarkerSent
<1> QED
  BY <1>1, <1>2 DEF Line

(* What comes after the marker does not matter. *)
LEMMA BeyondGrows ==
    ASSUME Histories, NEW s \in Side, Beyond(s), sent' = sent,
           NEW h \in Seq(Received), got'[s] = got[s] \o h
    PROVE  Beyond(s)'
<1> DEFINE g == got[s]
           G == Len(g)
           S == Len(sent[s])
<1>1. g \in Seq(Received) /\ G \in Nat /\ Len(h) \in Nat /\ S \in Nat /\ S <= G
  BY LenProperties DEF Histories, Beyond
<1>2. /\ Len(g \o h) = G + Len(h)
      /\ \A i \in 1 .. G + Len(h) : (g \o h)[i] = IF i <= G THEN g[i] ELSE h[i - G]
  <2>1. g \in Seq(Received)
    BY <1>1
  <2> HIDE DEF g
  <2> QED
    BY <2>1, ConcatProperties
<1>3. \A i \in 1 .. S : g[i] = sent[s][i]
  BY DEF Beyond
<1> HIDE DEF g, G, S
<1>4. S <= G + Len(h) /\ \A i \in 1 .. S : i \in 1 .. G + Len(h) /\ i <= G
  BY <1>1
<1>5. \A i \in 1 .. S : (g \o h)[i] = sent[s][i]
  BY <1>2, <1>3, <1>4
<1> QED
  BY <1>2, <1>4, <1>5 DEF Beyond, MarkerSent, g, S

LEMMA MarkedKept ==
    ASSUME Types, [Next]_vars, NEW s \in Side, Marked(s), sent'[s] = sent[s]
    PROVE  Marked(s)'
<1>1. Other(s) \in Side
  BY OtherSide
<1>2. slot[Other(s)] = "escape" => slot'[Other(s)] = "escape"
  BY <1>1, EscapeStays
<1> QED
  BY <1>2 DEF Marked

(* A receiving step at side s leaves the other side, and what was sent, as *)
(* they are.                                                               *)
LEMMA OnlySide ==
    ASSUME Types, Histories, [Next]_vars, \A o \in Side : Line(o) /\ Marked(o),
           NEW s \in Side, Line(s)', sent' = sent,
           \E r : rx' = [rx EXCEPT ![s] = r], \E v : wire' = [wire EXCEPT ![s] = v],
           \E h : got' = [got EXCEPT ![s] = h]
    PROVE  sent' \in [Side -> Seq(Item)] /\ \A o \in Side : Line(o)' /\ Marked(o)'
<1>1. ASSUME NEW o \in Side, o # s PROVE Line(o)'
  <2>1. rx'[o] = rx[o] /\ wire'[o] = wire[o] /\ got'[o] = got[o] /\ sent'[o] = sent[o]
    BY <1>1 DEF Types, Histories
  <2> QED
    BY <2>1, SameLine
<1>2. \A o \in Side : Marked(o)'
  BY MarkedKept
<1> QED
  BY <1>1, <1>2 DEF Histories

(* No side is sent anything after a marker. *)
LEMMA Unsent ==
    ASSUME Histories, NEW s \in Side, slot[s] = "idle", Line(Other(s)), Marked(Other(s))
    PROVE  /\ Framed(Other(s))
           /\ \A i \in 1 .. Len(sent[Other(s)]) : sent[Other(s)][i] # Marker
<1> DEFINE t == Other(s)
<1>1. t \in Side /\ Other(t) = s /\ sent[t] \in Seq(Item) /\ Len(sent[t]) \in Nat
  BY OtherSide, LenProperties DEF Histories
<1> HIDE DEF t
<1>2. \A i \in 1 .. Len(sent[t]) : sent[t][i] # Marker
  BY <1>1 DEF Marked, t
<1>3. ~Beyond(t)
  <2> SUFFICES ASSUME MarkerSent(t) PROVE FALSE
    BY DEF Beyond
  <2>1. sent[t] # <<>> /\ sent[t][Len(sent[t])] = Marker
    BY DEF MarkerSent, Last
  <2>2. Len(sent[t]) \in 1 .. Len(sent[t])
    BY <1>1, <2>1, EmptySeq
  <2> QED
    BY <1>2, <2>1, <2>2
<1> QED
  BY <1>2, <1>3 DEF Line, t

LEMMA OnlySends ==
    ASSUME Types, Histories, [Next]_vars, \A o \in Side : Line(o) /\ Marked(o),
           NEW s \in Side, slot[s] = "idle",
           NEW d \in Seq(Byte), NEW more \in Seq(Item), \E p : Encodes(d, more, p),
           \A i \in 1 .. Len(more) : more[i] = Marker => i = Len(more) /\ slot'[s] = "escape",
           wire' = [wire EXCEPT ![Other(s)] = @ \o d],
           sent' = [sent EXCEPT ![Other(s)] = @ \o more], UNCHANGED <<rx, got>>
    PROVE  sent' \in [Side -> Seq(Item)] /\ \A o \in Side : Line(o)' /\ Marked(o)'
<1> DEFINE t == Other(s)
<1>1. PICK p : Encodes(d, more, p)
  OBVIOUS
<1>2. t \in Side /\ Other(t) = s
  BY OtherSide
<1>3. Framed(t) /\ \A i \in 1 .. Len(sent[t]) : sent[t][i] # Marker
  BY <1>2, Unsent
<1> HIDE DEF t
<1>4. wire'[t] = wire[t] \o d /\ sent'[t] = sent[t] \o more /\ rx'[t] = rx[t] /\ got'[t] = got[t]
  BY <1>2 DEF Types, Histories, t
<1>5. Framed(t)'
  BY <1>1, <1>2, <1>3, <1>4, SendsFrames
<1>6. ASSUME NEW o \in Side, o # t PROVE Line(o)' /\ Marked(o)'
  <2>1. rx'[o] = rx[o] /\ wire'[o] = wire[o] /\ got'[o] = got[o] /\ sent'[o] = sent[o]
    BY <1>6 DEF Types, Histories, t
  <2> QED
    BY <2>1, SameLine, MarkedKept
<1>7. sent'[t] \in Seq(Item)
  BY <1>5 DEF Framed
<1>8. sent' \in [Side -> Seq(Item)]
  BY <1>7 DEF Histories, t
<1>9. Marked(t)'
  <2> DEFINE q == sent[t]
             S == Len(q)
             K == Len(more)
  <2>1. q \in Seq(Item) /\ S \in Nat /\ K \in Nat
    BY <1>2, LenProperties DEF Histories
  <2>2. \A i \in 1 .. S : q[i] # Marker
    BY <1>3
  <2>3. sent'[t] = q \o more
    BY <1>4
  <2>6. \A j \in 1 .. K : more[j] = Marker => j = K /\ slot'[s] = "escape"
    OBVIOUS
  <2> HIDE DEF q
  <2>4. /\ Len(q \o more) = S + K
        /\ \A i \in 1 .. S + K : (q \o more)[i] = IF i <= S THEN q[i] ELSE more[i - S]
    BY <2>1, ConcatProperties
  <2> HIDE DEF S, K
  <2>5. ASSUME NEW i \in 1 .. S + K, (q \o more)[i] = Marker
        PROVE  i = S + K /\ slot'[s] = "escape"
    <3>1. ~(i <= S)
      <4>1. i <= S => i \in 1 .. S
        BY <2>1
      <4> QED
        BY <2>2, <2>4, <2>5, <4>1
    <3>2. i - S \in 1 .. K /\ more[i - S] = Marker
      BY <2>1, <2>4, <2>5, <3>1
    <3>3. i - S = K /\ slot'[s] = "escape"
      BY <2>6, <3>2, Zenon
    <3>4. i = S + K
      BY <2>1, <3>3
    <3> QED
      BY <3>3, <3>4, Zenon
  <2> QED
    BY <1>2, <2>3, <2>4, <2>5 DEF Marked
<1> QED
  BY <1>5, <1>6, <1>8, <1>9 DEF Line

(* Of what sendData() sends, only the last can be a marker. *)
LEMMA PlainItems ==
    ASSUME NEW d \in Seq(Char)
    PROVE  \A i \in 1 .. Len(DataItems(d)) : DataItems(d)[i] # Marker
<1>1. Len(d) \in Nat /\ DOMAIN d = 1 .. Len(d) /\ \A i \in 1 .. Len(d) : d[i] # ControlMarker
  BY LenProperties, ElementOfSeq DEF Char
<1>2. Len(DataItems(d)) = Len(d)
  BY EncodesData
<1>3. \A i \in 1 .. Len(d) : DataItems(d)[i] = <<"Data", d[i]>>
  BY <1>1 DEF DataItems
<1> QED
  BY <1>1, <1>2, <1>3 DEF Marker

LEMMA MarkerLast ==
    ASSUME NEW d \in Seq(Char)
    PROVE  \A i \in 1 .. Len(DataItems(d) \o <<Marker>>) :
              (DataItems(d) \o <<Marker>>)[i] = Marker => i = Len(DataItems(d) \o <<Marker>>)
<1> DEFINE q == DataItems(d)
           K == Len(q)
<1>1. q \in Seq(Item) /\ \A i \in 1 .. K : q[i] # Marker
  BY EncodesData, PlainItems
<1>2. <<Marker>> \in Seq(Item) /\ Len(<<Marker>>) = 1
  BY EncodesMarker
<1> HIDE DEF q
<1>3. /\ Len(q \o <<Marker>>) = K + Len(<<Marker>>)
      /\ \A i \in 1 .. K + Len(<<Marker>>) :
            (q \o <<Marker>>)[i] = IF i <= K THEN q[i] ELSE <<Marker>>[i - K]
  BY <1>1, <1>2, ConcatProperties
<1>4. K \in Nat
  BY <1>1, LenProperties
<1> HIDE DEF K
<1>5. ASSUME NEW i \in 1 .. K + 1, (q \o <<Marker>>)[i] = Marker PROVE i = K + 1
  <2>1. CASE i <= K
    <3>1. i \in 1 .. K
      BY <1>4, <2>1
    <3>2. (q \o <<Marker>>)[i] = q[i]
      BY <1>2, <1>3, <2>1
    <3> QED
      BY <1>1, <1>5, <3>1, <3>2
  <2>2. CASE ~(i <= K)
    BY <1>4, <2>2
  <2> QED
    BY <2>1, <2>2
<1> QED
  BY <1>2, <1>3, <1>5 DEF q

(* A side that receives adds items to what it has. *)
LEMMA GotMore ==
    ASSUME Types, Histories, NEW s \in Side,
           Fill(s) \/ GotMarker(s) \/ GotData(s) \/ GotLength(s) \/ GotPart(s) \/ GotControl(s)
    PROVE  /\ \E h : got' = [got EXCEPT ![s] = h]
           /\ \E h \in Seq(Received) : got'[s] = got[s] \o h
<1>1. got[s] \in Seq(Received)
  BY DEF Histories
<1>2. CASE got' = got
  <2>1. got = [got EXCEPT ![s] = got[s]] /\ got[s] \o <<>> = got[s] /\ <<>> \in Seq(Received)
    BY <1>1, ConcatEmptySeq DEF Histories
  <2> QED
    BY <1>2, <2>1
<1>3. ASSUME NEW d \in Seq(Byte), DeliverData(s, d)
      PROVE  /\ \E h : got' = [got EXCEPT ![s] = h]
             /\ \E h \in Seq(Received) : got'[s] = got[s] \o h
  <2>1. got' = [got EXCEPT ![s] = got[s] \o DataItems(d)]
    BY <1>3 DEF DeliverData
  <2>2. DataItems(d) \in Seq(Received)
    <3>1. Len(d) \in Nat /\ DOMAIN d = 1 .. Len(d) /\ \A i \in 1 .. Len(d) : d[i] \in Byte
      BY LenProperties, ElementOfSeq
    <3>2. DataItems(d) \in [1 .. Len(d) -> Received]
      BY <3>1 DEF DataItems, Received
    <3> QED
      BY <3>1, <3>2, SeqDef
  <2>3. got'[s] = got[s] \o DataItems(d)
    BY <2>1 DEF Histories
  <2> QED
    BY <2>1, <2>2, <2>3
<1>4. CASE GotControl(s)
  <2> DEFINE r == rx[s]
             t == r.cbuf \o SubSeq(r.rbuf, 1, Wanted(r))
             it == <<"Control", t>>
  <2>1. got' = [got EXCEPT ![s] = Append(got[s], it)]
    BY <1>4 DEF GotControl
  <2>2. t \in Seq(Byte)
    <3>1. r.cbuf \in Seq(Byte) /\ r.rbuf \in Seq(Byte)
      BY RxFacts
    <3>2. Wanted(r) \in 0 .. Len(r.rbuf)
      BY <1>4, WantedRange
    <3>3. SubSeq(r.rbuf, 1, Wanted(r)) \in Seq(Byte)
      BY <3>1, <3>2, Cut
    <3> QED
      BY <3>1, <3>3, ConcatProperties
  <2>3. it \in Received
    BY <2>2 DEF Received
  <2> HIDE DEF t, it
  <2>4. <<it>> \in Seq(Received) /\ Append(got[s], it) = got[s] \o <<it>>
    BY <1>1, <2>3, AppendIsConcat
  <2>5. got'[s] = got[s] \o <<it>>
    BY <2>1, <2>4 DEF Histories
  <2> QED
    BY <2>1, <2>4, <2>5
<1>5. ASSUME GotData(s) PROVE \E d \in Seq(Byte) : DeliverData(s, d)
  <2>1. Plain(rx[s].rbuf) \in Seq(Byte)
    BY RxFacts, PlainPrefix, SeqMonotonic DEF Char
  <2> QED
    BY <1>5, <2>1 DEF GotData
<1>6. ASSUME GotLength(s) PROVE got' = got \/ \E d \in Seq(Byte) : DeliverData(s, d)
  <2>1. <<ControlMarker>> \in Seq(Byte)
    BY Constants
  <2> QED
    BY <1>6, <2>1 DEF GotLength
<1> QED
  BY <1>2, <1>3, <1>4, <1>5, <1>6 DEF Fill, GotMarker, GotPart

LEMMA OneAndOne ==
    ASSUME NEW x, NEW y
    PROVE  <<x>> \o <<y>> = <<x, y>>
<1> DEFINE S == {x, y}
<1>1. <<x>> \in Seq(S) /\ <<y>> \in Seq(S) /\ <<x, y>> \in Seq(S)
  OBVIOUS
<1>2. Len(<<x>>) = 1 /\ Len(<<y>>) = 1 /\ Len(<<x, y>>) = 2 /\ <<x>>[1] = x /\ <<y>>[1] = y
      /\ <<x, y>>[1] = x /\ <<x, y>>[2] = y
  OBVIOUS
<1> HIDE DEF S
<1>3. PICK a \in Seq(S) : a = <<x>>
  BY <1>1
<1>4. PICK b \in Seq(S) : b = <<y>>
  BY <1>1
<1>5. PICK c \in Seq(S) : c = <<x, y>>
  BY <1>1
<1>6. Len(a) = 1 /\ Len(b) = 1 /\ Len(c) = 2 /\ a[1] = x /\ b[1] = y /\ c[1] = x /\ c[2] = y
  BY <1>2, <1>3, <1>4, <1>5, Zenon
<1>7. a \o b \in Seq(S) /\ Len(a \o b) = 2 /\ (a \o b)[1] = a[1] /\ (a \o b)[2] = b[1]
  <2>1. /\ a \o b \in Seq(S) /\ Len(a \o b) = Len(a) + Len(b)
        /\ \A i \in 1 .. Len(a) + Len(b) : (a \o b)[i] = IF i <= Len(a) THEN a[i] ELSE b[i - Len(a)]
    BY ConcatProperties
  <2> QED
    BY <1>6, <2>1
<1>8. a \o b = c
  BY <1>6, <1>7, SeqEqual
<1> QED
  BY <1>3, <1>4, <1>5, <1>8, Zenon

LEMMA FramesInit ==
    ASSUME Init
    PROVE  FramesInv
<1>1. ForwardInv /\ NotStarted
  BY ForwardInit DEF Init, NotStarted, Side
<1>2. Len(<<>>) = 0 /\ <<>> \in Seq(Item) /\ <<>> \in Seq(Byte)
  OBVIOUS
<1>3. Histories /\ \A s \in Side : Marked(s)
  <2>1. sent \in [Side -> Seq(Item)] /\ \A s \in Side : Len(sent[s]) = 0
    BY <1>2 DEF Init
  <2>2. got \in [Side -> Seq(Received)]
    BY <1>1 DEF ForwardInv
  <2> QED
    BY <2>1, <2>2 DEF Histories, Marked
<1>4. ASSUME NEW s \in Side PROVE Framed(s)
  <2>1. /\ rx[s].rbuf = <<>> /\ rx[s].rstate = "Normal" /\ wire[s] = <<>>
        /\ sent[s] = <<>> /\ got[s] = <<>>
    BY DEF Init
  <2> DEFINE o == [i \in 0 .. 0 |-> 0]
  <2>2. o \in [0 .. 0 -> 0 .. 0] /\ o[0] = 0
    OBVIOUS
  <2> HIDE DEF o
  <2>3. Encodes(<<>>, sent[s], o)
    BY <1>2, <2>1, <2>2 DEF Encodes
  <2>4. Consumed(s, <<>>) = 0
    <3>1. Len(rx[s].rbuf) = 0 /\ Len(wire[s]) = 0
      BY <1>2, <2>1
    <3>2. PICK k : k = Len(rx[s].rbuf)
      OBVIOUS
    <3>3. PICK l : l = Len(wire[s])
      OBVIOUS
    <3>4. PICK j : j = Len(<<>>)
      OBVIOUS
    <3>5. Consumed(s, <<>>) = j - k - l
      BY <3>2, <3>3, <3>4, Zenon DEF Consumed
    <3>6. j = 0 /\ k = 0 /\ l = 0
      BY <1>2, <3>1, <3>2, <3>3, <3>4, Zenon
    <3> QED
      BY <3>5, <3>6
  <2>5. Ahead(s, <<>>)
    BY <1>2, <2>1, <2>4 DEF Ahead
  <2>6. Placed(s, <<>>, o)
    BY <1>2, <2>1, <2>2, <2>4, <2>5 DEF Placed, Within
  <2>7. /\ sent[s] \in Seq(Item) /\ got[s] \in Seq(Item) /\ Len(got[s]) <= Len(sent[s])
        /\ \A i \in 1 .. Len(got[s]) : got[s][i] = sent[s][i]
    BY <1>2, <2>1
  <2> QED
    BY <1>2, <2>3, <2>6, <2>7 DEF Framed
<1> QED
  BY <1>1, <1>3, <1>4 DEF FramesInv, Line

LEMMA FramesStep ==
    ASSUME FramesInv, [Next]_vars
    PROVE  FramesInv'
<1>1. /\ Types /\ Histories /\ NotStarted /\ \A o \in Side : Line(o) /\ Marked(o)
      /\ ForwardInv'
  BY ForwardStep DEF FramesInv, ForwardInv, BacklogInv
<1>2. "cli" \in Side /\ "srv" \in Side
  BY DEF Side
<1> DEFINE Kept == sent' \in [Side -> Seq(Item)] /\ \A o \in Side : Line(o)' /\ Marked(o)'
<1>3. SUFFICES Kept
  BY <1>1, NotStartedStep DEF FramesInv, ForwardInv, Histories
<1>4. CASE UNCHANGED <<rx, wire, sent, got>>
  <2>1. ASSUME NEW o \in Side PROVE Line(o)' /\ Marked(o)'
    BY <1>1, <1>4, SameLine, MarkedKept
  <2> QED
    BY <1>1, <1>4, <2>1 DEF Histories
<1>5. CASE Start
  <2>1. UNCHANGED <<rx, got>> /\ slot["cli"] = "idle"
    BY <1>1, <1>5 DEF Start, NotStarted
  <2>2. ASSUME NEW m \in Msg
        PROVE  /\ << <<"Control", m>> >> \in Seq(Item) /\ ControlBytes(m) \in Seq(Byte)
               /\ \E p : Encodes(ControlBytes(m), << <<"Control", m>> >>, p)
    BY EncodesControl
  <2>3. CASE ~IsTty
    <3>1. SendControl("cli", <<ShellMsg>>)
      BY <1>5, <2>3 DEF Start
    <3>2. /\ wire' = [wire EXCEPT ![Other("cli")] = @ \o ControlBytes(ShellMsg)]
          /\ sent' = [sent EXCEPT ![Other("cli")] = @ \o << <<"Control", ShellMsg>> >>]
      BY <1>2, <3>1, SendOne
    <3>3. \A i \in 1 .. Len(<< <<"Control", ShellMsg>> >>) : << <<"Control", ShellMsg>> >>[i] # Marker
      BY DEF Marker
    <3> QED
      BY <1>1, <1>2, <2>1, <2>2, <3>2, <3>3, OnlySends DEF Msg
  <2>4. CASE IsTty
    <3> DEFINE a == ControlBytes(TerminalMsg)
               b == ControlBytes(ShellMsg)
               x == <<"Control", TerminalMsg>>
               y == <<"Control", ShellMsg>>
    <3>1. SendControl("cli", <<TerminalMsg, ShellMsg>>)
      BY <1>5, <2>4 DEF Start
    <3>0. \A m, n : SendControl("cli", <<m, n>>) =>
            /\ wire' = [wire EXCEPT ![Other("cli")] = @ \o (ControlBytes(m) \o ControlBytes(n))]
            /\ sent' = [sent EXCEPT ![Other("cli")] = @ \o << <<"Control", m>>, <<"Control", n>> >>]
      BY <1>2, SendTwo
    <3>2. /\ wire' = [wire EXCEPT ![Other("cli")] = @ \o (a \o b)]
          /\ sent' = [sent EXCEPT ![Other("cli")] = @ \o <<x, y>>]
      BY <3>0, <3>1, Zenon
    <3>3. <<x>> \in Seq(Item) /\ <<y>> \in Seq(Item) /\ a \in Seq(Byte) /\ b \in Seq(Byte)
      BY <2>2 DEF Msg
    <3>4. PICK p : Encodes(a, <<x>>, p)
      BY <2>2 DEF Msg
    <3>5. PICK q : Encodes(b, <<y>>, q)
      BY <2>2 DEF Msg
    <3>11. x # Marker /\ y # Marker
      BY DEF Marker
    <3> HIDE DEF a, b, x, y
    <3>6. <<x>> \o <<y>> = <<x, y>>
      BY OneAndOne
    <3>7. \E z : Encodes(a \o b, <<x>> \o <<y>>, z)
      BY <3>3, <3>4, <3>5, EncodesBoth
    <3>8. a \o b \in Seq(Byte) /\ <<x>> \o <<y>> \in Seq(Item)
      BY <3>3, ConcatProperties
    <3>9. \E z : Encodes(a \o b, <<x, y>>, z)
      BY <3>6, <3>7
    <3>10. <<x, y>> \in Seq(Item)
      BY <3>6, <3>8
    <3>12. \A i \in 1 .. Len(<<x, y>>) : <<x, y>>[i] # Marker
      BY <3>11
    <3> QED
      BY <1>1, <1>2, <2>1, <3>2, <3>8, <3>9, <3>10, <3>12, OnlySends
  <2> QED
    BY <2>3, <2>4
<1>6. CASE ChildDone
  <2>1. UNCHANGED <<rx, got>> /\ slot["srv"] = "idle" /\ SendControl("srv", <<ExitMsg>>)
    BY <1>6 DEF ChildDone
  <2>2. /\ << <<"Control", ExitMsg>> >> \in Seq(Item) /\ ControlBytes(ExitMsg) \in Seq(Byte)
        /\ \E p : Encodes(ControlBytes(ExitMsg), << <<"Control", ExitMsg>> >>, p)
    BY EncodesControl DEF Msg
  <2>3. /\ wire' = [wire EXCEPT ![Other("srv")] = @ \o ControlBytes(ExitMsg)]
        /\ sent' = [sent EXCEPT ![Other("srv")] = @ \o << <<"Control", ExitMsg>> >>]
    BY <1>2, <2>1, SendOne
  <2>4. \A i \in 1 .. Len(<< <<"Control", ExitMsg>> >>) : << <<"Control", ExitMsg>> >>[i] # Marker
    BY DEF Marker
  <2> QED
    BY <1>1, <1>2, <2>1, <2>2, <2>3, <2>4, OnlySends
<1>7. ASSUME NEW s \in Side, NEW n \in 1 .. ReadMax, Forward(s, n), slot[s] = "idle",
             UNCHANGED <<rx, got>>
      PROVE  Kept
  <2> DEFINE d == SubSeq(rest[s], 1, n)
  <2>1. n \in Nat
    BY ShellAssumption
  <2>2. d \in Seq(Byte) /\ SendData(s, d)
    BY <1>1, <1>7, <2>1, Forwards DEF Forward
  <2> HIDE DEF d
  <2>3. CASE /\ NoMarker(d) /\ wire' = [wire EXCEPT ![Other(s)] = @ \o d]
             /\ sent' = [sent EXCEPT ![Other(s)] = @ \o DataItems(d)]
    <3>1. d \in Seq(Char)
      BY <2>2, <2>3, Unmarked
    <3>2. /\ DataItems(d) \in Seq(Item) /\ \E p : Encodes(d, DataItems(d), p)
          /\ \A i \in 1 .. Len(DataItems(d)) : DataItems(d)[i] # Marker
      BY <3>1, EncodesData, PlainItems
    <3> QED
      BY <1>1, <1>7, <2>2, <2>3, <3>2, OnlySends
  <2>4. CASE /\ wire' = [wire EXCEPT ![Other(s)] = @ \o (Plain(d) \o EscapedMarker)]
             /\ sent' = [sent EXCEPT ![Other(s)] = @ \o (DataItems(Plain(d)) \o <<Marker>>)]
             /\ slot' = [slot EXCEPT ![s] = "escape"]
    <3> DEFINE a == Plain(d)
               b == EscapedMarker
               x == DataItems(a)
               y == <<Marker>>
    <3>1. a \in Seq(Char)
      BY <2>2, PlainPrefix
    <3>2. /\ x \in Seq(Item) /\ a \in Seq(Byte) /\ y \in Seq(Item) /\ b \in Seq(Byte)
          /\ \A i \in 1 .. Len(x \o y) : (x \o y)[i] = Marker => i = Len(x \o y)
      BY <3>1, EncodesData, EncodesMarker, MarkerLast
    <3>3. PICK p : Encodes(a, x, p)
      BY <3>1, EncodesData
    <3>4. PICK q : Encodes(b, y, q)
      BY EncodesMarker
    <3>5. /\ wire' = [wire EXCEPT ![Other(s)] = @ \o (a \o b)]
          /\ sent' = [sent EXCEPT ![Other(s)] = @ \o (x \o y)] /\ slot'[s] = "escape"
      BY <1>1, <2>4 DEF Types
    <3> HIDE DEF a, b, x, y
    <3>6. \E z : Encodes(a \o b, x \o y, z)
      BY <3>2, <3>3, <3>4, EncodesBoth
    <3>7. a \o b \in Seq(Byte) /\ x \o y \in Seq(Item)
      BY <3>2, ConcatProperties
    <3> QED
      BY <1>1, <1>7, <3>2, <3>5, <3>6, <3>7, OnlySends
  <2> QED
    BY <2>2, <2>3, <2>4 DEF SendData
<1>8. ASSUME NEW s \in Side,
             Fill(s) \/ GotMarker(s) \/ GotData(s) \/ GotLength(s) \/ GotPart(s) \/ GotControl(s)
      PROVE  Kept
  <2>2. sent' = sent
    BY <1>8 DEF Fill, GotMarker, GotData, GotLength, GotPart, GotControl
  <2>3. \E v : wire' = [wire EXCEPT ![s] = v]
    <3>1. wire = [wire EXCEPT ![s] = wire[s]]
      BY <1>1 DEF Types
    <3>2. CASE Fill(s)
      BY <3>2 DEF Fill
    <3>3. CASE wire' = wire
      BY <3>1, <3>3
    <3> QED
      BY <1>8, <3>2, <3>3 DEF GotMarker, GotData, GotLength, GotPart, GotControl
  <2>4. \E r : rx' = [rx EXCEPT ![s] = r]
    <3>1. CASE Fill(s)
      <4>1. PICK n \in 1 .. MaxPiece : rx' = [rx EXCEPT ![s].rbuf = SubSeq(wire[s], 1, n)]
        BY <3>1 DEF Fill
      <4>2. rx' = [rx EXCEPT ![s] = [rx[s] EXCEPT !.rbuf = SubSeq(wire[s], 1, n)]]
        BY <4>1
      <4> QED
        BY <4>2
    <3>2. CASE GotMarker(s)
      BY <3>2 DEF GotMarker
    <3>3. CASE GotData(s)
      BY <3>3 DEF GotData
    <3>4. CASE GotLength(s)
      BY <3>4 DEF GotLength
    <3>5. CASE GotPart(s)
      BY <3>5 DEF GotPart
    <3>6. CASE GotControl(s)
      BY <3>6 DEF GotControl
    <3> QED
      BY <1>8, <3>1, <3>2, <3>3, <3>4, <3>5, <3>6
  <2>5. /\ \E h : got' = [got EXCEPT ![s] = h]
        /\ \E h \in Seq(Received) : got'[s] = got[s] \o h
    BY <1>1, <1>8, GotMore
  <2>1. Line(s)'
    <3>1. CASE Framed(s)
      BY <1>1, <1>8, <3>1, FillFrames, MarkerFrames, DataFrames, LengthFrames, PartFrames,
         ControlFrames DEF Line
    <3>2. CASE Beyond(s)
      BY <1>1, <2>2, <2>5, <3>2, BeyondGrows DEF Line
    <3> QED
      BY <1>1, <3>1, <3>2 DEF Line
  <2> QED
    BY <1>1, <2>1, <2>2, <2>3, <2>4, <2>5, OnlySide
<1>9. CASE ChildExit \/ Deleted
  BY <1>4, <1>9 DEF ChildExit, Deleted
<1>10. ASSUME NEW n \in 1 .. ReadMax, CliInput(n) \/ ChildOutput(n)
       PROVE  Kept
  BY <1>2, <1>7, <1>10 DEF CliInput, ChildOutput
<1>11. ASSUME NEW s \in Side, ReadyRead(s) \/ LoopTop(s) \/ NothingYet(s) \/ ReadyWrite(s)
       PROVE  Kept
  BY <1>4, <1>11 DEF ReadyRead, LoopTop, NothingYet, ReadyWrite
<1>12. CASE UNCHANGED vars
  BY <1>4, <1>12 DEF vars
<1> HIDE DEF Kept
<1> QED
  BY <1>5, <1>6, <1>8, <1>9, <1>10, <1>11, <1>12 DEF Next

LEMMA Agree ==
    ASSUME NEW S, NEW g \in Seq(S), NEW t \in Seq(S), Len(g) <= Len(t),
           \A i \in 1 .. Len(g) : g[i] = t[i]
    PROVE  IsPrefix(g, t)
<1> DEFINE n == Len(g)
<1>1. n \in 0 .. Len(g) /\ n \in 0 .. Len(t) /\ n \in Nat
  BY LenProperties
<1>2. \A i \in 1 .. n : g[i] = t[i]
  OBVIOUS
<1> HIDE DEF n
<1>3. /\ SubSeq(g, 1, n) \in Seq(S) /\ Len(SubSeq(g, 1, n)) = n
      /\ \A i \in 1 .. n : SubSeq(g, 1, n)[i] = g[i]
  BY <1>1, Cut
<1>4. /\ SubSeq(t, 1, n) \in Seq(S) /\ Len(SubSeq(t, 1, n)) = n
      /\ \A i \in 1 .. n : SubSeq(t, 1, n)[i] = t[i]
  BY <1>1, Cut
<1>5. SubSeq(g, 1, n) = SubSeq(t, 1, n)
  <2>1. \A i \in 1 .. n : SubSeq(g, 1, n)[i] = SubSeq(t, 1, n)[i]
    BY <1>2, <1>3, <1>4
  <2> QED
    BY <1>3, <1>4, <2>1, SeqEqual
<1> QED
  BY <1>5 DEF IsPrefix, n

(* However the stream cuts the bytes, and whatever bytes the messages      *)
(* hold, each side receives the data and the control messages the other    *)
(* side sent, whole and in order, up to and with the first marker among    *)
(* the data (sendData, sendControl, receive).  Nothing is said of what it  *)
(* receives after that: there sendData() does not return, and what the     *)
(* comments say of escapes is not so (MarkersEscaped).                     *)
THEOREM FramingIsTransparentToMarker == Spec => []FramesIntactToMarker
<1>1. FramesInv => FramesIntactToMarker
  <2> SUFFICES ASSUME FramesInv, NEW s \in Side
               PROVE  \/ IsPrefix(got[s], sent[s])
                      \/ MarkerSent(s) /\ IsPrefix(sent[s], got[s])
    BY DEF FramesIntactToMarker
  <2>1. CASE Framed(s)
    <3>1. /\ got[s] \in Seq(Item) /\ sent[s] \in Seq(Item) /\ Len(got[s]) <= Len(sent[s])
          /\ \A i \in 1 .. Len(got[s]) : got[s][i] = sent[s][i]
      BY <2>1 DEF Framed
    <3> QED
      BY <3>1, Agree
  <2>2. CASE Beyond(s)
    <3>1. /\ got[s] \in Seq(Received) /\ sent[s] \in Seq(Item)
      BY DEF FramesInv, Histories
    <3>2. Item \subseteq Received
      BY Constants DEF Item, Received
    <3>3. sent[s] \in Seq(Received)
      BY <3>1, <3>2, SeqMonotonic
    <3>4. /\ MarkerSent(s) /\ Len(sent[s]) <= Len(got[s])
          /\ \A i \in 1 .. Len(sent[s]) : sent[s][i] = got[s][i]
      BY <2>2 DEF Beyond
    <3> QED
      BY <3>1, <3>3, <3>4, Agree
  <2> QED
    BY <2>1, <2>2 DEF FramesInv, Line
<1> QED
  BY <1>1, FramesInit, FramesStep, PTL DEF Spec
=============================================================================
