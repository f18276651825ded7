--------------------------- MODULE StreamRxProofs ---------------------------
(***************************************************************************)
(* Theorems about the receiving half of Stream, for every value of its     *)
(* constants: what waits to be read is in order and without gaps, the      *)
(* buffer space that the window is computed from is the space in use, and  *)
(* a gap can be filled.                                                    *)
(*                                                                         *)
(* rxData() and readData() are folds over sequences of segments.  The      *)
(* first part shows that such a fold is a run: a function from 0 to the    *)
(* length of the sequence, each value made from the one before.            *)
(***************************************************************************)
EXTENDS StreamProofs

-----------------------------------------------------------------------------
(* Folds over sequences.                                                   *)

LEMMA Greatest ==
    ASSUME NEW n \in Nat, NEW s \in SUBSET (1 .. n), s # {}
    PROVE  Max(s) \in s /\ \A x \in s : x <= Max(s)
<1> DEFINE N == {n - x : x \in s}
<1>1. N \in SUBSET Nat /\ N # {}
  <2>1. ASSUME NEW x \in s PROVE n - x \in Nat
    OBVIOUS
  <2> QED
    BY <2>1
<1>2. PICK c \in N : \A d \in N : c <= d
  BY <1>1, Least
<1>3. PICK m \in s : c = n - m
  BY <1>2
<1>4. \A x \in s : m >= x
  BY <1>2, <1>3
<1> QED
  BY <1>4 DEF Max

LEMMA MaxOfInterval ==
    ASSUME NEW n \in Nat, NEW i \in 1 .. n
    PROVE  /\ 1 .. i \in SUBSET (1 .. n) /\ 1 .. i # {} /\ Max(1 .. i) = i
           /\ (1 .. i) \ {i} = 1 .. i - 1
<1>1. 1 .. i \in SUBSET (1 .. n) /\ i \in 1 .. i
  OBVIOUS
<1>2. Max(1 .. i) \in 1 .. i /\ i <= Max(1 .. i)
  BY <1>1, Greatest
<1> QED
  BY <1>1, <1>2

(* it is the fold of G, from base, over the positions 1 .. n in order. *)
SeqFolds(it, n, base, G) ==
    it = [s \in SUBSET (1 .. n) |->
            IF s = {} THEN base ELSE G[<<Max(s), it[s \ {Max(s)}]>>]]

LEMMA SeqFoldExists ==
    ASSUME NEW n \in Nat, NEW V, NEW base \in V, NEW G \in [(1 .. n) \X V -> V]
    PROVE  \E it \in [SUBSET (1 .. n) -> V] : SeqFolds(it, n, base, G)
<1> DEFINE C == [s \in SUBSET (1 .. n) |-> Max(s)]
<1>1. Picks(C, 1 .. n)
  BY Greatest DEF Picks
<1>2. \A s \in SUBSET (1 .. n) : C[s] = Max(s)
  OBVIOUS
<1> HIDE DEF C
<1>3. IsFiniteSet(1 .. n)
  BY FS_Interval
<1>4. PICK it \in [SUBSET (1 .. n) -> V] : FoldsBy(it, 1 .. n, base, G, C)
  BY <1>1, <1>3, FoldByExists, Zenon
<1>5. SeqFolds(it, n, base, G)
  BY <1>2, <1>4 DEF FoldsBy, SeqFolds
<1> QED
  BY <1>5

(* Statements about the positions of a sequence, by the first that fails. *)
LEMMA Upwards ==
    ASSUME NEW n \in Nat, NEW P \in SUBSET (0 .. n), 0 \in P,
           \A i \in 1 .. n : i - 1 \in P => i \in P
    PROVE  \A i \in 0 .. n : i \in P
<1> DEFINE Bad == (0 .. n) \ P
<1>1. ASSUME Bad # {} PROVE FALSE
  <2>0. Bad \in SUBSET Nat
    OBVIOUS
  <2>1. PICK m \in Bad : \A d \in Bad : m <= d
    BY <1>1, <2>0, Least
  <2>2. m # 0 /\ m \in 0 .. n
    BY <2>1
  <2>3. m - 1 \in 0 .. n /\ m - 1 \notin Bad
    BY <2>1, <2>2
  <2>4. m - 1 \in P
    BY <2>3
  <2> QED
    BY <2>1, <2>2, <2>4
<1> QED
  BY <1>1


-----------------------------------------------------------------------------
(* What rxData() does with a segment and what waits in the reorder buffer. *)

RxRec == [rsn : Nat, rsegs : Seq(Segment), rahead : Seq(Segment), ravail : Int,
          rbufused : Int, rmsgsize : Seq(Int), rmsgavail : Int, closed : BOOLEAN]

(* The three outcomes of Take. *)
Keeps(rx, s, new) ==
    /\ s.tsn > rx.rsn
    /\ new.rahead = Append(rx.rahead, s)
    /\ new.rsn = rx.rsn /\ new.rsegs = rx.rsegs /\ new.ravail = rx.ravail
    /\ new.rbufused = rx.rbufused

Drops(rx, s, new) ==
    /\ s.tsn <= rx.rsn
    /\ s.tsn + s.size <= rx.rsn
    /\ new.rahead = rx.rahead
    /\ new.rsn = rx.rsn /\ new.rsegs = rx.rsegs /\ new.ravail = rx.ravail
    /\ new.rbufused = rx.rbufused - s.size

Appends(rx, s, new, act) ==
    /\ s.tsn <= rx.rsn
    /\ act \in Nat /\ rx.rsn + act = s.tsn + s.size
    /\ new.rahead = rx.rahead
    /\ new.rsn = rx.rsn + act /\ new.ravail = rx.ravail + act
    /\ new.rsegs = Append(rx.rsegs, [tsn |-> rx.rsn, size |-> act, flags |-> s.flags])
    /\ new.rbufused = rx.rbufused - s.size + act

LEMMA TakeDoes ==
    ASSUME NEW rx \in RxRec, NEW s \in Segment
    PROVE  /\ Take(rx, s) \in RxRec
           /\ \/ Keeps(rx, s, Take(rx, s))
              \/ Drops(rx, s, Take(rx, s))
              \/ \E act \in Nat : Appends(rx, s, Take(rx, s), act)
<1> DEFINE act == s.size - (rx.rsn - s.tsn)
           msg == rx.rmsgavail + act
           framed == EndsMessage(s, msg)
<1>1. /\ rx.rsn \in Nat /\ rx.rsegs \in Seq(Segment) /\ rx.rahead \in Seq(Segment)
      /\ rx.ravail \in Int /\ rx.rbufused \in Int /\ rx.rmsgsize \in Seq(Int)
      /\ rx.rmsgavail \in Int /\ rx.closed \in BOOLEAN
      /\ s.tsn \in Nat /\ s.size \in Nat /\ s.flags \in SUBSET Flag
  BY DEF RxRec, Segment
<1>3. CASE s.tsn > rx.rsn
  <2>1. Take(rx, s) = [rx EXCEPT !.rahead = Append(@, s)]
    BY <1>3 DEF Take
  <2>2. Append(rx.rahead, s) \in Seq(Segment)
    BY <1>1, AppendProperties
  <2>3. Take(rx, s) \in RxRec /\ Keeps(rx, s, Take(rx, s))
    BY <1>3, <2>1, <2>2 DEF RxRec, Keeps
  <2> QED
    BY <2>3
<1>4. CASE ~(s.tsn > rx.rsn) /\ (act < 0 \/ (act = 0 /\ s.flags = {}))
  <2>1. Take(rx, s) = [rx EXCEPT !.rbufused = @ - s.size]
    BY <1>4 DEF Take
  <2>2. rx.rbufused - s.size \in Int /\ s.tsn <= rx.rsn /\ s.tsn + s.size <= rx.rsn
    BY <1>1, <1>4
  <2>3. Take(rx, s) \in RxRec /\ Drops(rx, s, Take(rx, s))
    BY <2>1, <2>2 DEF RxRec, Drops
  <2> QED
    BY <2>3
<1>5. CASE ~(s.tsn > rx.rsn) /\ ~(act < 0 \/ (act = 0 /\ s.flags = {}))
  <2> DEFINE t == [tsn |-> rx.rsn, size |-> act, flags |-> s.flags]
             sz == IF framed THEN Append(rx.rmsgsize, msg) ELSE rx.rmsgsize
             av == IF framed THEN 0 ELSE msg
             cl == rx.closed \/ "close" \in s.flags
             bu == rx.rbufused - s.size + act
  <2>1. s.tsn <= rx.rsn /\ act \in Nat /\ rx.rsn + act = s.tsn + s.size /\ msg \in Int
    <3>1. s.tsn <= rx.rsn /\ ~(act < 0)
      BY <1>1, <1>5
    <3>2. act \in Nat /\ rx.rsn + act = s.tsn + s.size
      BY <1>1, <3>1
    <3> QED
      BY <1>1, <3>1, <3>2
  <2>2. Trim(s, rx.rsn) = t
    BY DEF Trim
  <2>3. t \in Segment
    BY <1>1, <2>1 DEF Segment
  <2> HIDE DEF t
  <2>4. Append(rx.rsegs, t) \in Seq(Segment)
    BY <1>1, <2>3, AppendProperties
  <2>5. Take(rx, s) = [rx EXCEPT !.rsegs = Append(@, t), !.rsn = @ + act,
                                 !.ravail = @ + act, !.rbufused = bu,
                                 !.rmsgsize = sz, !.rmsgavail = av, !.closed = cl]
    BY <1>5, <2>2 DEF Take
  <2>6. sz \in Seq(Int)
    BY <1>1, <2>1, AppendProperties
  <2>7. av \in Int /\ rx.rsn + act \in Nat /\ rx.ravail + act \in Int /\ bu \in Int
    <3>1. rx.rsn + act \in Nat /\ rx.ravail + act \in Int /\ bu \in Int
      <4>1. rx.rsn \in Nat /\ rx.ravail \in Int /\ rx.rbufused \in Int /\ s.size \in Nat
        BY <1>1
      <4>2. act \in Nat
        BY <2>1
      <4> HIDE DEF act
      <4> QED
        BY <4>1, <4>2
    <3>2. av \in Int
      <4> HIDE DEF msg, framed
      <4> QED
        BY <2>1
    <3> QED
      BY <3>1, <3>2
  <2>8. cl \in BOOLEAN
    OBVIOUS
  <2> HIDE DEF act, sz, av, cl, bu, msg, framed
  <2>9. Take(rx, s) \in RxRec
    BY <2>4, <2>5, <2>6, <2>7, <2>8 DEF RxRec
  <2>10. Appends(rx, s, Take(rx, s), act)
    BY <2>1, <2>5 DEF Appends, RxRec, t, bu
  <2> QED
    BY <2>1, <2>9, <2>10
<1> QED
  BY <1>3, <1>4, <1>5

(* The states that rxData() goes through with the segments q. *)
TakeRun(f, base, q) ==
    /\ f \in [0 .. Len(q) -> RxRec] /\ f[0] = base
    /\ \A i \in 1 .. Len(q) : f[i] = Take(f[i - 1], q[i])

LEMMA TakeRuns ==
    ASSUME NEW base \in RxRec, NEW q \in Seq(Segment)
    PROVE  \E f : TakeRun(f, base, q) /\ FoldLeft(Take, base, q) = f[Len(q)]
<1>1. PICK n \in Nat : n = Len(q) /\ DOMAIN q = 1 .. n
  BY LenProperties
<1>2. \A i \in 1 .. n : q[i] \in Segment
  BY <1>1, ElementOfSeq
<1> DEFINE F(f) == f = [s \in SUBSET (1 .. n) |->
                          IF s = {} THEN base ELSE Take(f[s \ {Max(s)}], q[Max(s)])]
           G == [x \in (1 .. n) \X RxRec |-> Take(x[2], q[x[1]])]
<1>3. G \in [(1 .. n) \X RxRec -> RxRec]
  <2>1. ASSUME NEW i \in 1 .. n, NEW v \in RxRec PROVE Take(v, q[i]) \in RxRec
    BY <1>2, TakeDoes
  <2>2. ASSUME NEW x \in (1 .. n) \X RxRec PROVE Take(x[2], q[x[1]]) \in RxRec
    <3>1. x[1] \in 1 .. n /\ x[2] \in RxRec
      OBVIOUS
    <3> QED
      BY <2>1, <3>1, Zenon
  <2> QED
    BY <2>2, Zenon
<1>4. \A i \in 1 .. n, v \in RxRec : G[<<i, v>>] = Take(v, q[i])
  OBVIOUS
<1> HIDE DEF G
<1>5. PICK it \in [SUBSET (1 .. n) -> RxRec] : SeqFolds(it, n, base, G)
  BY <1>3, SeqFoldExists, Zenon
<1>6. F(it)
  <2>1. ASSUME NEW s \in SUBSET (1 .. n), s # {}
        PROVE  it[s] = Take(it[s \ {Max(s)}], q[Max(s)])
    <3>1. Max(s) \in 1 .. n /\ s \ {Max(s)} \in SUBSET (1 .. n)
      BY <2>1, Greatest
    <3>2. it[s] = G[<<Max(s), it[s \ {Max(s)}]>>]
      BY <1>5, <2>1 DEF SeqFolds
    <3>3. it[s \ {Max(s)}] \in RxRec
      BY <3>1
    <3> QED
      BY <1>4, <3>1, <3>2, <3>3
  <2>2. it[{}] = base
    BY <1>5 DEF SeqFolds
  <2> QED
    BY <1>5, <2>1, <2>2 DEF SeqFolds
<1>7. PICK h : h = (CHOOSE f : F(f))
  OBVIOUS
<1>8. F(h)
  BY <1>6, <1>7
<1>9. FoldLeft(Take, base, q) = h[1 .. n]
  BY <1>1, <1>7 DEF FoldLeft, MapThenFoldSet
<1>10. h[{}] = base
  BY <1>8
<1>11. ASSUME NEW i \in 1 .. n PROVE h[1 .. i] = Take(h[1 .. i - 1], q[i])
  <2>1. /\ 1 .. i \in SUBSET (1 .. n) /\ 1 .. i # {} /\ Max(1 .. i) = i
        /\ (1 .. i) \ {i} = 1 .. i - 1
    BY MaxOfInterval
  <2> QED
    BY <1>8, <2>1
<1> DEFINE f == [i \in 0 .. n |-> h[1 .. i]]
<1>12. f[0] = base
  BY <1>10
<1>13. \A i \in 1 .. n : f[i] = Take(f[i - 1], q[i])
  BY <1>11
<1>14. f[n] = h[1 .. n]
  OBVIOUS
<1> DEFINE P == {i \in 0 .. n : f[i] \in RxRec}
<1>15. f = [i \in 0 .. n |-> f[i]]
  OBVIOUS
<1> HIDE DEF f
<1>16. ASSUME NEW i \in 1 .. n, i - 1 \in P PROVE i \in P
  BY <1>2, <1>13, <1>16, TakeDoes
<1>17. \A i \in 0 .. n : i \in P
  <2>1. P \in SUBSET (0 .. n) /\ 0 \in P
    BY <1>12
  <2> HIDE DEF P
  <2> QED
    BY <1>16, <2>1, Upwards
<1>18. f \in [0 .. n -> RxRec]
  BY <1>15, <1>17
<1>19. TakeRun(f, base, q)
  BY <1>1, <1>12, <1>13, <1>18 DEF TakeRun
<1> QED
  BY <1>1, <1>9, <1>14, <1>19

-----------------------------------------------------------------------------
(* The bytes of a sequence of segments.                                    *)

(* The bytes of the first i segments of q, for each i. *)
SizeRun(f, q) ==
    /\ f \in [0 .. Len(q) -> Nat] /\ f[0] = 0
    /\ \A i \in 1 .. Len(q) : f[i] = f[i - 1] + q[i].size

LEMMA SizeRuns ==
    ASSUME NEW q \in Seq(Segment)
    PROVE  \E f : SizeRun(f, q) /\ SizeOf(q) = f[Len(q)]
<1>1. PICK n \in Nat : n = Len(q) /\ DOMAIN q = 1 .. n
  BY LenProperties
<1>2. \A i \in 1 .. n : q[i] \in Segment /\ q[i].size \in Nat
  <2>1. \A i \in 1 .. n : q[i] \in Segment
    BY <1>1, ElementOfSeq
  <2> QED
    BY <2>1 DEF Segment
<1> DEFINE F(f) == f = [s \in SUBSET (1 .. n) |->
                          IF s = {} THEN 0 ELSE f[s \ {Max(s)}] + q[Max(s)].size]
           G == [x \in (1 .. n) \X Nat |-> x[2] + q[x[1]].size]
<1>3. G \in [(1 .. n) \X Nat -> Nat]
  <2>1. ASSUME NEW i \in 1 .. n, NEW v \in Nat PROVE v + q[i].size \in Nat
    BY <1>2
  <2>2. ASSUME NEW x \in (1 .. n) \X Nat PROVE x[2] + q[x[1]].size \in Nat
    <3>1. x[1] \in 1 .. n /\ x[2] \in Nat
      OBVIOUS
    <3> QED
      BY <2>1, <3>1, Zenon
  <2> QED
    BY <2>2, Zenon
<1>4. \A i \in 1 .. n, v \in Nat : G[<<i, v>>] = v + q[i].size
  OBVIOUS
<1> HIDE DEF G
<1>5. PICK it \in [SUBSET (1 .. n) -> Nat] : SeqFolds(it, n, 0, G)
  <2>1. 0 \in Nat
    OBVIOUS
  <2> QED
    BY <1>3, <2>1, SeqFoldExists, Zenon
<1>6. F(it)
  <2>1. ASSUME NEW s \in SUBSET (1 .. n), s # {}
        PROVE  it[s] = it[s \ {Max(s)}] + q[Max(s)].size
    <3>1. Max(s) \in 1 .. n /\ s \ {Max(s)} \in SUBSET (1 .. n)
      BY <2>1, Greatest
    <3>2. it[s] = G[<<Max(s), it[s \ {Max(s)}]>>]
      BY <1>5, <2>1 DEF SeqFolds
    <3>3. it[s \ {Max(s)}] \in Nat
      BY <3>1
    <3> QED
      BY <1>4, <3>1, <3>2, <3>3
  <2>2. it[{}] = 0
    BY <1>5 DEF SeqFolds
  <2> QED
    BY <1>5, <2>1, <2>2 DEF SeqFolds
<1>7. PICK h : h = (CHOOSE f : F(f))
  OBVIOUS
<1>8. F(h)
  BY <1>6, <1>7
<1>9. SizeOf(q) = h[1 .. n]
  BY <1>1, <1>7 DEF SizeOf, FoldLeft, MapThenFoldSet
<1>10. h[{}] = 0
  BY <1>8
<1>11. ASSUME NEW i \in 1 .. n PROVE h[1 .. i] = h[1 .. i - 1] + q[i].size
  <2>1. /\ 1 .. i \in SUBSET (1 .. n) /\ 1 .. i # {} /\ Max(1 .. i) = i
        /\ (1 .. i) \ {i} = 1 .. i - 1
    BY MaxOfInterval
  <2> QED
    BY <1>8, <2>1
<1> DEFINE f == [i \in 0 .. n |-> h[1 .. i]]
<1>12. f[0] = 0
  BY <1>10
<1>13. \A i \in 1 .. n : f[i] = f[i - 1] + q[i].size
  BY <1>11
<1>14. f[n] = h[1 .. n]
  OBVIOUS
<1> DEFINE P == {i \in 0 .. n : f[i] \in Nat}
<1>15. f = [i \in 0 .. n |-> f[i]]
  OBVIOUS
<1> HIDE DEF f
<1>16. ASSUME NEW i \in 1 .. n, i - 1 \in P PROVE i \in P
  <2>1. f[i - 1] \in Nat /\ q[i].size \in Nat /\ f[i] = f[i - 1] + q[i].size
    BY <1>2, <1>13, <1>16
  <2> QED
    BY <2>1
<1>17. \A i \in 0 .. n : i \in P
  <2>1. P \in SUBSET (0 .. n) /\ 0 \in P
    BY <1>12
  <2> HIDE DEF P
  <2> QED
    BY <1>16, <2>1, Upwards
<1>18. f \in [0 .. n -> Nat]
  BY <1>15, <1>17
<1>19. SizeRun(f, q)
  BY <1>1, <1>12, <1>13, <1>18 DEF SizeRun
<1> QED
  BY <1>1, <1>9, <1>14, <1>19


LEMMA SizeIs ==
    ASSUME NEW q \in Seq(Segment), NEW f, SizeRun(f, q)
    PROVE  SizeOf(q) = f[Len(q)]
<1>1. PICK g : SizeRun(g, q) /\ SizeOf(q) = g[Len(q)]
  BY SizeRuns
<1>2. PICK n \in Nat : n = Len(q)
  BY LenProperties
<1> DEFINE P == {i \in 0 .. n : f[i] = g[i]}
<1>3. P \in SUBSET (0 .. n) /\ 0 \in P
  BY <1>1 DEF SizeRun
<1>4. ASSUME NEW i \in 1 .. n, i - 1 \in P PROVE i \in P
  BY <1>1, <1>2, <1>4 DEF SizeRun
<1> HIDE DEF P
<1>5. \A i \in 0 .. n : i \in P
  BY <1>3, <1>4, Upwards
<1> QED
  BY <1>1, <1>2, <1>5 DEF P

LEMMA SizeEmpty == SizeOf(<<>>) = 0
<1>1. <<>> \in Seq(Segment) /\ Len(<<>>) = 0
  BY EmptySeq
<1>2. PICK f : SizeRun(f, <<>>) /\ SizeOf(<<>>) = f[Len(<<>>)]
  BY <1>1, SizeRuns
<1> QED
  BY <1>1, <1>2 DEF SizeRun

LEMMA SizeConcat ==
    ASSUME NEW a \in Seq(Segment), NEW b \in Seq(Segment)
    PROVE  /\ a \o b \in Seq(Segment) /\ SizeOf(a) \in Nat /\ SizeOf(b) \in Nat
           /\ SizeOf(a \o b) = SizeOf(a) + SizeOf(b)
<1>1. PICK f : SizeRun(f, a) /\ SizeOf(a) = f[Len(a)]
  BY SizeRuns
<1>2. PICK g : SizeRun(g, b) /\ SizeOf(b) = g[Len(b)]
  BY SizeRuns
<1>3. PICK c \in Seq(Segment) :
        /\ c = a \o b /\ Len(c) = Len(a) + Len(b)
        /\ \A i \in 1 .. Len(a) + Len(b) :
              c[i] = IF i <= Len(a) THEN a[i] ELSE b[i - Len(a)]
  <2>1. /\ a \o b \in Seq(Segment) /\ Len(a \o b) = Len(a) + Len(b)
        /\ \A i \in 1 .. Len(a) + Len(b) :
              (a \o b)[i] = IF i <= Len(a) THEN a[i] ELSE b[i - Len(a)]
    BY ConcatProperties
  <2> QED
    BY <2>1, Zenon
<1>4. PICK m \in Nat, n \in Nat : m = Len(a) /\ n = Len(b)
  BY LenProperties
<1>5. /\ f \in [0 .. m -> Nat] /\ f[0] = 0
      /\ \A i \in 1 .. m : f[i] = f[i - 1] + a[i].size
      /\ g \in [0 .. n -> Nat] /\ g[0] = 0
      /\ \A i \in 1 .. n : g[i] = g[i - 1] + b[i].size
  BY <1>1, <1>2, <1>4 DEF SizeRun
<1> DEFINE h == [i \in 0 .. m + n |-> IF i <= m THEN f[i] ELSE f[m] + g[i - m]]
<1>6. h \in [0 .. m + n -> Nat]
  <2>1. ASSUME NEW i \in 0 .. m + n, i <= m PROVE f[i] \in Nat
    BY <1>5, <2>1
  <2>2. ASSUME NEW i \in 0 .. m + n, ~(i <= m) PROVE f[m] + g[i - m] \in Nat
    <3>1. i - m \in 0 .. n /\ m \in 0 .. m
      BY <2>2
    <3>2. g[i - m] \in Nat /\ f[m] \in Nat
      BY <1>5, <3>1
    <3> QED
      BY <3>2
  <2> QED
    BY <2>1, <2>2
<1>7. ASSUME NEW i \in 1 .. m + n PROVE h[i] = h[i - 1] + c[i].size
  <2>1. CASE i <= m
    <3>1. i \in 1 .. m /\ h[i] = f[i] /\ h[i - 1] = f[i - 1] /\ c[i] = a[i]
      BY <1>3, <1>4, <2>1
    <3> QED
      BY <1>5, <3>1
  <2>2. CASE ~(i <= m)
    <3>1. i - m \in 1 .. n /\ h[i] = f[m] + g[i - m] /\ c[i] = b[i - m]
      BY <1>3, <1>4, <2>2
    <3>2. h[i - 1] = f[m] + g[i - m - 1]
      <4>1. CASE i - 1 <= m
        <5>1. i - 1 = m /\ i - m - 1 = 0 /\ f[m] \in Nat
          BY <1>5, <2>2, <4>1
        <5>2. h[i - 1] = f[m] /\ f[m] = f[m] + 0
          BY <4>1, <5>1
        <5> QED
          BY <1>5, <5>1, <5>2
      <4>2. CASE ~(i - 1 <= m)
        BY <4>2
      <4> QED
        BY <4>1, <4>2
    <3>3. PICK k \in 1 .. n : k = i - m
      BY <3>1
    <3>4. g[k] = g[k - 1] + b[k].size
      BY <1>5
    <3>5. f[m] \in Nat /\ g[k - 1] \in Nat
      BY <1>5
    <3>6. b[k] \in Segment
      BY <1>4, ElementOfSeq
    <3>7. b[k].size \in Nat
      BY <3>6 DEF Segment
    <3>8. i - m - 1 = k - 1
      BY <3>3
    <3>9. h[i - 1] = f[m] + g[k - 1] /\ h[i] = f[m] + g[k] /\ c[i] = b[k]
      <4> HIDE DEF h
      <4> QED
        BY <3>1, <3>2, <3>3, <3>8, Zenon
    <3>10. PICK x \in Nat, y \in Nat, z \in Nat :
             x = f[m] /\ y = g[k - 1] /\ z = b[k].size
      BY <3>5, <3>7, Zenon
    <3>11. x + (y + z) = (x + y) + z
      OBVIOUS
    <3> HIDE DEF h
    <3> QED
      BY <3>4, <3>9, <3>10, <3>11, Zenon
  <2> QED
    BY <2>1, <2>2
<1>8. h[0] = 0 /\ h[m + n] = f[m] + g[n]
  <2>1. h[0] = 0
    BY <1>5
  <2>2. CASE n = 0
    BY <1>5, <2>2
  <2>3. CASE n # 0
    <3>0. m + n \in 0 .. m + n
      OBVIOUS
    <3>1. PICK k \in 0 .. m + n : k = m + n
      BY <3>0, Zenon
    <3>2. ~(k <= m) /\ k - m = n
      BY <2>3, <3>1
    <3>3. h[k] = f[m] + g[k - m]
      BY <3>2
    <3> QED
      BY <2>1, <3>1, <3>2, <3>3
  <2> QED
    BY <2>1, <2>2, <2>3
<1> HIDE DEF h
<1>9. SizeRun(h, c)
  BY <1>3, <1>4, <1>6, <1>7, <1>8 DEF SizeRun
<1>10. SizeOf(c) = h[m + n]
  BY <1>3, <1>4, <1>9, SizeIs
<1>11. f[m] \in Nat /\ g[n] \in Nat
  BY <1>5
<1> QED
  BY <1>1, <1>2, <1>3, <1>4, <1>8, <1>10, <1>11

LEMMA SizeOne ==
    ASSUME NEW s \in Segment
    PROVE  <<s>> \in Seq(Segment) /\ SizeOf(<<s>>) = s.size
<1>1. PICK q \in Seq(Segment) : q = <<s>> /\ Len(q) = 1 /\ q[1] = s
  <2>1. <<s>> \in Seq(Segment) /\ Len(<<s>>) = 1 /\ <<s>>[1] = s
    OBVIOUS
  <2> QED
    BY <2>1, Zenon
<1>2. PICK f : SizeRun(f, q) /\ SizeOf(q) = f[Len(q)]
  BY SizeRuns
<1>3. f[0] = 0 /\ f[1] = f[0] + q[1].size
  BY <1>1, <1>2 DEF SizeRun
<1>4. s.size \in Nat
  BY DEF Segment
<1> QED
  BY <1>1, <1>2, <1>3, <1>4

LEMMA SizeAppend ==
    ASSUME NEW q \in Seq(Segment), NEW s \in Segment
    PROVE  /\ Append(q, s) \in Seq(Segment) /\ SizeOf(q) \in Nat
           /\ SizeOf(Append(q, s)) = SizeOf(q) + s.size
<1>1. Append(q, s) = q \o <<s>>
  BY AppendIsConcat
<1>2. PICK c \in Seq(Segment) : c = <<s>> /\ SizeOf(c) = s.size
  BY SizeOne
<1>3. /\ q \o c \in Seq(Segment) /\ SizeOf(q) \in Nat
      /\ SizeOf(q \o c) = SizeOf(q) + SizeOf(c)
  BY SizeConcat
<1> QED
  BY <1>1, <1>2, <1>3

-----------------------------------------------------------------------------
(* Order within the receive buffer and the reorder buffer.                 *)

(* The segments are the bytes from one position to another, in order. *)
Contiguous(segs, from, to) ==
    /\ \A i \in DOMAIN segs :
          segs[i].tsn = IF i = 1 THEN from ELSE segs[i - 1].tsn + segs[i - 1].size
    /\ IF segs = <<>> THEN from = to ELSE Last(segs).tsn + Last(segs).size = to

(* The segments are sorted and all beyond a position. *)
Beyond(segs, at) ==
    \A i \in DOMAIN segs :
       segs[i].tsn > at /\ (i > 1 => segs[i - 1].tsn <= segs[i].tsn)

(* A segment may be put behind those of segs. *)
Follows(segs, s) == segs # <<>> => Last(segs).tsn <= s.tsn

LEMMA Appended ==
    ASSUME NEW q \in Seq(Segment), NEW s \in Segment
    PROVE  /\ Len(q) \in Nat /\ DOMAIN q = 1 .. Len(q)
           /\ DOMAIN Append(q, s) = 1 .. Len(q) + 1 /\ Append(q, s) # <<>>
           /\ Last(Append(q, s)) = s /\ Append(q, s)[Len(q) + 1] = s
           /\ \A i \in 1 .. Len(q) : Append(q, s)[i] = q[i]
           /\ q = <<>> <=> Len(q) = 0
           /\ Last(q) = q[Len(q)]
<1>1. /\ Append(q, s) \in Seq(Segment) /\ Append(q, s) # <<>>
      /\ Len(Append(q, s)) = Len(q) + 1
      /\ \A i \in 1 .. Len(q) : Append(q, s)[i] = q[i]
      /\ Append(q, s)[Len(q) + 1] = s
  BY AppendProperties
<1>2. Len(q) \in Nat /\ DOMAIN q = 1 .. Len(q)
  BY LenProperties
<1>3. DOMAIN Append(q, s) = 1 .. Len(q) + 1
  BY <1>1, LenProperties
<1>4. q = <<>> <=> Len(q) = 0
  BY EmptySeq
<1> QED
  BY <1>1, <1>2, <1>3, <1>4 DEF Last

LEMMA ContiguousAppend ==
    ASSUME NEW q \in Seq(Segment), NEW s \in Segment, NEW from, NEW to,
           Contiguous(q, from, to), s.tsn = to
    PROVE  Contiguous(Append(q, s), from, to + s.size)
<1> DEFINE a == Append(q, s)
<1>1. /\ Len(q) \in Nat /\ DOMAIN q = 1 .. Len(q) /\ DOMAIN a = 1 .. Len(q) + 1
      /\ a # <<>> /\ Last(a) = s /\ a[Len(q) + 1] = s
      /\ \A i \in 1 .. Len(q) : a[i] = q[i]
      /\ q = <<>> <=> Len(q) = 0
      /\ Last(q) = q[Len(q)]
  BY Appended
<1> HIDE DEF a
<1>2. ASSUME NEW i \in 1 .. Len(q) + 1
      PROVE  a[i].tsn = IF i = 1 THEN from ELSE a[i - 1].tsn + a[i - 1].size
  <2>1. CASE i <= Len(q)
    <3>1. i \in 1 .. Len(q) /\ a[i] = q[i] /\ (i # 1 => a[i - 1] = q[i - 1])
      BY <1>1, <2>1
    <3>2. q[i].tsn = IF i = 1 THEN from ELSE q[i - 1].tsn + q[i - 1].size
      BY <1>1, <3>1 DEF Contiguous
    <3> QED
      BY <3>1, <3>2
  <2>2. CASE i = Len(q) + 1
    <3>1. CASE q = <<>>
      BY <1>1, <2>2, <3>1 DEF Contiguous
    <3>2. CASE q # <<>>
      <4>1. i # 1 /\ i - 1 = Len(q) /\ i - 1 \in 1 .. Len(q)
        BY <1>1, <2>2, <3>2
      <4>2. a[i] = s /\ a[i - 1] = Last(q)
        BY <1>1, <2>2, <4>1
      <4>3. Last(q).tsn + Last(q).size = to
        BY <3>2 DEF Contiguous
      <4> QED
        BY <4>1, <4>2, <4>3
    <3> QED
      BY <3>1, <3>2
  <2> QED
    BY <1>1, <2>1, <2>2
<1> QED
  BY <1>1, <1>2 DEF Contiguous, a

LEMMA BeyondAppend ==
    ASSUME NEW q \in Seq(Segment), NEW s \in Segment, NEW at \in Nat,
           Beyond(q, at), s.tsn > at, Follows(q, s)
    PROVE  Beyond(Append(q, s), at)
<1> DEFINE a == Append(q, s)
<1>1. /\ Len(q) \in Nat /\ DOMAIN q = 1 .. Len(q) /\ DOMAIN a = 1 .. Len(q) + 1
      /\ a[Len(q) + 1] = s
      /\ \A i \in 1 .. Len(q) : a[i] = q[i]
      /\ q = <<>> <=> Len(q) = 0
      /\ Last(q) = q[Len(q)]
  BY Appended
<1> HIDE DEF a
<1>2. ASSUME NEW i \in 1 .. Len(q) + 1
      PROVE  a[i].tsn > at /\ (i > 1 => a[i - 1].tsn <= a[i].tsn)
  <2>1. CASE i <= Len(q)
    <3>1. i \in 1 .. Len(q) /\ a[i] = q[i] /\ (i > 1 => a[i - 1] = q[i - 1])
      BY <1>1, <2>1
    <3>2. q[i].tsn > at /\ (i > 1 => q[i - 1].tsn <= q[i].tsn)
      BY <1>1, <3>1 DEF Beyond
    <3> QED
      BY <3>1, <3>2
  <2>2. CASE i = Len(q) + 1
    <3>1. i > 1 => a[i - 1] = Last(q) /\ Last(q).tsn <= s.tsn
      BY <1>1, <2>2 DEF Follows
    <3> QED
      BY <1>1, <2>2, <3>1
  <2> QED
    BY <1>1, <2>1, <2>2
<1> QED
  BY <1>1, <1>2 DEF Beyond, a

(* What rxData() keeps true while it goes through the segments. *)
InOrder(rx, from) ==
    /\ from + rx.ravail = rx.rsn
    /\ Contiguous(rx.rsegs, from, rx.rsn)
    /\ Beyond(rx.rahead, rx.rsn)

(* Bytes in rbufused that are in neither buffer: those of the segments to come. *)
Unplaced(rx) == rx.rbufused - SizeOf(rx.rsegs) - SizeOf(rx.rahead)

LEMMA TakeOrder ==
    ASSUME NEW rx \in RxRec, NEW s \in Segment, NEW from \in Nat,
           InOrder(rx, from), Follows(rx.rahead, s)
    PROVE  /\ InOrder(Take(rx, s), from) /\ Follows(Take(rx, s).rahead, s)
           /\ Unplaced(rx) \in Int /\ Unplaced(Take(rx, s)) = Unplaced(rx) - s.size
<1>1. PICK new \in RxRec : /\ new = Take(rx, s)
                           /\ \/ Keeps(rx, s, new) \/ Drops(rx, s, new)
                              \/ \E act \in Nat : Appends(rx, s, new, act)
  BY TakeDoes
<1>2. /\ rx.rsn \in Nat /\ rx.rsegs \in Seq(Segment) /\ rx.rahead \in Seq(Segment)
      /\ rx.ravail \in Int /\ rx.rbufused \in Int
  BY DEF RxRec
<1>3. s.tsn \in Nat /\ s.size \in Nat
  BY DEF Segment
<1>4. SizeOf(rx.rsegs) \in Nat /\ SizeOf(rx.rahead) \in Nat
  BY <1>2, SizeAppend
<1>5. Unplaced(rx) \in Int
  BY <1>2, <1>4 DEF Unplaced
<1>6. CASE Keeps(rx, s, new)
  <2>1. PICK a \in Seq(Segment) : a = Append(rx.rahead, s) /\ a = new.rahead
    BY <1>2, <1>6, SizeAppend DEF Keeps
  <2>2. SizeOf(a) = SizeOf(rx.rahead) + s.size /\ Last(a) = s
    <3>1. SizeOf(Append(rx.rahead, s)) = SizeOf(rx.rahead) + s.size
      BY <1>2, SizeAppend
    <3>2. Last(Append(rx.rahead, s)) = s
      BY <1>2, Appended
    <3> QED
      BY <2>1, <3>1, <3>2
  <2>3. Beyond(a, rx.rsn)
    BY <1>2, <1>6, <2>1, BeyondAppend DEF Keeps, InOrder
  <2>4. InOrder(new, from)
    BY <1>6, <2>1, <2>3 DEF Keeps, InOrder
  <2>5. Follows(new.rahead, s)
    BY <1>3, <2>1, <2>2 DEF Follows
  <2>6. Unplaced(new) = Unplaced(rx) - s.size
    BY <1>2, <1>3, <1>4, <1>6, <2>1, <2>2 DEF Keeps, Unplaced
  <2> QED
    BY <1>1, <1>5, <2>4, <2>5, <2>6
<1>7. CASE Drops(rx, s, new)
  <2>1. InOrder(new, from) /\ Follows(new.rahead, s)
    BY <1>7 DEF Drops, InOrder, Follows
  <2>2. Unplaced(new) = Unplaced(rx) - s.size
    BY <1>2, <1>3, <1>4, <1>7 DEF Drops, Unplaced
  <2> QED
    BY <1>1, <1>5, <2>1, <2>2
<1>8. ASSUME NEW act \in Nat, Appends(rx, s, new, act)
      PROVE  InOrder(new, from) /\ Follows(new.rahead, s) /\ Unplaced(new) = Unplaced(rx) - s.size
  <2>1. PICK t \in Segment : t = [tsn |-> rx.rsn, size |-> act, flags |-> s.flags]
    BY <1>2 DEF Segment
  <2>2. t.tsn = rx.rsn /\ t.size = act
    BY <2>1
  <2>3. PICK a \in Seq(Segment) : a = Append(rx.rsegs, t) /\ a = new.rsegs
    BY <1>2, <1>8, <2>1, SizeAppend DEF Appends
  <2>4. Contiguous(a, from, rx.rsn + act)
    BY <1>2, <2>2, <2>3, ContiguousAppend DEF InOrder
  <2>5. rx.rahead = <<>>
    <3>1. ASSUME rx.rahead # <<>> PROVE FALSE
      <4>1. Len(rx.rahead) \in DOMAIN rx.rahead
        BY <1>2, <3>1, LenProperties, EmptySeq
      <4>2. Last(rx.rahead).tsn > rx.rsn
        BY <4>1 DEF InOrder, Beyond, Last
      <4>3. Last(rx.rahead).tsn <= s.tsn /\ s.tsn <= rx.rsn
        BY <1>8, <3>1 DEF Follows, Appends
      <4>4. Last(rx.rahead) \in Segment
        BY <1>2, <4>1, ElementOfSeq, LenProperties DEF Last
      <4>5. Last(rx.rahead).tsn \in Nat
        BY <4>4 DEF Segment
      <4> QED
        BY <1>2, <1>3, <4>2, <4>3, <4>5
    <3> QED
      BY <3>1
  <2>6. from + new.ravail = new.rsn
    BY <1>2, <1>8 DEF InOrder, Appends
  <2>7. Beyond(new.rahead, new.rsn) /\ Follows(new.rahead, s)
    BY <1>8, <2>5 DEF Appends, Beyond, Follows
  <2>8. InOrder(new, from)
    BY <1>8, <2>3, <2>4, <2>6, <2>7 DEF InOrder, Appends
  <2>9. SizeOf(a) = SizeOf(rx.rsegs) + act
    BY <1>2, <2>2, <2>3, SizeAppend
  <2>10. Unplaced(new) = Unplaced(rx) - s.size
    <3>1. /\ new.rbufused = rx.rbufused - s.size + act /\ new.rahead = rx.rahead
          /\ SizeOf(new.rsegs) = SizeOf(rx.rsegs) + act
      BY <1>8, <2>3, <2>9 DEF Appends
    <3>2. Unplaced(new) 
            = ((rx.rbufused - s.size) + act) - (SizeOf(rx.rsegs) + act) - SizeOf(rx.rahead)
      BY <3>1 DEF Unplaced
    <3>3. Unplaced(rx) = rx.rbufused - SizeOf(rx.rsegs) - SizeOf(rx.rahead)
      BY DEF Unplaced
    <3>4. PICK b \in Int, u \in Nat, v \in Nat, w \in Nat :
             b = rx.rbufused /\ u = SizeOf(rx.rsegs) /\ v = SizeOf(rx.rahead) /\ w = s.size
      BY <1>2, <1>3, <1>4
    <3>5. Unplaced(new) = ((b - w) + act) - (u + act) - v /\ Unplaced(rx) = b - u - v
      BY <3>2, <3>3, <3>4
    <3>6. ((b - w) + act) - (u + act) - v = (b - u - v) - w
      OBVIOUS
    <3> QED
      BY <3>4, <3>5, <3>6, Zenon
  <2> QED
    BY <2>7, <2>8, <2>10
<1> QED
  BY <1>1, <1>5, <1>6, <1>7, <1>8

(* The segments are sorted by position. *)
Sorted(q) == \A i \in 2 .. Len(q) : q[i - 1].tsn <= q[i].tsn

LEMMA TakeAll ==
    ASSUME NEW base \in RxRec, NEW q \in Seq(Segment), Sorted(q), NEW from \in Nat,
           InOrder(base, from), base.rahead = <<>>, Unplaced(base) = SizeOf(q)
    PROVE  /\ FoldLeft(Take, base, q) \in RxRec
           /\ InOrder(FoldLeft(Take, base, q), from)
           /\ Unplaced(FoldLeft(Take, base, q)) = 0
<1>1. PICK f : TakeRun(f, base, q) /\ FoldLeft(Take, base, q) = f[Len(q)]
  BY TakeRuns
<1>2. PICK z : SizeRun(z, q) /\ SizeOf(q) = z[Len(q)]
  BY SizeRuns
<1>3. PICK n \in Nat : n = Len(q)
  BY LenProperties
<1>4. /\ f \in [0 .. n -> RxRec] /\ f[0] = base
      /\ \A i \in 1 .. n : f[i] = Take(f[i - 1], q[i])
      /\ z \in [0 .. n -> Nat] /\ z[0] = 0
      /\ \A i \in 1 .. n : z[i] = z[i - 1] + q[i].size
  BY <1>1, <1>2, <1>3 DEF TakeRun, SizeRun
<1>5. \A i \in 1 .. n : q[i] \in Segment
  BY <1>3, ElementOfSeq
<1> DEFINE J(i) == /\ InOrder(f[i], from)
                   /\ i < n => Follows(f[i].rahead, q[i + 1])
                   /\ Unplaced(f[i]) = z[n] - z[i]
           P == {i \in 0 .. n : J(i)}
<1>6. 0 \in P
  <2>1. Follows(f[0].rahead, q[1])
    BY <1>4 DEF Follows
  <2>2. Unplaced(f[0]) = z[n] - z[0]
    BY <1>2, <1>3, <1>4
  <2> QED
    BY <1>4, <2>1, <2>2
<1>7. ASSUME NEW i \in 1 .. n, i - 1 \in P PROVE i \in P
  <2>1. PICK rx \in RxRec, s \in Segment : rx = f[i - 1] /\ s = q[i]
    <3>1. f[i - 1] \in RxRec /\ q[i] \in Segment
      BY <1>4, <1>5
    <3> QED
      BY <3>1, Zenon
  <2>2. InOrder(rx, from) /\ Follows(rx.rahead, s) /\ Unplaced(rx) = z[n] - z[i - 1]
    BY <1>7, <2>1
  <2>3. /\ InOrder(Take(rx, s), from) /\ Follows(Take(rx, s).rahead, s)
        /\ Unplaced(Take(rx, s)) = Unplaced(rx) - s.size
    BY <2>2, TakeOrder
  <2>4. f[i] = Take(rx, s) /\ z[i] = z[i - 1] + s.size
    BY <1>4, <2>1
  <2>5. z[n] \in Nat /\ z[i - 1] \in Nat /\ s.size \in Nat
    BY <1>4 DEF Segment
  <2>6. Unplaced(f[i]) = z[n] - z[i]
    BY <2>2, <2>3, <2>4, <2>5
  <2>7. ASSUME i < n PROVE Follows(f[i].rahead, q[i + 1])
    <3>1. q[i].tsn <= q[i + 1].tsn
      <4>1. i + 1 \in 2 .. Len(q) /\ i + 1 - 1 = i
        BY <1>3, <2>7
      <4> QED
        BY <4>1 DEF Sorted
    <3>2. PICK r \in Seq(Segment) : r = f[i].rahead
      <4>1. f[i] \in RxRec
        BY <1>4
      <4> QED
        BY <4>1 DEF RxRec
    <3>3. r # <<>> => Last(r).tsn <= s.tsn
      BY <2>3, <2>4, <3>2 DEF Follows
    <3>4. q[i + 1] \in Segment
      BY <1>5, <2>7
    <3>5. q[i + 1].tsn \in Nat /\ s.tsn \in Nat
      BY <3>4 DEF Segment
    <3>6. ASSUME r # <<>> PROVE Last(r).tsn \in Nat
      <4>1. Last(r) \in Segment
        BY <3>6, LenProperties, EmptySeq, ElementOfSeq DEF Last
      <4> QED
        BY <4>1 DEF Segment
    <3> QED
      BY <2>1, <3>1, <3>2, <3>3, <3>5, <3>6 DEF Follows
  <2> QED
    BY <2>3, <2>4, <2>6, <2>7
<1>8. n \in P
  <2>1. P \in SUBSET (0 .. n)
    OBVIOUS
  <2> HIDE DEF P
  <2>2. \A i \in 0 .. n : i \in P
    BY <1>6, <1>7, <2>1, Upwards
  <2> QED
    BY <2>2
<1>9. f[n] \in RxRec /\ InOrder(f[n], from) /\ Unplaced(f[n]) = z[n] - z[n] /\ z[n] \in Nat
  BY <1>4, <1>8
<1> QED
  BY <1>1, <1>3, <1>9

-----------------------------------------------------------------------------
(* Insertion into the reorder buffer.                                      *)

LEMMA BeyondSorted ==
    ASSUME NEW q \in Seq(Segment), NEW at \in Nat, Beyond(q, at)
    PROVE  \A i \in 1 .. Len(q), j \in 1 .. Len(q) : i <= j => q[i].tsn <= q[j].tsn
<1>1. PICK n \in Nat : n = Len(q) /\ DOMAIN q = 1 .. n
  BY LenProperties
<1>2. \A i \in 1 .. n : q[i].tsn \in Nat
  <2>1. \A i \in 1 .. n : q[i] \in Segment
    BY <1>1, ElementOfSeq
  <2> QED
    BY <2>1 DEF Segment
<1>3. ASSUME NEW i \in 1 .. n PROVE \A j \in 1 .. n : i <= j => q[i].tsn <= q[j].tsn
  <2> DEFINE P == {j \in 0 .. n : j \in 1 .. n => (i <= j => q[i].tsn <= q[j].tsn)}
  <2>1. P \in SUBSET (0 .. n) /\ 0 \in P
    OBVIOUS
  <2>2. ASSUME NEW j \in 1 .. n, j - 1 \in P PROVE j \in P
    <3>1. CASE i <= j - 1
      <4>1. j - 1 \in 1 .. n /\ j > 1
        BY <3>1
      <4>2. q[i].tsn <= q[j - 1].tsn
        BY <2>2, <3>1, <4>1
      <4>3. q[j - 1].tsn <= q[j].tsn
        BY <1>1, <4>1 DEF Beyond
      <4>4. q[i].tsn \in Nat /\ q[j - 1].tsn \in Nat /\ q[j].tsn \in Nat
        BY <1>2, <4>1
      <4>5. q[i].tsn <= q[j].tsn
        BY <4>2, <4>3, <4>4
      <4> QED
        BY <4>5
    <3>2. CASE i = j
      BY <1>2, <3>2
    <3>3. CASE ~(i <= j)
      BY <3>3
    <3> QED
      BY <3>1, <3>2, <3>3
  <2>3. \A j \in 0 .. n : j \in P
    <3> HIDE DEF P
    <3> QED
      BY <2>1, <2>2, Upwards
  <2> QED
    BY <2>3
<1> QED
  BY <1>1, <1>3

LEMMA LowerCount ==
    ASSUME NEW q \in Seq(Segment), NEW at \in Nat, Beyond(q, at), NEW s \in Segment
    PROVE  \E lo \in 0 .. Len(q) :
              /\ lo = Cardinality({i \in DOMAIN q : q[i].tsn < s.tsn})
              /\ \A i \in 1 .. Len(q) : q[i].tsn < s.tsn <=> i <= lo
<1>1. PICK n \in Nat : n = Len(q) /\ DOMAIN q = 1 .. n
  BY LenProperties
<1>2. \A i \in 1 .. n : q[i].tsn \in Nat
  <2>1. \A i \in 1 .. n : q[i] \in Segment
    BY <1>1, ElementOfSeq
  <2> QED
    BY <2>1 DEF Segment
<1>3. s.tsn \in Nat
  BY DEF Segment
<1>4. \A i \in 1 .. n, j \in 1 .. n : i <= j => q[i].tsn <= q[j].tsn
  BY <1>1, BeyondSorted
<1> DEFINE T == {i \in DOMAIN q : q[i].tsn < s.tsn}
<1>5. T \in SUBSET (1 .. n)
  BY <1>1
<1>6. PICK lo \in 0 .. n : T = 1 .. lo
  <2>1. CASE T = {}
    <3>1. 0 \in 0 .. n /\ T = 1 .. 0
      BY <2>1
    <3> QED
      BY <3>1, Zenon
  <2>2. CASE T # {}
    <3>1. PICK m \in T : \A x \in T : x <= m
      BY <1>5, <2>2, Greatest
    <3>2. m \in 1 .. n /\ q[m].tsn < s.tsn
      BY <1>1, <3>1
    <3>3. ASSUME NEW i \in 1 .. m PROVE i \in T
      <4>1. i \in 1 .. n /\ q[i].tsn <= q[m].tsn
        BY <1>4, <3>2
      <4>2. q[i].tsn \in Nat /\ q[m].tsn \in Nat
        BY <1>2, <3>2, <4>1
      <4> QED
        BY <1>1, <1>3, <3>2, <4>1, <4>2
    <3>4. \A x \in T : x \in 1 .. m
      BY <1>5, <3>1, <3>2
    <3> HIDE DEF T
    <3>5. T = 1 .. m
      BY <3>3, <3>4
    <3>6. m \in 0 .. n
      BY <3>2
    <3> QED
      BY <3>5, <3>6, Zenon
  <2> QED
    BY <2>1, <2>2
<1>7. lo = Cardinality(T)
  <2>1. Cardinality(1 .. lo) = lo
    BY FS_Interval
  <2> QED
    BY <1>6, <2>1, Zenon
<1>8. ASSUME NEW i \in 1 .. n PROVE q[i].tsn < s.tsn <=> i <= lo
  BY <1>1, <1>6
<1> QED
  BY <1>1, <1>7, <1>8

(* c is a followed by b, which have m and n segments. *)
Join(c, a, b, m, n) ==
    /\ c = a \o b /\ Len(c) = m + n
    /\ SizeOf(a) \in Nat /\ SizeOf(b) \in Nat /\ SizeOf(c) = SizeOf(a) + SizeOf(b)
    /\ \A i \in 1 .. m : c[i] = a[i]
    /\ \A i \in 1 .. n : c[m + i] = b[i]

LEMMA Joined ==
    ASSUME NEW a \in Seq(Segment), NEW b \in Seq(Segment), NEW m \in Nat, NEW n \in Nat,
           Len(a) = m, Len(b) = n
    PROVE  \E c \in Seq(Segment) : Join(c, a, b, m, n)
<1>1. /\ a \o b \in Seq(Segment) /\ Len(a \o b) = m + n
      /\ \A i \in 1 .. m + n : (a \o b)[i] = IF i <= m THEN a[i] ELSE b[i - m]
  <2>1. /\ a \o b \in Seq(Segment) /\ Len(a \o b) = Len(a) + Len(b)
        /\ \A i \in 1 .. Len(a) + Len(b) :
              (a \o b)[i] = IF i <= Len(a) THEN a[i] ELSE b[i - Len(a)]
    BY ConcatProperties
  <2> QED
    BY <2>1, Zenon
<1>2. PICK c \in Seq(Segment) :
        /\ c = a \o b /\ Len(c) = m + n
        /\ \A i \in 1 .. m + n : c[i] = IF i <= m THEN a[i] ELSE b[i - m]
  BY <1>1, Zenon
<1>3. \A i \in 1 .. m : c[i] = a[i]
  BY <1>2
<1>4. ASSUME NEW i \in 1 .. n PROVE c[m + i] = b[i]
  <2>1. m + i \in 1 .. m + n /\ ~(m + i <= m) /\ (m + i) - m = i
    OBVIOUS
  <2>2. PICK j \in 1 .. m + n : j = m + i
    BY <2>1, Zenon
  <2>3. c[j] = b[j - m] /\ j - m = i
    BY <1>2, <2>1, <2>2
  <2> QED
    BY <2>2, <2>3, Zenon
<1>5. SizeOf(a) \in Nat /\ SizeOf(b) \in Nat /\ SizeOf(c) = SizeOf(a) + SizeOf(b)
  BY <1>2, SizeConcat
<1> QED
  BY <1>2, <1>3, <1>4, <1>5, Zenon DEF Join

(* r is q with s put behind its first k segments. *)
Inserted(r, q, k, s) ==
    /\ r \in Seq(Segment) /\ SizeOf(r) = SizeOf(q) + s.size
    /\ Len(r) = Len(q) + 1
    /\ \A i \in 1 .. Len(q) + 1 :
          r[i] = IF i <= k THEN q[i] ELSE IF i = k + 1 THEN s ELSE q[i - 1]

LEMMA InsertDoes ==
    ASSUME NEW q \in Seq(Segment), NEW s \in Segment, NEW k \in 0 .. Len(q)
    PROVE  Inserted(InsertAt(q, k + 1, s), q, k, s)
<1>1. PICK n \in Nat : n = Len(q) /\ k \in 0 .. n /\ DOMAIN q = 1 .. n
  BY LenProperties
<1>2. PICK a \in Seq(Segment), b \in Seq(Segment) :
        /\ a = SubSeq(q, 1, k) /\ Len(a) = k /\ \A i \in 1 .. k : a[i] = q[i]
        /\ b = SubSeq(q, k + 1, Len(q)) /\ Len(b) = n - k
        /\ \A i \in 1 .. n - k : b[i] = q[k + i]
  <2>1. /\ SubSeq(q, 1, k) \in Seq(Segment) /\ Len(SubSeq(q, 1, k)) = k
        /\ \A i \in 1 .. k : SubSeq(q, 1, k)[i] = q[i]
        /\ SubSeq(q, k + 1, Len(q)) \in Seq(Segment)
        /\ Len(SubSeq(q, k + 1, Len(q))) = n - k
        /\ \A i \in 1 .. n - k : SubSeq(q, k + 1, Len(q))[i] = q[k + i]
    BY <1>1, Cut
  <2> QED
    BY <2>1, Zenon
<1>3. PICK c \in Seq(Segment) : c = <<s>> /\ SizeOf(c) = s.size /\ Len(c) = 1 /\ c[1] = s
  <2>1. <<s>> \in Seq(Segment) /\ SizeOf(<<s>>) = s.size
    BY SizeOne
  <2>2. Len(<<s>>) = 1 /\ <<s>>[1] = s
    OBVIOUS
  <2> QED
    BY <2>1, <2>2, Zenon
<1>4. PICK d \in Seq(Segment) :
        /\ d = a \o c /\ SizeOf(d) = SizeOf(a) + SizeOf(c) /\ SizeOf(a) \in Nat
        /\ Len(d) = k + 1
        /\ \A i \in 1 .. k : d[i] = a[i]
        /\ \A i \in 1 .. 1 : d[k + i] = c[i]
  <2>1. k \in Nat /\ 1 \in Nat
    BY <1>1
  <2> QED
    <3>1. PICK d \in Seq(Segment) : Join(d, a, c, k, 1)
      BY <1>2, <1>3, <2>1, Joined, Zenon
    <3> QED
      BY <3>1, Zenon DEF Join
<1>5. PICK e \in Seq(Segment) :
        /\ e = d \o b /\ SizeOf(e) = SizeOf(d) + SizeOf(b) /\ SizeOf(b) \in Nat
        /\ Len(e) = (k + 1) + (n - k)
        /\ \A i \in 1 .. k + 1 : e[i] = d[i]
        /\ \A i \in 1 .. n - k : e[(k + 1) + i] = b[i]
  <2>1. k + 1 \in Nat /\ n - k \in Nat
    BY <1>1
  <2> QED
    <3>1. PICK e \in Seq(Segment) : Join(e, d, b, k + 1, n - k)
      BY <1>2, <1>4, <2>1, Joined, Zenon
    <3> QED
      BY <3>1, Zenon DEF Join
<1>6. InsertAt(q, k + 1, s) = e
  <2>1. (k + 1) - 1 = k
    BY <1>1
  <2>2. InsertAt(q, k + 1, s) = SubSeq(q, 1, k) \o <<s>> \o SubSeq(q, k + 1, Len(q))
    BY <2>1 DEF InsertAt
  <2> QED
    BY <1>2, <1>3, <1>4, <1>5, <2>2
<1>7. SizeOf(q) = SizeOf(a) + SizeOf(b)
  <2>1. k \in Nat /\ n - k \in Nat /\ k + (n - k) = n
    BY <1>1
  <2>2. PICK r \in Seq(Segment) :
          /\ r = a \o b /\ Len(r) = k + (n - k) /\ SizeOf(r) = SizeOf(a) + SizeOf(b)
          /\ \A i \in 1 .. k : r[i] = a[i]
          /\ \A i \in 1 .. n - k : r[k + i] = b[i]
    <3>1. PICK r \in Seq(Segment) : Join(r, a, b, k, n - k)
      BY <1>2, <2>1, Joined, Zenon
    <3> QED
      BY <3>1, Zenon DEF Join
  <2>3. ASSUME NEW i \in 1 .. n PROVE r[i] = q[i]
    <3>1. CASE i <= k
      <4>1. i \in 1 .. k
        BY <1>1, <3>1
      <4> QED
        BY <1>2, <2>2, <4>1, Zenon
    <3>2. CASE ~(i <= k)
      <4>1. PICK j \in 1 .. n - k : i = k + j
        <5>1. i - k \in 1 .. n - k /\ i = k + (i - k)
          BY <1>1, <3>2
        <5> QED
          BY <5>1, Zenon
      <4> QED
        BY <1>2, <2>2, <4>1, Zenon
    <3> QED
      BY <3>1, <3>2
  <2>4. Len(r) = Len(q) /\ \A i \in 1 .. Len(r) : r[i] = q[i]
    BY <1>1, <2>1, <2>2, <2>3
  <2>5. r = q
    BY <2>4, SeqEqual
  <2> QED
    BY <2>2, <2>5
<1>8. ASSUME NEW i \in 1 .. n + 1
      PROVE  e[i] = IF i <= k THEN q[i] ELSE IF i = k + 1 THEN s ELSE q[i - 1]
  <2>1. CASE i <= k
    <3>1. i \in 1 .. k /\ i \in 1 .. k + 1
      BY <1>1, <2>1
    <3>2. e[i] = q[i]
      BY <1>2, <1>4, <1>5, <3>1, Zenon
    <3> QED
      BY <2>1, <3>2
  <2>2. CASE i = k + 1
    <3>1. i \in 1 .. k + 1 /\ 1 \in 1 .. 1 /\ ~(i <= k)
      BY <1>1, <2>2
    <3>2. e[i] = s
      BY <1>3, <1>4, <1>5, <2>2, <3>1, Zenon
    <3> QED
      BY <2>2, <3>1, <3>2
  <2>3. CASE i > k + 1
    <3>1. PICK j \in 1 .. n - k : i = (k + 1) + j /\ k + j = i - 1
      <4>1. i - (k + 1) \in 1 .. n - k
        BY <1>1, <2>3
      <4>2. i = (k + 1) + (i - (k + 1)) /\ k + (i - (k + 1)) = i - 1
        BY <1>1
      <4> QED
        BY <4>1, <4>2, Zenon
    <3>2. e[i] = q[i - 1]
      BY <1>2, <1>5, <3>1, Zenon
    <3> QED
      BY <1>1, <2>3, <3>2
  <2> QED
    BY <1>1, <2>1, <2>2, <2>3
<1>9. s.size \in Nat /\ (k + 1) + (n - k) = n + 1
  BY <1>1 DEF Segment
<1>10. SizeOf(e) = SizeOf(q) + s.size
  BY <1>3, <1>4, <1>5, <1>7, <1>9
<1>11. Len(e) = Len(q) + 1
  BY <1>1, <1>5, <1>9
<1> QED
  BY <1>1, <1>6, <1>8, <1>10, <1>11, Zenon DEF Inserted


-----------------------------------------------------------------------------
(* The invariant of the receiving half, and the arrival of segments.       *)

RxTyped ==
    /\ rsn \in Nat /\ consumed \in Nat /\ ravail \in Int /\ rbufused \in Int
    /\ rahead \in Seq(Segment) /\ rsegs \in Seq(Segment)
    /\ rmsgsize \in Seq(Int) /\ rmsgavail \in Int

Ordered ==
    /\ consumed + ravail = rsn
    /\ Contiguous(rsegs, consumed, rsn)
    /\ Beyond(rahead, rsn)

RxInv == RxTyped /\ BufferAccounting /\ (~endread => Ordered)

LEMMA InOrderIsBytes == BytesInOrder <=>
    (~endread => /\ consumed + ravail = rsn
                 /\ \A i \in DOMAIN rsegs :
                       rsegs[i].tsn = IF i = 1 THEN consumed
                                      ELSE rsegs[i - 1].tsn + rsegs[i - 1].size
                 /\ IF rsegs = <<>> THEN ravail = 0
                    ELSE Last(rsegs).tsn + Last(rsegs).size = rsn
                 /\ Beyond(rahead, rsn))
  BY DEF BytesInOrder, Beyond

LEMMA RxInvBytes ==
    ASSUME RxInv
    PROVE  BytesInOrder /\ BufferAccounting
<1>1. RxTyped /\ BufferAccounting /\ (~endread => Ordered)
  BY DEF RxInv
<1>2. ASSUME ~endread PROVE BytesInOrder
  <2>1. consumed + ravail = rsn /\ Contiguous(rsegs, consumed, rsn) /\ Beyond(rahead, rsn)
    BY <1>1, <1>2 DEF Ordered
  <2>2. rsegs = <<>> => ravail = 0
    BY <1>1, <2>1 DEF Contiguous, RxTyped
  <2> QED
    BY <2>1, <2>2, InOrderIsBytes DEF Contiguous
<1>3. endread => BytesInOrder
  BY DEF BytesInOrder
<1> QED
  BY <1>1, <1>2, <1>3

(* shutdown(Stream::Read) leaves empty buffers. *)
LEMMA EndReadStep ==
    ASSUME NEW who \in {"peer", "reader"}, EndRead(who), rsn' \in Nat, consumed' \in Nat
    PROVE  RxInv'
<1>1. /\ ended' = who /\ ravail' = 0 /\ rmsgavail' = 0 /\ rbufused' = 0
      /\ rahead' = <<>> /\ rsegs' = <<>> /\ rmsgsize' = <<>>
  BY DEF EndRead
<1>2. RxTyped'
  BY <1>1 DEF RxTyped
<1>3. BufferAccounting'
  BY <1>1, SizeEmpty DEF BufferAccounting
<1>4. endread'
  BY <1>1 DEF endread
<1> QED
  BY <1>2, <1>3, <1>4 DEF RxInv

LEMMA SortedAhead ==
    ASSUME NEW s \in Segment, NEW at \in Nat, NEW q \in Seq(Segment), s.tsn <= at,
           Beyond(q, at)
    PROVE  /\ <<s>> \o q \in Seq(Segment) /\ Sorted(<<s>> \o q)
           /\ SizeOf(q) \in Nat /\ SizeOf(<<s>> \o q) = SizeOf(q) + s.size
<1>1. PICK n \in Nat : n = Len(q) /\ DOMAIN q = 1 .. n
  BY LenProperties
<1>2. PICK c \in Seq(Segment) : c = <<s>> /\ SizeOf(c) = s.size /\ Len(c) = 1 /\ c[1] = s
  <2>1. <<s>> \in Seq(Segment) /\ SizeOf(<<s>>) = s.size
    BY SizeOne
  <2>2. Len(<<s>>) = 1 /\ <<s>>[1] = s
    OBVIOUS
  <2> QED
    BY <2>1, <2>2, Zenon
<1>3. PICK r \in Seq(Segment) : Join(r, c, q, 1, n)
  <2>1. 1 \in Nat
    OBVIOUS
  <2> QED
    BY <1>1, <1>2, <2>1, Joined, Zenon
<1>4. s.tsn \in Nat /\ s.size \in Nat
  BY DEF Segment
<1>5. \A i \in 1 .. n : q[i].tsn \in Nat
  <2>1. \A i \in 1 .. n : q[i] \in Segment
    BY <1>1, ElementOfSeq
  <2> QED
    BY <2>1 DEF Segment
<1>6. /\ r = <<s>> \o q /\ Len(r) = 1 + n /\ r[1] = s /\ \A i \in 1 .. n : r[1 + i] = q[i]
      /\ SizeOf(q) \in Nat /\ SizeOf(r) = s.size + SizeOf(q)
  BY <1>2, <1>3 DEF Join
<1>7. ASSUME NEW i \in 2 .. n + 1 PROVE r[i - 1].tsn <= r[i].tsn
  <2>1. PICK j \in 1 .. n : i = 1 + j
    <3>1. i - 1 \in 1 .. n /\ i = 1 + (i - 1)
      OBVIOUS
    <3> QED
      BY <3>1, Zenon
  <2>2. r[i] = q[j] /\ q[j].tsn > at
    BY <1>1, <1>6, <2>1 DEF Beyond
  <2>3. CASE j = 1
    BY <1>4, <1>5, <1>6, <2>1, <2>2, <2>3
  <2>4. CASE j > 1
    <3>1. PICK k \in 1 .. n : k = j - 1 /\ i - 1 = 1 + k
      <4>1. j - 1 \in 1 .. n /\ i - 1 = 1 + (j - 1)
        BY <2>1, <2>4
      <4> QED
        BY <4>1, Zenon
    <3>2. r[i - 1] = q[j - 1]
      BY <1>6, <3>1
    <3>3. q[j - 1].tsn <= q[j].tsn
      BY <1>1, <2>4 DEF Beyond
    <3> QED
      BY <2>2, <3>2, <3>3
  <2> QED
    BY <2>3, <2>4
<1>8. Sorted(r)
  BY <1>6, <1>7 DEF Sorted
<1> QED
  BY <1>4, <1>6, <1>8

LEMMA InOrderStep ==
    ASSUME RxInv, ~endread, NEW s \in Segment, s.tsn <= rsn, RxInOrder(s),
           UNCHANGED consumed
    PROVE  RxInv'
<1> DEFINE base == [rsn |-> rsn, rsegs |-> rsegs, rahead |-> <<>>,
                    ravail |-> ravail, rbufused |-> rbufused + s.size,
                    rmsgsize |-> rmsgsize, rmsgavail |-> rmsgavail, closed |-> FALSE]
           q == <<s>> \o rahead
<1>1. RxTyped /\ BufferAccounting /\ Ordered
  BY DEF RxInv
<1>2. s.size \in Nat
  BY DEF Segment
<1>3. base \in RxRec
  BY <1>1, <1>2 DEF RxTyped, RxRec
<1>4. base.rsn = rsn /\ base.rsegs = rsegs /\ base.rahead = <<>> /\ base.ravail = ravail
      /\ base.rbufused = rbufused + s.size
  OBVIOUS
<1>5. q \in Seq(Segment) /\ Sorted(q) /\ SizeOf(rahead) \in Nat
      /\ SizeOf(q) = SizeOf(rahead) + s.size
  BY <1>1, SortedAhead DEF RxTyped, Ordered
<1>6. PICK rx : rx = FoldLeft(Take, base, q)
  OBVIOUS
<1>7. /\ rsn' = rx.rsn
      /\ IF EndsNow(rx)
         THEN EndRead("peer")
         ELSE /\ rsegs' = rx.rsegs /\ rahead' = rx.rahead
              /\ ravail' = rx.ravail /\ rbufused' = rx.rbufused
              /\ rmsgsize' = rx.rmsgsize /\ rmsgavail' = rx.rmsgavail
              /\ UNCHANGED ended
  BY <1>6 DEF RxInOrder
<1> HIDE DEF base, q
<1>8. InOrder(base, consumed)
  <2>1. Beyond(base.rahead, rsn)
    BY <1>4 DEF Beyond
  <2> QED
    BY <1>1, <1>4, <2>1 DEF InOrder, Ordered
<1>9. Unplaced(base) = SizeOf(q)
  <2>1. SizeOf(rsegs) \in Nat
    BY <1>1, SizeConcat DEF RxTyped
  <2>2. Unplaced(base) = (rbufused + s.size) - SizeOf(rsegs) - 0
    BY <1>4, SizeEmpty DEF Unplaced
  <2>3. rbufused = SizeOf(rsegs) + SizeOf(rahead)
    BY <1>1 DEF BufferAccounting
  <2> QED
    BY <1>2, <1>5, <2>1, <2>2, <2>3
<1>10. rx \in RxRec /\ InOrder(rx, consumed) /\ Unplaced(rx) = 0
  BY <1>1, <1>3, <1>4, <1>5, <1>6, <1>8, <1>9, TakeAll DEF RxTyped
<1>11. CASE EndsNow(rx)
  <2>1. rsn' \in Nat /\ consumed' \in Nat
    BY <1>1, <1>7, <1>10 DEF RxTyped, RxRec
  <2> QED
    BY <1>7, <1>11, <2>1, EndReadStep
<1>12. CASE ~EndsNow(rx)
  <2>1. /\ rsegs' = rx.rsegs /\ rahead' = rx.rahead
        /\ ravail' = rx.ravail /\ rbufused' = rx.rbufused
        /\ rmsgsize' = rx.rmsgsize /\ rmsgavail' = rx.rmsgavail
    BY <1>7, <1>12
  <2>2. RxTyped'
    BY <1>1, <1>7, <1>10, <2>1 DEF RxTyped, RxRec
  <2>3. BufferAccounting'
    <3>1. rx.rsegs \in Seq(Segment) /\ rx.rahead \in Seq(Segment) /\ rx.rbufused \in Int
      BY <1>10 DEF RxRec
    <3>2. SizeOf(rx.rsegs) \in Nat /\ SizeOf(rx.rahead) \in Nat
      BY <3>1, SizeConcat
    <3>3. rx.rbufused = SizeOf(rx.rsegs) + SizeOf(rx.rahead)
      BY <1>10, <3>1, <3>2 DEF Unplaced
    <3> QED
      BY <2>1, <3>3 DEF BufferAccounting
  <2>4. Ordered'
    BY <1>7, <1>10, <2>1 DEF Ordered, InOrder
  <2> QED
    BY <2>2, <2>3, <2>4 DEF RxInv
<1> QED
  BY <1>11, <1>12

LEMMA InsertBeyond ==
    ASSUME NEW q \in Seq(Segment), NEW at \in Nat, Beyond(q, at), NEW s \in Segment,
           s.tsn > at, NEW lo \in 0 .. Len(q),
           \A i \in 1 .. Len(q) : q[i].tsn < s.tsn <=> i <= lo
    PROVE  Beyond(InsertAt(q, lo + 1, s), at)
<1>1. PICK n \in Nat : n = Len(q) /\ DOMAIN q = 1 .. n
  BY LenProperties
<1>2. PICK r \in Seq(Segment) :
        /\ r = InsertAt(q, lo + 1, s) /\ Len(r) = n + 1
        /\ \A i \in 1 .. n + 1 :
              r[i] = IF i <= lo THEN q[i] ELSE IF i = lo + 1 THEN s ELSE q[i - 1]
  <2>1. Inserted(InsertAt(q, lo + 1, s), q, lo, s)
    BY InsertDoes, Zenon
  <2> QED
    BY <1>1, <2>1, Zenon DEF Inserted
<1>3. DOMAIN r = 1 .. n + 1
  BY <1>2, LenProperties
<1>4. \A i \in 1 .. n : q[i].tsn \in Nat /\ q[i].tsn > at
  <2>1. \A i \in 1 .. n : q[i] \in Segment
    BY <1>1, ElementOfSeq
  <2> QED
    BY <1>1, <2>1 DEF Segment, Beyond
<1>5. \A i \in 1 .. n : i > 1 => q[i - 1].tsn <= q[i].tsn
  BY <1>1 DEF Beyond
<1>6. s.tsn \in Nat
  BY DEF Segment
<1>7. ASSUME NEW i \in 1 .. n + 1
      PROVE  r[i].tsn > at /\ (i > 1 => r[i - 1].tsn <= r[i].tsn)
  <2>1. CASE i <= lo
    <3>1. i \in 1 .. n /\ r[i] = q[i]
      BY <1>1, <1>2, <2>1
    <3>2. ASSUME i > 1 PROVE r[i - 1] = q[i - 1]
      <4>1. PICK j \in 1 .. n + 1 : j = i - 1 /\ j <= lo
        BY <1>1, <2>1, <3>2
      <4>2. r[j] = q[j]
        BY <1>2, <4>1
      <4> QED
        BY <4>1, <4>2, Zenon
    <3> QED
      BY <1>4, <1>5, <3>1, <3>2
  <2>2. CASE i = lo + 1
    <3>1. r[i] = s
      BY <1>1, <1>2, <2>2
    <3>2. ASSUME i > 1 PROVE r[i - 1].tsn <= s.tsn
      <4>1. PICK j \in 1 .. n : j = i - 1 /\ j <= lo /\ j \in 1 .. n + 1
        BY <1>1, <2>2, <3>2
      <4>2. r[j] = q[j] /\ q[j].tsn < s.tsn
        BY <1>1, <1>2, <4>1
      <4> QED
        BY <1>4, <1>6, <4>1, <4>2
    <3> QED
      BY <3>1, <3>2
  <2>3. CASE i > lo + 1
    <3>1. PICK j \in 1 .. n : j = i - 1 /\ ~(j <= lo) /\ j \in 1 .. n + 1
      BY <1>1, <2>3
    <3>2. r[i] = q[j] /\ ~(q[j].tsn < s.tsn)
      BY <1>1, <1>2, <2>3, <3>1
    <3>3. CASE j = lo + 1
      <4>1. r[j] = s
        BY <1>1, <1>2, <3>1, <3>3
      <4> QED
        BY <1>4, <1>6, <3>1, <3>2, <4>1
    <3>4. CASE j > lo + 1
      <4>0. ~(j <= lo) /\ j # lo + 1 /\ j > 1
        BY <1>1, <3>4
      <4>1. r[j] = q[j - 1] /\ j > 1
        BY <1>2, <3>1, <4>0
      <4> QED
        BY <1>4, <1>5, <3>1, <3>2, <4>1
    <3> QED
      BY <1>1, <3>1, <3>3, <3>4
  <2> QED
    BY <1>1, <2>1, <2>2, <2>3
<1> QED
  BY <1>2, <1>3, <1>7 DEF Beyond

LEMMA AheadStep ==
    ASSUME RxInv, ~endread, NEW s \in Segment, ~(s.tsn <= rsn), RxAhead(s),
           UNCHANGED consumed
    PROVE  RxInv'
<1>1. RxTyped /\ BufferAccounting /\ Ordered
  BY DEF RxInv
<1>2. /\ rsn' = rsn /\ rsegs' = rsegs /\ ravail' = ravail /\ rmsgsize' = rmsgsize
      /\ rmsgavail' = rmsgavail /\ ended' = ended
  BY DEF RxAhead
<1>3. PICK lo \in 0 .. Len(rahead) :
        /\ lo = Cardinality({i \in DOMAIN rahead : rahead[i].tsn < s.tsn})
        /\ \A i \in 1 .. Len(rahead) : rahead[i].tsn < s.tsn <=> i <= lo
  BY <1>1, LowerCount DEF RxTyped, Ordered
<1>4. \/ rahead' = rahead /\ rbufused' = rbufused
      \/ rahead' = InsertAt(rahead, lo + 1, s) /\ rbufused' = rbufused + s.size
  BY <1>3 DEF RxAhead
<1>5. CASE rahead' = rahead /\ rbufused' = rbufused
  BY <1>2, <1>5 DEF RxInv, RxTyped, BufferAccounting, Ordered, endread
<1>6. CASE rahead' = InsertAt(rahead, lo + 1, s) /\ rbufused' = rbufused + s.size
  <2>1. s.tsn > rsn /\ s.size \in Nat
    BY <1>1 DEF RxTyped, Segment
  <2>2. Beyond(rahead', rsn')
    <3>1. Beyond(InsertAt(rahead, lo + 1, s), rsn)
      BY <1>1, <1>3, <2>1, InsertBeyond DEF RxTyped, Ordered
    <3> QED
      BY <1>2, <1>6, <3>1
  <2>3. rahead' \in Seq(Segment) /\ SizeOf(rahead') = SizeOf(rahead) + s.size
    <3>1. /\ InsertAt(rahead, lo + 1, s) \in Seq(Segment)
          /\ SizeOf(InsertAt(rahead, lo + 1, s)) = SizeOf(rahead) + s.size
      BY <1>1, InsertDoes DEF RxTyped, Inserted
    <3> QED
      BY <1>6, <3>1
  <2>4. SizeOf(rahead) \in Nat /\ SizeOf(rsegs) \in Nat
    BY <1>1, SizeConcat DEF RxTyped
  <2>5. BufferAccounting'
    <3>1. rbufused = SizeOf(rsegs) + SizeOf(rahead) /\ rbufused' = rbufused + s.size
      BY <1>1, <1>6 DEF BufferAccounting
    <3>2. rbufused' = SizeOf(rsegs) + SizeOf(rahead')
      BY <2>1, <2>3, <2>4, <3>1
    <3> QED
      BY <1>2, <3>2 DEF BufferAccounting
  <2>6. RxTyped'
    BY <1>1, <1>2, <1>6, <2>1, <2>3 DEF RxTyped
  <2>7. Ordered'
    BY <1>1, <1>2, <2>2 DEF Ordered
  <2> QED
    BY <2>5, <2>6, <2>7 DEF RxInv
<1> QED
  BY <1>4, <1>5, <1>6

LEMMA RxDataStep ==
    ASSUME RxInv, NEW s \in Segment, RxData(s)
    PROVE  RxInv'
<1>1. CASE endread
  BY <1>1 DEF RxData, rxvars, RxInv, RxTyped, BufferAccounting, Ordered, endread
<1>2. CASE ~endread /\ s.tsn <= rsn
  <2>1. RxInOrder(s) /\ consumed' = consumed
    BY <1>2 DEF RxData
  <2> QED
    BY <1>2, <2>1, InOrderStep
<1>3. CASE ~endread /\ ~(s.tsn <= rsn)
  <2>1. RxAhead(s) /\ consumed' = consumed
    BY <1>3 DEF RxData
  <2> QED
    BY <1>3, <2>1, AheadStep
<1> QED
  BY <1>1, <1>2, <1>3

-----------------------------------------------------------------------------
(* Reading.                                                                *)

RdRec == [rsegs : Seq(Segment), ravail : Int, rmsgsize : Seq(Int), rmsgavail : Int,
          got : Nat, room : Int, fits : BOOLEAN, closed : BOOLEAN, stopped : BOOLEAN]

(* readData() hands out no more. *)
Halted(rd) == rd.stopped \/ rd.room = 0 \/ rd.ravail = 0

(* The outcomes of ReadSegment, besides a segment that does not fit. *)
Leaves(rd, s, new) ==
    /\ Halted(rd) /\ Halted(new)
    /\ new.rsegs = Append(rd.rsegs, s)
    /\ new.got = rd.got /\ new.ravail = rd.ravail

Hands(rd, s, new) ==
    /\ ~Halted(rd)
    /\ new.rsegs = rd.rsegs
    /\ new.got = rd.got + s.size /\ new.ravail = rd.ravail - s.size

LEMMA ReadDoes ==
    ASSUME NEW rd \in RdRec, NEW s \in Segment
    PROVE  /\ ReadSegment(rd, s) \in RdRec
           /\ ReadSegment(rd, s).fits =>
                 /\ rd.fits
                 /\ Leaves(rd, s, ReadSegment(rd, s)) \/ Hands(rd, s, ReadSegment(rd, s))
<1> DEFINE head == Head(rd.rmsgsize) - s.size
           out == [rd EXCEPT !.room = @ - s.size, !.ravail = @ - s.size, !.got = @ + s.size]
           cl == "close" \in s.flags
           x == IF rd.rmsgsize = <<>>
                THEN [out EXCEPT !.rmsgavail = @ - s.size, !.closed = cl, !.stopped = cl]
                ELSE IF head = 0
                THEN [out EXCEPT !.rmsgsize = Tail(@), !.stopped = TRUE]
                ELSE [out EXCEPT !.rmsgsize = <<head>> \o Tail(@),
                                 !.closed = cl, !.stopped = cl]
<1>1. /\ rd.rsegs \in Seq(Segment) /\ rd.ravail \in Int /\ rd.rmsgsize \in Seq(Int)
      /\ rd.rmsgavail \in Int /\ rd.got \in Nat /\ rd.room \in Int
      /\ rd.fits \in BOOLEAN /\ rd.closed \in BOOLEAN /\ rd.stopped \in BOOLEAN
      /\ s.size \in Nat
  BY DEF RdRec, Segment
<1>2. CASE Halted(rd)
  <2>1. ReadSegment(rd, s) = [rd EXCEPT !.rsegs = Append(@, s)]
    BY <1>2 DEF ReadSegment, Halted
  <2>2. Append(rd.rsegs, s) \in Seq(Segment)
    BY <1>1, AppendProperties
  <2>3. ReadSegment(rd, s) \in RdRec
    BY <2>1, <2>2 DEF RdRec
  <2>4. Leaves(rd, s, ReadSegment(rd, s)) /\ ReadSegment(rd, s).fits = rd.fits
    BY <1>2, <2>1 DEF Leaves, Halted, RdRec
  <2> QED
    BY <2>3, <2>4
<1>3. CASE ~Halted(rd) /\ rd.room < s.size
  <2>1. ReadSegment(rd, s) = [rd EXCEPT !.fits = FALSE, !.stopped = TRUE]
    BY <1>3 DEF ReadSegment, Halted
  <2>2. ReadSegment(rd, s) \in RdRec /\ ReadSegment(rd, s).fits = FALSE
    BY <2>1 DEF RdRec
  <2> QED
    BY <2>2
<1>4. CASE ~Halted(rd) /\ ~(rd.room < s.size)
  <2>1. ReadSegment(rd, s) = x
    BY <1>4 DEF ReadSegment, Halted
  <2>2. /\ rd.room - s.size \in Int /\ rd.ravail - s.size \in Int /\ rd.got + s.size \in Nat
        /\ rd.rmsgavail - s.size \in Int /\ cl \in BOOLEAN
    <3>1. /\ rd.ravail \in Int /\ rd.rmsgavail \in Int /\ rd.got \in Nat /\ rd.room \in Int
          /\ s.size \in Nat
      BY <1>1
    <3>2. /\ rd.room - s.size \in Int /\ rd.ravail - s.size \in Int /\ rd.got + s.size \in Nat
          /\ rd.rmsgavail - s.size \in Int
      BY ONLY <3>1
    <3> QED
      BY <3>2
  <2>3. /\ out \in RdRec /\ out.rsegs = rd.rsegs /\ out.got = rd.got + s.size
        /\ out.ravail = rd.ravail - s.size /\ out.fits = rd.fits
        /\ out.rmsgsize = rd.rmsgsize /\ out.rmsgavail = rd.rmsgavail
    BY <2>2 DEF RdRec
  <2> HIDE DEF out, cl, head
  <2>4. x \in RdRec /\ x.rsegs = out.rsegs /\ x.got = out.got /\ x.ravail = out.ravail
        /\ x.fits = out.fits
    <3>1. CASE rd.rmsgsize = <<>>
      <4>1. out.rmsgavail - s.size \in Int
        BY <2>2, <2>3
      <4> QED
        BY <2>2, <2>3, <3>1, <4>1 DEF RdRec
    <3>2. CASE rd.rmsgsize # <<>>
      <4>1. Head(rd.rmsgsize) \in Int /\ Tail(rd.rmsgsize) \in Seq(Int)
        BY <1>1, <3>2, HeadTailProperties
      <4>2. head \in Int
        BY <1>1, <4>1 DEF head
      <4>3. <<head>> \o Tail(rd.rmsgsize) \in Seq(Int)
        BY <4>1, <4>2
      <4>4. CASE head = 0
        BY <2>3, <3>2, <4>1, <4>4 DEF RdRec
      <4>5. CASE head # 0
        BY <2>2, <2>3, <3>2, <4>3, <4>5 DEF RdRec
      <4> QED
        BY <4>4, <4>5
    <3> QED
      BY <3>1, <3>2
  <2>5. Hands(rd, s, x)
    BY <1>4, <2>3, <2>4 DEF Hands
  <2> QED
    BY <2>1, <2>3, <2>4, <2>5
<1> QED
  BY <1>2, <1>3, <1>4

(* The states that readData() goes through with the segments q. *)
ReadRun(f, base, q) ==
    /\ f \in [0 .. Len(q) -> RdRec] /\ f[0] = base
    /\ \A i \in 1 .. Len(q) : f[i] = ReadSegment(f[i - 1], q[i])

LEMMA ReadRuns ==
    ASSUME NEW base \in RdRec, NEW q \in Seq(Segment)
    PROVE  \E f : ReadRun(f, base, q) /\ FoldLeft(ReadSegment, base, q) = f[Len(q)]
<1>1. PICK n \in Nat : n = Len(q) /\ DOMAIN q = 1 .. n
  BY LenProperties
<1>2. \A i \in 1 .. n : q[i] \in Segment
  BY <1>1, ElementOfSeq
<1> DEFINE F(f) == f = [s \in SUBSET (1 .. n) |->
                          IF s = {} THEN base ELSE ReadSegment(f[s \ {Max(s)}], q[Max(s)])]
           G == [x \in (1 .. n) \X RdRec |-> ReadSegment(x[2], q[x[1]])]
<1>3. G \in [(1 .. n) \X RdRec -> RdRec]
  <2>1. ASSUME NEW i \in 1 .. n, NEW v \in RdRec PROVE ReadSegment(v, q[i]) \in RdRec
    BY <1>2, ReadDoes
  <2>2. ASSUME NEW x \in (1 .. n) \X RdRec PROVE ReadSegment(x[2], q[x[1]]) \in RdRec
    <3>1. x[1] \in 1 .. n /\ x[2] \in RdRec
      OBVIOUS
    <3> QED
      BY <2>1, <3>1, Zenon
  <2> QED
    BY <2>2, Zenon
<1>4. \A i \in 1 .. n, v \in RdRec : G[<<i, v>>] = ReadSegment(v, q[i])
  OBVIOUS
<1> HIDE DEF G
<1>5. PICK it \in [SUBSET (1 .. n) -> RdRec] : SeqFolds(it, n, base, G)
  BY <1>3, SeqFoldExists, Zenon
<1>6. F(it)
  <2>1. ASSUME NEW s \in SUBSET (1 .. n), s # {}
        PROVE  it[s] = ReadSegment(it[s \ {Max(s)}], q[Max(s)])
    <3>1. Max(s) \in 1 .. n /\ s \ {Max(s)} \in SUBSET (1 .. n)
      BY <2>1, Greatest
    <3>2. it[s] = G[<<Max(s), it[s \ {Max(s)}]>>]
      BY <1>5, <2>1 DEF SeqFolds
    <3>3. it[s \ {Max(s)}] \in RdRec
      BY <3>1
    <3> QED
      BY <1>4, <3>1, <3>2, <3>3
  <2>2. it[{}] = base
    BY <1>5 DEF SeqFolds
  <2> QED
    BY <1>5, <2>1, <2>2 DEF SeqFolds
<1>7. PICK h : h = (CHOOSE f : F(f))
  OBVIOUS
<1>8. F(h)
  BY <1>6, <1>7
<1>9. FoldLeft(ReadSegment, base, q) = h[1 .. n]
  BY <1>1, <1>7 DEF FoldLeft, MapThenFoldSet
<1>10. h[{}] = base
  BY <1>8
<1>11. ASSUME NEW i \in 1 .. n PROVE h[1 .. i] = ReadSegment(h[1 .. i - 1], q[i])
  <2>1. /\ 1 .. i \in SUBSET (1 .. n) /\ 1 .. i # {} /\ Max(1 .. i) = i
        /\ (1 .. i) \ {i} = 1 .. i - 1
    BY MaxOfInterval
  <2> QED
    BY <1>8, <2>1
<1> DEFINE f == [i \in 0 .. n |-> h[1 .. i]]
<1>12. f[0] = base
  BY <1>10
<1>13. \A i \in 1 .. n : f[i] = ReadSegment(f[i - 1], q[i])
  BY <1>11
<1>14. f[n] = h[1 .. n]
  OBVIOUS
<1> DEFINE P == {i \in 0 .. n : f[i] \in RdRec}
<1>15. f = [i \in 0 .. n |-> f[i]]
  OBVIOUS
<1> HIDE DEF f
<1>16. ASSUME NEW i \in 1 .. n, i - 1 \in P PROVE i \in P
  BY <1>2, <1>13, <1>16, ReadDoes
<1>17. \A i \in 0 .. n : i \in P
  <2>1. P \in SUBSET (0 .. n) /\ 0 \in P
    BY <1>12
  <2> HIDE DEF P
  <2> QED
    BY <1>16, <2>1, Upwards
<1>18. f \in [0 .. n -> RdRec]
  BY <1>15, <1>17
<1>19. ReadRun(f, base, q)
  BY <1>1, <1>12, <1>13, <1>18 DEF ReadRun
<1> QED
  BY <1>1, <1>9, <1>14, <1>19

(* What is read or left after i segments of q, when the read started at got. *)
Position(q, start, i) == IF i = 0 THEN start ELSE q[i].tsn + q[i].size

(* What a read keeps true, as long as segments fit, with the reader at from: *)
(* it accounts for the bytes before pos, and those left follow those read.   *)
Accounts(rd, bytes) == rd.got + SizeOf(rd.rsegs) = bytes

ReadsOn(rd, from, to, pos) ==
    /\ from + rd.got + rd.ravail = to
    /\ Contiguous(rd.rsegs, from + rd.got, pos)
    /\ rd.rsegs # <<>> => Halted(rd)

LEMMA ReadAccounts ==
    ASSUME NEW rd \in RdRec, NEW s \in Segment, ReadSegment(rd, s).fits, NEW bytes \in Int,
           Accounts(rd, bytes)
    PROVE  Accounts(ReadSegment(rd, s), bytes + s.size)
<1>1. PICK new \in RdRec : /\ new = ReadSegment(rd, s)
                           /\ Leaves(rd, s, new) \/ Hands(rd, s, new)
  BY ReadDoes
<1>2. rd.got \in Nat /\ rd.rsegs \in Seq(Segment) /\ s.size \in Nat
  BY DEF RdRec, Segment
<1>3. SizeOf(rd.rsegs) \in Nat /\ SizeOf(Append(rd.rsegs, s)) = SizeOf(rd.rsegs) + s.size
  BY <1>2, SizeAppend
<1>4. CASE Leaves(rd, s, new)
  <2>1. new.got = rd.got /\ SizeOf(new.rsegs) = SizeOf(rd.rsegs) + s.size
    BY <1>3, <1>4 DEF Leaves
  <2> QED
    BY <1>1, <1>2, <1>3, <2>1 DEF Accounts
<1>5. CASE Hands(rd, s, new)
  <2>1. new.got = rd.got + s.size /\ SizeOf(new.rsegs) = SizeOf(rd.rsegs)
    BY <1>5 DEF Hands
  <2> QED
    BY <1>1, <1>2, <1>3, <2>1 DEF Accounts
<1> QED
  BY <1>1, <1>4, <1>5

LEMMA ReadOrder ==
    ASSUME NEW rd \in RdRec, NEW s \in Segment, ReadSegment(rd, s).fits,
           NEW from \in Nat, NEW to \in Nat, NEW pos \in Int, ReadsOn(rd, from, to, pos),
           s.tsn = pos
    PROVE  ReadsOn(ReadSegment(rd, s), from, to, pos + s.size)
<1>1. PICK new \in RdRec : /\ new = ReadSegment(rd, s)
                           /\ Leaves(rd, s, new) \/ Hands(rd, s, new)
  BY ReadDoes
<1>2. /\ rd.got \in Nat /\ rd.ravail \in Int /\ rd.rsegs \in Seq(Segment)
      /\ s.size \in Nat
  BY DEF RdRec, Segment
<1>3. /\ from + rd.got + rd.ravail = to /\ Contiguous(rd.rsegs, from + rd.got, pos)
      /\ rd.rsegs # <<>> => Halted(rd)
  BY DEF ReadsOn
<1>4. CASE Leaves(rd, s, new)
  <2>1. Contiguous(Append(rd.rsegs, s), from + rd.got, pos + s.size)
    BY <1>2, <1>3, ContiguousAppend
  <2> QED
    BY <1>1, <1>3, <1>4, <2>1 DEF Leaves, ReadsOn
<1>5. CASE Hands(rd, s, new)
  <2>1. rd.rsegs = <<>> /\ new.rsegs = <<>>
    BY <1>3, <1>5 DEF Hands
  <2>2. new.got = rd.got + s.size /\ new.ravail = rd.ravail - s.size
    BY <1>5 DEF Hands
  <2>3. from + rd.got = pos
    BY <1>3, <2>1 DEF Contiguous
  <2>4. from + new.got = pos + s.size /\ from + new.got + new.ravail = to
    BY <1>2, <1>3, <2>2, <2>3
  <2>5. Contiguous(new.rsegs, from + new.got, pos + s.size)
    BY <2>1, <2>4 DEF Contiguous
  <2> QED
    BY <1>1, <2>1, <2>4, <2>5 DEF ReadsOn
<1> QED
  BY <1>1, <1>4, <1>5

(* The segments of rd are the bytes behind those read, up to to. *)
Continues(rd, from, to) ==
    from + rd.got + rd.ravail = to /\ Contiguous(rd.rsegs, from + rd.got, to)

(* A read of which all segments fit: the bytes read and left are those that  *)
(* were there, and if they were in order, they still are.                    *)
LEMMA ReadAll ==
    ASSUME NEW rd \in RdRec, NEW room \in Int
    PROVE  /\ Reading(rd, room) \in RdRec
           /\ Reading(rd, room).fits =>
                /\ rd.fits
                /\ Accounts(Reading(rd, room), rd.got + SizeOf(rd.rsegs))
                /\ \A from \in Nat, to \in Nat :
                      Continues(rd, from, to) => Continues(Reading(rd, room), from, to)
<1> DEFINE base == [rd EXCEPT !.rsegs = <<>>, !.room = room, !.stopped = FALSE]
<1>1. PICK q \in Seq(Segment) : q = rd.rsegs
  BY DEF RdRec
<1>2. rd.got \in Nat /\ rd.ravail \in Int
  BY DEF RdRec
<1>3. /\ base \in RdRec /\ base.rsegs = <<>> /\ base.got = rd.got /\ base.ravail = rd.ravail
      /\ base.fits = rd.fits
  <2>1. <<>> \in Seq(Segment)
    OBVIOUS
  <2> QED
    BY <2>1 DEF RdRec
<1>4. Reading(rd, room) = FoldLeft(ReadSegment, base, q)
  BY <1>1 DEF Reading
<1> HIDE DEF base
<1>5. PICK f : ReadRun(f, base, q) /\ FoldLeft(ReadSegment, base, q) = f[Len(q)]
  BY <1>3, ReadRuns
<1>6. PICK z : SizeRun(z, q) /\ SizeOf(q) = z[Len(q)]
  BY SizeRuns
<1>7. PICK n \in Nat : n = Len(q) /\ DOMAIN q = 1 .. n
  BY LenProperties
<1>8. /\ f \in [0 .. n -> RdRec] /\ f[0] = base
      /\ \A i \in 1 .. n : f[i] = ReadSegment(f[i - 1], q[i])
      /\ z \in [0 .. n -> Nat] /\ z[0] = 0
      /\ \A i \in 1 .. n : z[i] = z[i - 1] + q[i].size
  BY <1>5, <1>6, <1>7 DEF ReadRun, SizeRun
<1>9. \A i \in 1 .. n : q[i] \in Segment
  BY <1>7, ElementOfSeq
<1> DEFINE A == {i \in 0 .. n : f[i].fits => base.fits /\ Accounts(f[i], rd.got + z[i])}
<1>10. \A i \in 0 .. n : i \in A
  <2>1. A \in SUBSET (0 .. n)
    OBVIOUS
  <2>2. 0 \in A
    BY <1>2, <1>3, <1>8, SizeEmpty DEF Accounts
  <2>3. ASSUME NEW i \in 1 .. n, i - 1 \in A PROVE i \in A
    <3>1. PICK r \in RdRec, s \in Segment : r = f[i - 1] /\ s = q[i]
      <4>1. f[i - 1] \in RdRec /\ q[i] \in Segment
        BY <1>8, <1>9
      <4> QED
        BY <4>1, Zenon
    <3>2. f[i] = ReadSegment(r, s) /\ z[i] = z[i - 1] + s.size /\ z[i - 1] \in Nat
      BY <1>8, <3>1
    <3>3. s.size \in Nat
      BY DEF Segment
    <3>4. ASSUME f[i].fits PROVE base.fits /\ Accounts(f[i], rd.got + z[i])
      <4>1. r.fits
        BY <3>2, <3>4, ReadDoes
      <4>2. base.fits /\ Accounts(r, rd.got + z[i - 1])
        BY <2>3, <3>1, <4>1
      <4>3. Accounts(f[i], (rd.got + z[i - 1]) + s.size)
        BY <1>2, <3>2, <3>4, <4>2, ReadAccounts
      <4>4. (rd.got + z[i - 1]) + s.size = rd.got + z[i]
        BY <1>2, <3>2, <3>3
      <4> QED
        BY <4>2, <4>3, <4>4
    <3> QED
      BY <3>4
  <2> HIDE DEF A
  <2> QED
    BY <2>1, <2>2, <2>3, Upwards
<1>11. ASSUME NEW from \in Nat, NEW to \in Nat, Continues(rd, from, to), f[n].fits
       PROVE  Continues(f[n], from, to)
  <2>0. from + rd.got + rd.ravail = to /\ Contiguous(q, from + rd.got, to)
    BY <1>1, <1>11 DEF Continues
  <2> DEFINE pos(i) == Position(q, from + rd.got, i)
             B == {i \in 0 .. n : f[i].fits => ReadsOn(f[i], from, to, pos(i))}
  <2>1. B \in SUBSET (0 .. n)
    OBVIOUS
  <2>2. 0 \in B
    <3>1. ReadsOn(base, from, to, from + rd.got)
      BY <1>3, <2>0 DEF ReadsOn, Contiguous
    <3> QED
      BY <1>8, <3>1 DEF Position
  <2>3. ASSUME NEW i \in 1 .. n, i - 1 \in B PROVE i \in B
    <3>1. PICK r \in RdRec, s \in Segment : r = f[i - 1] /\ s = q[i]
      <4>1. f[i - 1] \in RdRec /\ q[i] \in Segment
        BY <1>8, <1>9
      <4> QED
        BY <4>1, Zenon
    <3>2. f[i] = ReadSegment(r, s)
      BY <1>8, <3>1
    <3>3. s.tsn = pos(i - 1)
      BY <1>7, <2>0, <3>1 DEF Contiguous, Position
    <3>4. s.tsn \in Nat /\ s.size \in Nat
      BY DEF Segment
    <3>5. pos(i) = pos(i - 1) + s.size /\ pos(i - 1) \in Int
      <4>1. pos(i) = s.tsn + s.size
        BY <3>1 DEF Position
      <4> QED
        BY <3>3, <3>4, <4>1
    <3> HIDE DEF pos
    <3>6. ASSUME f[i].fits PROVE ReadsOn(f[i], from, to, pos(i))
      <4>1. r.fits
        BY <3>2, <3>6, ReadDoes
      <4>2. ReadsOn(r, from, to, pos(i - 1))
        BY <2>3, <3>1, <4>1
      <4>3. ReadsOn(f[i], from, to, pos(i - 1) + s.size)
        BY <3>2, <3>3, <3>5, <3>6, <4>2, ReadOrder
      <4> QED
        BY <3>5, <4>3
    <3> QED
      BY <3>6
  <2>4. n \in B
    <3> HIDE DEF B
    <3>1. \A i \in 0 .. n : i \in B
      BY <2>1, <2>2, <2>3, Upwards
    <3> QED
      BY <3>1
  <2>5. ReadsOn(f[n], from, to, pos(n))
    BY <1>11, <2>4
  <2>6. pos(n) = to
    <3>1. CASE q = <<>>
      <4>1. n = 0
        BY <1>7, <3>1, EmptySeq
      <4> QED
        BY <2>0, <3>1, <4>1 DEF Position, Contiguous
    <3>2. CASE q # <<>>
      <4>1. n # 0
        BY <1>7, <3>2, EmptySeq
      <4> QED
        BY <1>7, <2>0, <3>2, <4>1 DEF Position, Contiguous, Last
    <3> QED
      BY <3>1, <3>2
  <2> QED
    BY <2>5, <2>6 DEF ReadsOn, Continues
<1>12. f[n] \in RdRec /\ f[n].fits => base.fits /\ Accounts(f[n], rd.got + SizeOf(q))
  BY <1>6, <1>7, <1>8, <1>10
<1>13. PICK x \in RdRec : x = f[n] /\ x = Reading(rd, room)
  BY <1>4, <1>5, <1>7, <1>8
<1> QED
  BY <1>1, <1>3, <1>11, <1>12, <1>13

-----------------------------------------------------------------------------
(* The steps of the reader, and all steps.                                 *)

(* A read that leaves the state rd. *)
LEMMA AfterReadStep ==
    ASSUME RxInv, NEW rd \in RdRec, AfterRead(rd), Accounts(rd, SizeOf(rsegs)),
           \A from \in Nat, to \in Nat :
              from + ravail = to /\ Contiguous(rsegs, from, to)
                => Continues(rd, from, to)
    PROVE  RxInv'
<1>1. RxTyped /\ BufferAccounting /\ (~endread => Ordered)
  BY DEF RxInv
<1>2. consumed' = consumed + rd.got /\ rsn' = rsn
  BY DEF AfterRead
<1>3. /\ rd.rsegs \in Seq(Segment) /\ rd.ravail \in Int /\ rd.rmsgsize \in Seq(Int)
      /\ rd.rmsgavail \in Int /\ rd.got \in Nat
  BY DEF RdRec
<1>4. consumed' \in Nat /\ rsn' \in Nat
  BY <1>1, <1>2, <1>3 DEF RxTyped
<1>5. CASE rd.closed
  <2>1. EndRead("peer")
    BY <1>5 DEF AfterRead
  <2> QED
    BY <1>4, <2>1, EndReadStep
<1>6. CASE ~rd.closed
  <2>1. /\ rsegs' = rd.rsegs /\ ravail' = rd.ravail /\ rmsgsize' = rd.rmsgsize
        /\ rmsgavail' = rd.rmsgavail /\ rbufused' = rbufused - rd.got
        /\ rahead' = rahead /\ ended' = ended
    BY <1>6 DEF AfterRead
  <2>2. SizeOf(rsegs) \in Nat /\ SizeOf(rahead) \in Nat /\ SizeOf(rd.rsegs) \in Nat
    BY <1>1, <1>3, SizeConcat DEF RxTyped
  <2>3. RxTyped'
    BY <1>1, <1>3, <1>4, <2>1 DEF RxTyped
  <2>4. BufferAccounting'
    <3>1. rbufused = SizeOf(rsegs) + SizeOf(rahead) /\ rd.got + SizeOf(rd.rsegs) = SizeOf(rsegs)
      BY <1>1 DEF BufferAccounting, Accounts
    <3>2. rbufused - rd.got = SizeOf(rd.rsegs) + SizeOf(rahead)
      BY <1>3, <2>2, <3>1
    <3> QED
      BY <2>1, <3>2 DEF BufferAccounting
  <2>5. ASSUME ~endread' PROVE Ordered'
    <3>1. Ordered
      BY <1>1, <2>1, <2>5 DEF endread
    <3>2. consumed + rd.got + rd.ravail = rsn /\ Contiguous(rd.rsegs, consumed + rd.got, rsn)
      BY <1>1, <3>1 DEF Ordered, RxTyped, Continues
    <3> QED
      BY <1>2, <2>1, <3>1, <3>2 DEF Ordered
  <2> QED
    BY <2>3, <2>4, <2>5 DEF RxInv
<1> QED
  BY <1>5, <1>6

(* What both readData() and readMessage() start from. *)
LEMMA ReadFrom ==
    ASSUME RxInv
    PROVE  /\ RxState \in RdRec /\ RxState.got = 0 /\ RxState.rsegs = rsegs
           /\ RxState.ravail = ravail
  BY DEF RxInv, RxTyped, RxState, RdRec

LEMMA ReadDataStep ==
    ASSUME RxInv, NEW n \in Int, ReadData(n)
    PROVE  RxInv'
<1>1. PICK st \in RdRec : st = RxState /\ st.got = 0 /\ st.rsegs = rsegs /\ st.ravail = ravail
  BY ReadFrom
<1>2. PICK rd \in RdRec : rd = Reading(st, n)
  BY ReadAll
<1>3. AfterRead(rd) /\ rd.fits
  BY <1>1, <1>2 DEF ReadData, AfterRead
<1>4. Accounts(rd, 0 + SizeOf(rsegs))
  BY <1>1, <1>2, <1>3, ReadAll
<1>5. ASSUME NEW from \in Nat, NEW to \in Nat, from + ravail = to, Contiguous(rsegs, from, to)
      PROVE  Continues(rd, from, to)
  <2>1. Continues(st, from, to)
    BY <1>1, <1>5 DEF Continues
  <2> QED
    BY <1>2, <1>3, <2>1, ReadAll
<1>6. 0 + SizeOf(rsegs) = SizeOf(rsegs)
  BY SizeConcat DEF RxInv, RxTyped
<1> QED
  BY <1>3, <1>4, <1>5, <1>6, AfterReadStep

LEMMA ReadMessageStep ==
    ASSUME RxInv, NEW n \in Int, ReadMessage(n)
    PROVE  RxInv'
<1>1. PICK st \in RdRec : st = RxState /\ st.got = 0 /\ st.rsegs = rsegs /\ st.ravail = ravail
  BY ReadFrom
<1>2. PICK first \in RdRec : first = Reading(st, n)
  BY ReadAll
<1>3. ravail \in Int
  BY DEF RxInv, RxTyped
<1>4. PICK rd \in RdRec : rd = Reading(first, ravail)
  BY <1>3, ReadAll
<1>5. AfterRead(first) \/ AfterRead(rd)
  BY <1>1, <1>2, <1>4 DEF ReadMessage
<1>6. 0 + SizeOf(rsegs) = SizeOf(rsegs)
  BY SizeConcat DEF RxInv, RxTyped
<1>7. ASSUME first.fits
      PROVE  /\ Accounts(first, SizeOf(rsegs))
             /\ \A from \in Nat, to \in Nat :
                  from + ravail = to /\ Contiguous(rsegs, from, to)
                    => Continues(first, from, to)
  <2>1. Accounts(first, 0 + SizeOf(rsegs))
    BY <1>1, <1>2, <1>7, ReadAll
  <2>2. ASSUME NEW from \in Nat, NEW to \in Nat, from + ravail = to, Contiguous(rsegs, from, to)
        PROVE  Continues(first, from, to)
    <3>1. Continues(st, from, to)
      BY <1>1, <2>2 DEF Continues
    <3> QED
      BY <1>2, <1>7, <3>1, ReadAll
  <2> QED
    BY <1>6, <2>1, <2>2
<1>8. CASE AfterRead(first)
  <2>1. first.fits
    BY <1>8 DEF AfterRead
  <2> QED
    BY <1>7, <1>8, <2>1, AfterReadStep
<1>9. CASE AfterRead(rd)
  <2>1. rd.fits
    BY <1>9 DEF AfterRead
  <2>2. first.fits /\ Accounts(rd, first.got + SizeOf(first.rsegs))
    BY <1>3, <1>4, <2>1, ReadAll
  <2>3. Accounts(rd, SizeOf(rsegs))
    BY <1>7, <2>2 DEF Accounts
  <2>4. ASSUME NEW from \in Nat, NEW to \in Nat, from + ravail = to, Contiguous(rsegs, from, to)
        PROVE  Continues(rd, from, to)
    <3>1. Continues(first, from, to)
      BY <1>7, <2>2, <2>4
    <3> QED
      BY <1>3, <1>4, <2>1, <3>1, ReadAll
  <2> QED
    BY <1>9, <2>3, <2>4, AfterReadStep
<1> QED
  BY <1>5, <1>8, <1>9

LEMMA RxStill ==
    ASSUME RxInv, UNCHANGED <<rsn, ravail, rmsgavail, rbufused, rahead, rsegs, rmsgsize,
                              ended, consumed>>
    PROVE  RxInv'
  BY DEF RxInv, RxTyped, BufferAccounting, Ordered, endread

LEMMA ReaderStep ==
    ASSUME RxInv, Reader
    PROVE  RxInv'
<1>1. ASSUME NEW n \in ReadSizes, ReadData(n) \/ ReadMessage(n) PROVE RxInv'
  <2>1. n \in Int
    BY StreamRxAssumption
  <2> QED
    BY <1>1, <2>1, ReadDataStep, ReadMessageStep
<1>2. CASE ShutdownRead
  <2>1. EndRead("reader") /\ rsn' \in Nat /\ consumed' \in Nat
    BY <1>2 DEF ShutdownRead, RxInv, RxTyped
  <2> QED
    BY <2>1, EndReadStep
<1>3. ASSUME NEW n \in ReceiveBuffers, SetReceiveBuffer(n) PROVE RxInv'
  BY <1>3, RxStill DEF SetReceiveBuffer
<1> QED
  BY <1>1, <1>2, <1>3 DEF Reader

LEMMA RxInvInit ==
    ASSUME Init
    PROVE  RxInv
<1>1. /\ rsn = 0 /\ ravail = 0 /\ rmsgavail = 0 /\ rbufused = 0 /\ consumed = 0
      /\ rahead = <<>> /\ rsegs = <<>> /\ rmsgsize = <<>>
  BY DEF Init, RxInit
<1>2. RxTyped
  BY <1>1 DEF RxTyped
<1>3. BufferAccounting
  BY <1>1, SizeEmpty DEF BufferAccounting
<1>4. Ordered
  BY <1>1 DEF Ordered, Contiguous, Beyond
<1> QED
  BY <1>2, <1>3, <1>4 DEF RxInv

LEMMA RxInvStep ==
    ASSUME TxInv, RxInv, [Next]_vars
    PROVE  RxInv'
<1>1. CASE AppWrite \/ Sender \/ Network \/ UNCHANGED vars
  BY <1>1, RxStill DEF AppWrite, Sender, Network, vars, rxvars
<1>2. CASE App
  BY <1>2, ReaderStep DEF App
<1>3. ASSUME NEW n \in wire, Deliver(n) PROVE RxInv'
  <2>1. pkts[n].seg \in Segment
    BY DEF TxInv, TxTyped, Packet
  <2>2. RxData(pkts[n].seg) \/ UNCHANGED rxvars
    BY <1>3 DEF Deliver, RxInitPacket, RxInitDelayed, RxDataPacket, RxAttachKnown,
                RxAttachUnknown
  <2> QED
    BY <2>1, <2>2, RxDataStep, RxStill DEF rxvars
<1> QED
  BY <1>1, <1>2, <1>3 DEF Next

LEMMA RxInvAlways == Spec => []RxInv
<1>1. Init => RxInv
  BY RxInvInit
<1>2. TxInv /\ RxInv /\ [Next]_vars => RxInv'
  BY RxInvStep
<1> QED
  BY <1>1, <1>2, TxInvAlways, PTL DEF Spec

(* However segments overlap, repeat or overtake each other on the way into  *)
(* rxData(), and however they are read: what waits in rsegs is the bytes    *)
(* from the reader's position to rsn in order, and rahead holds only what   *)
(* is beyond, sorted.                                                       *)
THEOREM ReceivedInOrder == Spec => []BytesInOrder
<1>1. RxInv => BytesInOrder
  BY RxInvBytes
<1> QED
  BY <1>1, RxInvAlways, PTL

(* rbufused, from which calcReceiveWindow() computes the window, is the     *)
(* number of bytes in rsegs and rahead, through trimming and dropping in    *)
(* rxData(), reading and end of stream.                                     *)
THEOREM BufferCharged == Spec => []BufferAccounting
<1>1. RxInv => BufferAccounting
  BY RxInvBytes
<1> QED
  BY <1>1, RxInvAlways, PTL

-----------------------------------------------------------------------------
(* The window.  Of powers of two the provers know only numerals, and the   *)
(* library that a finite set S has 2 ^ Cardinality(S) subsets.             *)

LEMMA TwoPower ==
    ASSUME NEW n \in Nat
    PROVE  2 ^ n \in Nat /\ IsFiniteSet(SUBSET (1 .. n)) /\ Cardinality(SUBSET (1 .. n)) = 2 ^ n
<1>1. IsFiniteSet(1 .. n) /\ Cardinality(1 .. n) = n
  BY FS_Interval
<1>2. PICK c : c = Cardinality(1 .. n)
  OBVIOUS
<1>3. IsFiniteSet(SUBSET (1 .. n)) /\ Cardinality(SUBSET (1 .. n)) = 2 ^ c
  BY <1>1, <1>2, FS_SUBSET, Zenon
<1>4. c = n
  BY <1>1, <1>2
<1>5. Cardinality(SUBSET (1 .. n)) \in Nat
  BY <1>3, FS_CardinalityType
<1> QED
  BY <1>3, <1>4, <1>5

LEMMA TwoPowerNext ==
    ASSUME NEW n \in Nat
    PROVE  2 ^ (n + 1) = 2 ^ n + 2 ^ n
<1> DEFINE A == SUBSET (1 .. n)
           B == {s \cup {n + 1} : s \in A}
           f == [s \in A |-> s \cup {n + 1}]
<1>1. SUBSET (1 .. n + 1) = A \cup B
  <2>1. ASSUME NEW s \in SUBSET (1 .. n + 1), s \notin A PROVE s \in B
    <3>1. s \ {n + 1} \in A
      OBVIOUS
    <3>2. n + 1 \in s
      BY <2>1
    <3>3. s = (s \ {n + 1}) \cup {n + 1}
      BY <3>2
    <3> QED
      BY <3>1, <3>3
  <2>2. ASSUME NEW s \in A PROVE s \in SUBSET (1 .. n + 1) /\ s \cup {n + 1} \in SUBSET (1 .. n + 1)
    OBVIOUS
  <2>3. ASSUME NEW s \in B PROVE s \in SUBSET (1 .. n + 1)
    <3>1. PICK r \in A : s = r \cup {n + 1}
      BY <2>3
    <3> QED
      BY <2>2, <3>1
  <2> HIDE DEF A, B
  <2> QED
    BY <2>1, <2>2, <2>3
<1>2. A \cap B = {}
  <2>1. ASSUME NEW s \in A PROVE n + 1 \notin s
    OBVIOUS
  <2> QED
    BY <2>1
<1>3. f \in Bijection(A, B)
  <2>1. ASSUME NEW s \in A, NEW t \in A, s \cup {n + 1} = t \cup {n + 1} PROVE s = t
    <3>1. n + 1 \notin s /\ n + 1 \notin t
      OBVIOUS
    <3> QED
      BY <2>1, <3>1
  <2>2. f \in [A -> B]
    OBVIOUS
  <2>3. \A s \in A, t \in A : f[s] = f[t] => s = t
    BY <2>1
  <2>4. \A b \in B : \E s \in A : f[s] = b
    OBVIOUS
  <2> HIDE DEF A, B, f
  <2> QED
    BY <2>2, <2>3, <2>4 DEF Bijection, Injection, Surjection, IsInjective
<1>4. /\ IsFiniteSet(A) /\ Cardinality(A) = 2 ^ n /\ 2 ^ n \in Nat
      /\ Cardinality(SUBSET (1 .. n + 1)) = 2 ^ (n + 1)
  <2>1. n + 1 \in Nat
    OBVIOUS
  <2> QED
    BY <2>1, TwoPower, Zenon
<1> HIDE DEF A, B, f
<1>5. IsFiniteSet(B) /\ Cardinality(B) = Cardinality(A)
  BY <1>3, <1>4, FS_Bijection DEF ExistsBijection
<1>6. Cardinality(A \cup B) = Cardinality(A) + Cardinality(B) - Cardinality(A \cap B)
  BY <1>4, <1>5, FS_Union, Zenon
<1>7. Cardinality(A \cap B) = 0
  BY <1>2, FS_EmptySet
<1> QED
  <2>1. Cardinality(A \cup B) = 2 ^ (n + 1)
    BY <1>1, <1>4, Zenon
  <2> QED
    BY <1>4, <1>5, <1>6, <1>7, <2>1

LEMMA TwoPowerBig ==
    ASSUME NEW n \in Nat
    PROVE  2 ^ (n + 1) > n + 1
<1> DEFINE P == {i \in 0 .. n : 2 ^ (i + 1) > i + 1}
<1>1. P \in SUBSET (0 .. n) /\ 0 \in P
  OBVIOUS
<1>2. ASSUME NEW i \in 1 .. n, i - 1 \in P PROVE i \in P
  <2>1. i \in Nat /\ 2 ^ i > i
    BY <1>2
  <2>2. 2 ^ (i + 1) = 2 ^ i + 2 ^ i /\ 2 ^ i \in Nat
    BY <2>1, TwoPower, TwoPowerNext
  <2> QED
    BY <2>1, <2>2
<1> HIDE DEF P
<1>3. n \in P
  BY <1>1, <1>2, Upwards
<1> QED
  BY <1>3 DEF P

(* The larger of two numbers. *)
LEMMA MaxOfTwo ==
    ASSUME NEW a \in Int, NEW b \in Int
    PROVE  /\ Max({a, b}) \in {a, b} /\ Max({a, b}) \in Int
           /\ a <= Max({a, b}) /\ b <= Max({a, b})
<1>1. \E x \in {a, b} : \A y \in {a, b} : x >= y
  <2>1. CASE a >= b
    BY <2>1
  <2>2. CASE b >= a
    BY <2>2
  <2> QED
    BY <2>1, <2>2
<1>2. PICK m : m = Max({a, b})
  OBVIOUS
<1>3. m \in {a, b} /\ \A y \in {a, b} : m >= y
  BY <1>1, <1>2 DEF Max
<1>4. m \in Int /\ a <= m /\ b <= m
  BY <1>3
<1> QED
  BY <1>2, <1>3, <1>4

(* The exponent that calcReceiveWindow() finds for a window of w bytes. *)
Exponent(w) ==
    CHOOSE i \in 0 .. w :
        /\ 2 ^ (i + 1) - 1 > w
        /\ \A j \in 0 .. i - 1 : 2 ^ (j + 1) - 1 <= w

LEMMA ExponentCovers ==
    ASSUME NEW w \in Nat
    PROVE  Exponent(w) \in Nat /\ 2 ^ (Exponent(w) + 1) - 1 > w
<1> DEFINE S == {i \in 0 .. w : 2 ^ (i + 1) - 1 > w}
<1>1. w \in S
  <2>1. 2 ^ (w + 1) > w + 1 /\ 2 ^ (w + 1) \in Nat
    BY TwoPowerBig, TwoPower
  <2> QED
    BY <2>1
<1>2. PICK c \in S : \A d \in S : c <= d
  <2>1. S \in SUBSET Nat
    OBVIOUS
  <2> HIDE DEF S
  <2> QED
    BY <1>1, <2>1, Least
<1>3. c \in 0 .. w /\ 2 ^ (c + 1) - 1 > w
  BY <1>2
<1>4. ASSUME NEW j \in 0 .. c - 1 PROVE 2 ^ (j + 1) - 1 <= w
  <2>1. j \in 0 .. w /\ j \notin S
    BY <1>2, <1>3, <1>4
  <2>2. 2 ^ (j + 1) \in Nat
    <3>1. j + 1 \in Nat
      BY <2>1
    <3> QED
      BY <3>1, TwoPower, Zenon
  <2> QED
    BY <2>1, <2>2
<1>5. Exponent(w) \in 0 .. w /\ 2 ^ (Exponent(w) + 1) - 1 > w
  BY <1>3, <1>4 DEF Exponent
<1> QED
  BY <1>5

(* A receiver with nothing to read advertises room for the smallest buffer. *)
LEMMA WindowOpens ==
    ASSUME NEW buf \in Nat, buf >= MinReceiveBuffer, NEW used \in Nat
    PROVE  LET i == ReceiveWindow(buf, used, 0) IN i \in Nat /\ 2 ^ i - 1 >= MTU
<1>1. MTU \in Nat /\ MinReceiveBuffer = 2 * MTU
  BY StreamTxAssumption, StreamAssumption
<1>2. PICK room \in Nat : room = Max({0, buf - used}) /\ room >= buf - used
  <2>1. PICK d \in Int : d = buf - used
    OBVIOUS
  <2>2. Max({0, d}) \in Int /\ 0 <= Max({0, d}) /\ d <= Max({0, d})
    <3>1. 0 \in Int
      OBVIOUS
    <3> QED
      BY <3>1, MaxOfTwo, Zenon
  <2> QED
    BY <2>1, <2>2
<1>3. PICK w \in Nat : /\ w = (IF 0 = 0 /\ used > 0 THEN Max({room, MinReceiveBuffer}) ELSE room)
                       /\ w >= MinReceiveBuffer
  <2>1. /\ Max({room, MinReceiveBuffer}) \in Int /\ room <= Max({room, MinReceiveBuffer})
        /\ MinReceiveBuffer <= Max({room, MinReceiveBuffer})
    <3>1. room \in Int /\ MinReceiveBuffer \in Int
      BY <1>1
    <3> QED
      BY <3>1, MaxOfTwo, Zenon
  <2>2. used > 0 \/ used = 0
    OBVIOUS
  <2> QED
    BY <1>1, <1>2, <2>1, <2>2
<1>4. PICK i \in Nat : i = Exponent(w) /\ 2 ^ (i + 1) - 1 > w
  BY ExponentCovers
<1>5. ReceiveWindow(buf, used, 0) = i
  BY <1>2, <1>3, <1>4 DEF ReceiveWindow, Exponent
<1>6. 2 ^ i \in Nat /\ 2 ^ (i + 1) = 2 ^ i + 2 ^ i
  BY TwoPower, TwoPowerNext
<1>7. 2 ^ i - 1 >= MTU
  BY <1>1, <1>3, <1>4, <1>6
<1> QED
  BY <1>5, <1>7

(* The buffer is never smaller than the minimum, and the window is open. *)
WindowInv == rcvbuf \in Nat /\ rcvbuf >= MinReceiveBuffer /\ GapFillable

LEMMA BufferSize ==
    ASSUME NEW n \in Nat
    PROVE  Max({n, MinReceiveBuffer}) \in Nat /\ Max({n, MinReceiveBuffer}) >= MinReceiveBuffer
<1>1. MinReceiveBuffer \in Nat
  BY StreamRxAssumption
<1> QED
  BY <1>1, MaxOfTwo

LEMMA Recomputed ==
    ASSUME RxInv', rcvbuf \in Nat, rcvbuf >= MinReceiveBuffer, CalcReceiveWindow
    PROVE  GapFillable'
<1>1. ASSUME ravail' = 0 PROVE 2 ^ rwinbyte' - 1 >= MTU
  <2>1. rbufused' \in Nat
    <3>1. PICK a \in Seq(Segment), b \in Seq(Segment) :
            a = rsegs' /\ b = rahead' /\ rbufused' = SizeOf(a) + SizeOf(b)
      BY DEF RxInv, RxTyped, BufferAccounting
    <3>2. SizeOf(a) \in Nat /\ SizeOf(b) \in Nat
      BY SizeConcat
    <3> QED
      BY <3>1, <3>2
  <2>2. PICK u \in Nat : u = rbufused'
    BY <2>1
  <2>3. rwinbyte' = ReceiveWindow(rcvbuf, u, 0)
    BY <1>1, <2>2 DEF CalcReceiveWindow
  <2> QED
    BY <2>3, WindowOpens
<1> QED
  BY <1>1 DEF GapFillable, AdvertisedWindow

LEMMA WindowInit ==
    ASSUME Init
    PROVE  WindowInv
<1>1. /\ rcvbuf \in {Max({n, MinReceiveBuffer}) : n \in ReceiveBuffers}
      /\ rwinbyte = ReceiveWindow(rcvbuf, 0, 0)
  BY DEF Init, RxInit
<1>2. PICK n \in ReceiveBuffers : rcvbuf = Max({n, MinReceiveBuffer})
  BY <1>1
<1>3. rcvbuf \in Nat /\ rcvbuf >= MinReceiveBuffer
  BY <1>2, BufferSize, StreamRxAssumption
<1>4. 2 ^ rwinbyte - 1 >= MTU
  BY <1>1, <1>3, WindowOpens
<1> QED
  BY <1>3, <1>4 DEF WindowInv, GapFillable, AdvertisedWindow

LEMMA WindowStep ==
    ASSUME RxInv, RxInv', WindowInv, [Next]_vars
    PROVE  WindowInv'
<1>1. rcvbuf \in Nat /\ rcvbuf >= MinReceiveBuffer /\ GapFillable
  BY DEF WindowInv
<1>2. CASE UNCHANGED rxvars
  BY <1>1, <1>2 DEF WindowInv, GapFillable, AdvertisedWindow, rxvars, endread
<1>3. CASE CalcReceiveWindow /\ rcvbuf' = rcvbuf
  BY <1>1, <1>3, Recomputed DEF WindowInv
<1>4. ASSUME NEW s, RxData(s) PROVE WindowInv'
  BY <1>2, <1>3, <1>4 DEF RxData
<1>5. CASE Reader
  <2>1. ASSUME NEW rd, AfterRead(rd) PROVE WindowInv'
    BY <1>3, <2>1 DEF AfterRead
  <2>2. ASSUME NEW n, ReadData(n) \/ ReadMessage(n) PROVE WindowInv'
    BY <2>1, <2>2 DEF ReadData, ReadMessage
  <2>3. CASE ShutdownRead
    <3>1. endread' /\ rcvbuf' = rcvbuf
      BY <2>3 DEF ShutdownRead, EndRead, endread
    <3> QED
      BY <1>1, <3>1 DEF WindowInv, GapFillable
  <2>4. ASSUME NEW n \in ReceiveBuffers, SetReceiveBuffer(n) PROVE WindowInv'
    <3>1. rcvbuf' = Max({n, MinReceiveBuffer}) /\ n \in Nat
      BY <2>4, StreamRxAssumption DEF SetReceiveBuffer
    <3>2. rcvbuf' \in Nat /\ rcvbuf' >= MinReceiveBuffer
      BY <3>1, BufferSize
    <3>3. ravail' = ravail /\ ended' = ended /\ rwinbyte' = rwinbyte
      BY <2>4 DEF SetReceiveBuffer
    <3> QED
      BY <1>1, <3>2, <3>3 DEF WindowInv, GapFillable, AdvertisedWindow, endread
  <2> QED
    BY <1>5, <2>2, <2>3, <2>4 DEF Reader
<1>6. CASE AppWrite \/ Sender \/ Network \/ UNCHANGED vars
  BY <1>2, <1>6 DEF AppWrite, Sender, Network, vars
<1>7. CASE App
  BY <1>5, <1>7 DEF App
<1>8. ASSUME NEW n \in wire, Deliver(n) PROVE WindowInv'
  <2>1. RxData(pkts[n].seg) \/ UNCHANGED rxvars
    BY <1>8 DEF Deliver, RxInitPacket, RxInitDelayed, RxDataPacket,
                RxAttachKnown, RxAttachUnknown
  <2> QED
    BY <1>2, <1>4, <2>1
<1> QED
  BY <1>6, <1>7, <1>8 DEF Next

(* While its reader has nothing to read, a receiver advertises room for a   *)
(* full segment, however much of the buffer lies beyond a gap and whatever   *)
(* setReceiveBuffer() was told: the segment that fills the gap can come.     *)
(* (calcReceiveWindow, calcTransmitWindow)                                   *)
THEOREM GapsCanFill == Spec => []GapFillable
<1>1. Init => WindowInv
  BY WindowInit
<1>2. RxInv /\ RxInv' /\ WindowInv /\ [Next]_vars => WindowInv'
  BY WindowStep
<1>3. WindowInv => GapFillable
  BY DEF WindowInv
<1> QED
  BY <1>1, <1>2, <1>3, RxInvAlways, PTL DEF Spec
=============================================================================
