---------------------------- MODULE StreamProofs ----------------------------
(***************************************************************************)
(* Theorems about the sending half of Stream, for every value of its       *)
(* constants: no segment leaves the sender before it is acknowledged, the  *)
(* counts of bytes in flight are what is in flight, and a queued segment   *)
(* has something that will send it.                                        *)
(*                                                                         *)
(* missed(), detachAll() and the in-flight counts are folds over sets of   *)
(* packets.  The first part shows what such folds compute.  Induction over *)
(* a finite set is the choice of a smallest subset for which a statement   *)
(* fails.                                                                  *)
(***************************************************************************)
EXTENDS Stream, FiniteSetTheorems, SequenceTheorems, NaturalsInduction,
        WellFoundedInduction, TLAPS

-----------------------------------------------------------------------------
(* Folds over finite sets.                                                 *)

LEMMA Least ==
    ASSUME NEW S \in SUBSET Nat, S # {}
    PROVE  \E c \in S : \A d \in S : c <= d
<1>1. PICK c \in S : \A d \in S : ~(<<d, c>> \in OpToRel(<, Nat))
  BY NatLessThanWellFounded, WFMin
<1>2. \A d \in S : ~(d < c)
  BY <1>1 DEF OpToRel
<1> QED
  BY <1>2

(* Among some subsets of a finite set there is one of least cardinality.   *)
LEMMA Smallest ==
    ASSUME NEW S, IsFiniteSet(S), NEW C \in SUBSET SUBSET S, C # {}
    PROVE  \E m \in C : \A s \in C : Cardinality(m) <= Cardinality(s)
<1>1. \A s \in SUBSET S : Cardinality(s) \in Nat
  BY FS_Subset, FS_CardinalityType
<1> DEFINE N == {Cardinality(s) : s \in C}
<1>2. N \in SUBSET Nat /\ N # {}
  BY <1>1
<1>3. PICK c \in N : \A d \in N : c <= d
  BY <1>2, Least
<1> QED
  BY <1>3

(* C tells which element a fold over subsets of S takes out of each. *)
Picks(C, S) == \A s \in SUBSET S : s # {} => C[s] \in s

(* it is the fold over the subsets of S of the function G, from base. *)
FoldsBy(it, S, base, G, C) ==
    it = [s \in SUBSET S |-> IF s = {} THEN base ELSE G[<<C[s], it[s \ {C[s]}]>>]]

LEMMA FoldByExists ==
    ASSUME NEW S, IsFiniteSet(S), NEW V, NEW base \in V, NEW G \in [S \X V -> V],
           NEW C, Picks(C, S)
    PROVE  \E it \in [SUBSET S -> V] : FoldsBy(it, S, base, G, C)
<1>0. ASSUME NEW s \in SUBSET S, s # {}
      PROVE  /\ C[s] \in s /\ s \ {C[s]} \in SUBSET S
             /\ Cardinality(s) \in Nat /\ Cardinality(s \ {C[s]}) = Cardinality(s) - 1
  <2>1. C[s] \in s
    BY <1>0 DEF Picks
  <2>2. IsFiniteSet(s)
    BY FS_Subset
  <2> QED
    BY <2>1, <2>2, FS_CardinalityType, FS_RemoveElement
<1> DEFINE Step(g, s) == IF s = {} THEN base ELSE G[<<C[s], g[s \ {C[s]}]>>]
           Upto(g, n) == \A s \in SUBSET S : Cardinality(s) <= n => g[s] = Step(g, s)
           Bad == {n \in Nat : ~\E g \in [SUBSET S -> V] : Upto(g, n)}
<1> HIDE DEF Upto
<1>1. ASSUME Bad # {} PROVE FALSE
  <2>1. PICK n \in Bad : \A d \in Bad : n <= d
    BY <1>1, Least
  <2>2. PICK g \in [SUBSET S -> V] : n > 0 => Upto(g, n - 1)
    <3>1. CASE n = 0
      <4> DEFINE k == [s \in SUBSET S |-> base]
      <4>1. k \in [SUBSET S -> V]
        OBVIOUS
      <4> HIDE DEF k
      <4>2. ~(n > 0)
        BY <3>1
      <4> QED
        BY <4>1, <4>2, Zenon
    <3>2. CASE n > 0
      <4>1. n - 1 \in Nat /\ n - 1 \notin Bad
        <5> HIDE DEF Bad
        <5>1. Bad \in SUBSET Nat
          BY DEF Bad
        <5> QED
          BY <2>1, <3>2, <5>1
      <4>2. PICK k \in [SUBSET S -> V] : Upto(k, n - 1)
        <5>1. PICK m \in Nat : m = n - 1
          BY <4>1
        <5>2. m \notin Bad
          BY <4>1, <5>1, Zenon
        <5>3. \E k \in [SUBSET S -> V] : Upto(k, m)
          BY <5>2, Zenon
        <5> QED
          BY <5>1, <5>3, Zenon
      <4> QED
        BY <4>2, Zenon
    <3>3. n = 0 \/ n > 0
      BY <2>1
    <3> QED
      BY <3>1, <3>2, <3>3, Zenon
  <2> DEFINE h == [s \in SUBSET S |-> IF Cardinality(s) < n THEN g[s] ELSE Step(g, s)]
  <2>3. h \in [SUBSET S -> V]
    <3>1. ASSUME NEW s \in SUBSET S PROVE Step(g, s) \in V
      <4>1. CASE s = {}
        BY <4>1
      <4>2. CASE s # {}
        <5>1. C[s] \in S /\ s \ {C[s]} \in SUBSET S
          BY <1>0, <4>2
        <5>2. g[s \ {C[s]}] \in V
          BY <5>1
        <5> QED
          BY <4>2, <5>1, <5>2
      <4> QED
        BY <4>1, <4>2
    <3> QED
      BY <3>1
  <2>4. ASSUME NEW s \in SUBSET S, Cardinality(s) <= n PROVE h[s] = Step(h, s)
    <3>1. CASE s = {}
      <4>1. Cardinality(s) = 0
        BY <3>1, FS_EmptySet
      <4>2. CASE n > 0
        <5>1. g[s] = Step(g, s)
          BY <2>1, <2>2, <4>1, <4>2 DEF Upto
        <5> QED
          BY <3>1, <5>1, <4>1, <4>2
      <4>3. CASE ~(n > 0)
        BY <3>1, <4>1, <4>3
      <4> QED
        BY <4>2, <4>3
    <3>2. CASE s # {}
      <4>1. /\ s \ {C[s]} \in SUBSET S /\ Cardinality(s) \in Nat
            /\ Cardinality(s \ {C[s]}) = Cardinality(s) - 1
        BY <1>0, <3>2
      <4>2. h[s \ {C[s]}] = g[s \ {C[s]}]
        BY <2>1, <2>4, <4>1
      <4>3. CASE Cardinality(s) < n
        <5>1. n > 0 /\ Cardinality(s) <= n - 1
          BY <2>1, <4>1, <4>3
        <5>2. g[s] = Step(g, s)
          BY <2>2, <5>1 DEF Upto
        <5> QED
          BY <3>2, <4>2, <4>3, <5>2
      <4>4. CASE ~(Cardinality(s) < n)
        BY <3>2, <4>2, <4>4
      <4> QED
        BY <4>3, <4>4
    <3> QED
      BY <3>1, <3>2
  <2>5. Upto(h, n)
    BY <2>4 DEF Upto
  <2> QED
    BY <2>1, <2>3, <2>5
<1>2. Cardinality(S) \in Nat
  BY FS_CardinalityType
<1>3. PICK it \in [SUBSET S -> V] : Upto(it, Cardinality(S))
  BY <1>1, <1>2
<1>4. ASSUME NEW s \in SUBSET S PROVE it[s] = Step(it, s)
  BY <1>3, FS_Subset DEF Upto
<1>5. FoldsBy(it, S, base, G, C)
  BY <1>4 DEF FoldsBy
<1> QED
  BY <1>5

(* The element a fold takes out of s next. *)
Pick(s) == CHOOSE x \in s : TRUE

LEMMA Picked ==
    ASSUME NEW S, IsFiniteSet(S), NEW s \in SUBSET S, s # {}
    PROVE  /\ Pick(s) \in s /\ s \ {Pick(s)} \in SUBSET S
           /\ Cardinality(s) \in Nat /\ Cardinality(s \ {Pick(s)}) = Cardinality(s) - 1
<1>1. Pick(s) \in s
  BY DEF Pick
<1>2. IsFiniteSet(s)
  BY FS_Subset
<1> QED
  BY <1>1, <1>2, FS_CardinalityType, FS_RemoveElement

Folds(it, S, base, G) ==
    it = [s \in SUBSET S |-> IF s = {} THEN base ELSE G[<<Pick(s), it[s \ {Pick(s)}]>>]]

LEMMA FoldExists ==
    ASSUME NEW S, IsFiniteSet(S), NEW V, NEW base \in V, NEW G \in [S \X V -> V]
    PROVE  \E it \in [SUBSET S -> V] : Folds(it, S, base, G)
<1> DEFINE C == [s \in SUBSET S |-> Pick(s)]
<1>1. Picks(C, S)
  BY Picked DEF Picks
<1>2. \A s \in SUBSET S : C[s] = Pick(s)
  OBVIOUS
<1> HIDE DEF C
<1>3. PICK it \in [SUBSET S -> V] : FoldsBy(it, S, base, G, C)
  BY <1>1, FoldByExists, Zenon
<1>4. Folds(it, S, base, G)
  BY <1>2, <1>3 DEF Folds, FoldsBy
<1> QED
  BY <1>4

-----------------------------------------------------------------------------
(* Sums of the bytes that packets carry.                                   *)

(* The bytes of the packets in S, if p tells what they carry. *)
Bytes(p, S) == MapThenSumSet(LAMBDA n : p[n].seg.size, S)

Sized(p, S) == IsFiniteSet(S) /\ \A n \in S : p[n].seg.size \in Nat

(* it[s] is the sum over s, for every subset s of S. *)
Sums(it, p, S) ==
    /\ it \in [SUBSET S -> Nat] /\ it[{}] = 0
    /\ \A s \in SUBSET S : s # {} => it[s] = p[Pick(s)].seg.size + it[s \ {Pick(s)}]

LEMMA BytesAreSums ==
    ASSUME NEW p, NEW S, Sized(p, S)
    PROVE  \E it : Sums(it, p, S) /\ Bytes(p, S) = it[S]
<1> DEFINE F(f) == f = [s \in SUBSET S |->
                          IF s = {} THEN 0 ELSE p[Pick(s)].seg.size + f[s \ {Pick(s)}]]
           G == [x \in S \X Nat |-> p[x[1]].seg.size + x[2]]
<1>1. IsFiniteSet(S) /\ \A n \in S : p[n].seg.size \in Nat
  BY DEF Sized
<1>2. G \in [S \X Nat -> Nat] /\ \A n \in S, v \in Nat : G[<<n, v>>] = p[n].seg.size + v
  BY <1>1
<1>3. 0 \in Nat
  OBVIOUS
<1> HIDE DEF G
<1>4. PICK it \in [SUBSET S -> Nat] : Folds(it, S, 0, G)
  BY <1>1, <1>2, <1>3, FoldExists
<1>5. F(it)
  <2>1. ASSUME NEW s \in SUBSET S, s # {}
        PROVE  it[s] = p[Pick(s)].seg.size + it[s \ {Pick(s)}]
    <3>1. Pick(s) \in S /\ s \ {Pick(s)} \in SUBSET S
      BY <1>1, <2>1, Picked
    <3>2. it[s] = G[<<Pick(s), it[s \ {Pick(s)}]>>]
      BY <1>4, <2>1 DEF Folds
    <3>3. it[s \ {Pick(s)}] \in Nat
      BY <3>1
    <3> QED
      BY <1>2, <3>1, <3>2, <3>3
  <2>2. it[{}] = 0
    BY <1>4 DEF Folds
  <2> QED
    BY <1>4, <2>1, <2>2
<1>6. F(CHOOSE f : F(f))
  BY <1>5
<1>7. PICK h : h = (CHOOSE f : F(f))
  OBVIOUS
<1>8. F(h)
  BY <1>6, <1>7
<1>9. Bytes(p, S) = h[S]
  BY <1>7 DEF Bytes, MapThenSumSet, MapThenFoldSet, Pick
<1>10. DOMAIN h = SUBSET S /\ h[{}] = 0
  BY <1>8
<1>11. ASSUME NEW s \in SUBSET S, s # {}
       PROVE  h[s] = p[Pick(s)].seg.size + h[s \ {Pick(s)}]
  BY <1>8, <1>11
<1> DEFINE Bad == {s \in SUBSET S : h[s] \notin Nat}
<1>12. ASSUME Bad # {} PROVE FALSE
  <2>1. PICK m \in Bad : \A s \in Bad : Cardinality(m) <= Cardinality(s)
    BY <1>1, <1>12, Smallest
  <2>2. m # {}
    BY <1>10, <2>1
  <2>3. /\ Pick(m) \in m /\ m \ {Pick(m)} \in SUBSET S
        /\ Cardinality(m) \in Nat /\ Cardinality(m \ {Pick(m)}) = Cardinality(m) - 1
    BY <1>1, <2>1, <2>2, Picked
  <2>4. h[m \ {Pick(m)}] \in Nat
    BY <2>1, <2>3
  <2>5. h[m] = p[Pick(m)].seg.size + h[m \ {Pick(m)}]
    BY <1>11, <2>1, <2>2
  <2>6. p[Pick(m)].seg.size \in Nat
    BY <1>1, <2>1, <2>3
  <2>7. h[m] \in Nat
    BY <2>4, <2>5, <2>6
  <2> QED
    BY <2>1, <2>7
<1>13. h = [s \in DOMAIN h |-> h[s]]
  BY <1>8
<1>14. h \in [SUBSET S -> Nat]
  BY <1>10, <1>12, <1>13
<1>15. Sums(h, p, S)
  BY <1>10, <1>11, <1>14 DEF Sums
<1> QED
  BY <1>9, <1>15

(* A sum depends on the packets summed only. *)
LEMMA SumsAgree ==
    ASSUME NEW i, NEW p, NEW S, NEW j, NEW q, NEW T, Sums(i, p, S), Sums(j, q, T),
           Sized(p, S), T \subseteq S, \A n \in T : p[n].seg.size = q[n].seg.size
    PROVE  \A s \in SUBSET T : i[s] = j[s]
<1>1. IsFiniteSet(S) /\ IsFiniteSet(T)
  BY FS_Subset DEF Sized
<1> DEFINE Bad == {s \in SUBSET T : i[s] # j[s]}
<1>2. ASSUME Bad # {} PROVE FALSE
  <2>1. PICK m \in Bad : \A s \in Bad : Cardinality(m) <= Cardinality(s)
    BY <1>1, <1>2, Smallest
  <2>2. m # {}
    BY <2>1 DEF Sums
  <2>3. /\ Pick(m) \in m /\ m \ {Pick(m)} \in SUBSET T
        /\ Cardinality(m) \in Nat /\ Cardinality(m \ {Pick(m)}) = Cardinality(m) - 1
    BY <1>1, <2>1, <2>2, Picked
  <2>4. i[m \ {Pick(m)}] = j[m \ {Pick(m)}]
    BY <2>1, <2>3
  <2>5. i[m] = p[Pick(m)].seg.size + i[m \ {Pick(m)}]
    BY <2>1, <2>2 DEF Sums
  <2>6. j[m] = q[Pick(m)].seg.size + j[m \ {Pick(m)}]
    BY <2>1, <2>2 DEF Sums
  <2> QED
    BY <2>1, <2>3, <2>4, <2>5, <2>6
<1> QED
  BY <1>2

(* The order in which the packets are summed does not matter. *)
LEMMA SumsAnyOrder ==
    ASSUME NEW it, NEW p, NEW S, Sums(it, p, S), Sized(p, S)
    PROVE  \A s \in SUBSET S : \A x \in s : it[s] = p[x].seg.size + it[s \ {x}]
<1> DEFINE Bad == {s \in SUBSET S : \E x \in s : it[s] # p[x].seg.size + it[s \ {x}]}
<1>1. IsFiniteSet(S) /\ \A n \in S : p[n].seg.size \in Nat
  BY DEF Sized
<1>2. ASSUME Bad # {} PROVE FALSE
  <2>1. PICK m \in Bad : \A s \in Bad : Cardinality(m) <= Cardinality(s)
    BY <1>1, <1>2, Smallest
  <2>2. PICK x \in m : it[m] # p[x].seg.size + it[m \ {x}]
    BY <2>1
  <2>3. PICK y : y = Pick(m)
    OBVIOUS
  <2>4. /\ y \in m /\ m \ {y} \in SUBSET S
        /\ Cardinality(m) \in Nat /\ Cardinality(m \ {y}) = Cardinality(m) - 1
    BY <1>1, <2>1, <2>2, <2>3, Picked
  <2>5. it[m] = p[y].seg.size + it[m \ {y}]
    BY <2>1, <2>2, <2>3 DEF Sums
  <2>6. x # y /\ x \in m \ {y} /\ y \in m \ {x}
    BY <2>2, <2>4, <2>5
  <2>7. m \ {x} \in SUBSET S /\ Cardinality(m \ {x}) = Cardinality(m) - 1
    <3>1. IsFiniteSet(m)
      BY <1>1, <2>1, FS_Subset
    <3> QED
      BY <2>1, <2>2, <3>1, FS_RemoveElement
  <2>8. m \ {y} \notin Bad /\ m \ {x} \notin Bad
    <3> HIDE DEF Bad
    <3> QED
      BY <2>1, <2>4, <2>7
  <2>9. it[m \ {y}] = p[x].seg.size + it[(m \ {y}) \ {x}]
    BY <2>4, <2>6, <2>8
  <2>10. it[m \ {x}] = p[y].seg.size + it[(m \ {x}) \ {y}]
    BY <2>6, <2>7, <2>8
  <2>11. (m \ {x}) \ {y} = (m \ {y}) \ {x} /\ (m \ {y}) \ {x} \in SUBSET S
    BY <2>1
  <2>12. it[(m \ {y}) \ {x}] \in Nat /\ p[x].seg.size \in Nat /\ p[y].seg.size \in Nat
    BY <1>1, <2>1, <2>2, <2>4, <2>11 DEF Sums
  <2>13. PICK a \in Nat, b \in Nat, c \in Nat :
           a = p[x].seg.size /\ b = p[y].seg.size /\ c = it[(m \ {y}) \ {x}]
    BY <2>12
  <2>14. it[m] = b + (a + c) /\ it[m \ {x}] = b + c
    BY <2>5, <2>9, <2>10, <2>11, <2>13, Zenon
  <2>15. it[m] = a + it[m \ {x}]
    BY <2>14
  <2> QED
    BY <2>2, <2>13, <2>15, Zenon
<1> QED
  BY <1>2


LEMMA NoBytes ==
    ASSUME NEW p
    PROVE  Bytes(p, {}) = 0
<1>1. Sized(p, {})
  BY FS_EmptySet DEF Sized
<1> QED
  BY <1>1, BytesAreSums DEF Sums

LEMMA SameBytes ==
    ASSUME NEW p, NEW q, NEW S, Sized(p, S), \A n \in S : p[n].seg.size = q[n].seg.size
    PROVE  Bytes(p, S) = Bytes(q, S) /\ Bytes(p, S) \in Nat
<1>1. Sized(q, S)
  BY DEF Sized
<1>2. PICK i : Sums(i, p, S) /\ Bytes(p, S) = i[S]
  BY BytesAreSums
<1>3. PICK j : Sums(j, q, S) /\ Bytes(q, S) = j[S]
  BY <1>1, BytesAreSums
<1>4. i[S] = j[S]
  BY <1>2, <1>3, SumsAgree
<1> QED
  BY <1>2, <1>3, <1>4 DEF Sums

LEMMA MoreBytes ==
    ASSUME NEW p, NEW S, NEW x, x \notin S, Sized(p, S \cup {x})
    PROVE  /\ Bytes(p, S \cup {x}) = p[x].seg.size + Bytes(p, S)
           /\ Bytes(p, S) \in Nat /\ p[x].seg.size \in Nat
<1> DEFINE U == S \cup {x}
<1>1. Sized(p, S) /\ Sized(p, U) /\ S \subseteq U /\ p[x].seg.size \in Nat
  BY FS_Subset DEF Sized
<1>2. U \ {x} = S /\ x \in U /\ U \in SUBSET U /\ S \in SUBSET S
  OBVIOUS
<1> HIDE DEF U
<1>3. PICK i : Sums(i, p, U) /\ Bytes(p, U) = i[U]
  BY <1>1, BytesAreSums
<1>4. PICK j : Sums(j, p, S) /\ Bytes(p, S) = j[S]
  BY <1>1, BytesAreSums
<1>5. i[S] = j[S]
  BY <1>1, <1>2, <1>3, <1>4, SumsAgree
<1>6. i[U] = p[x].seg.size + i[U \ {x}]
  BY <1>1, <1>2, <1>3, SumsAnyOrder
<1>7. j[S] \in Nat
  BY <1>2, <1>4 DEF Sums
<1> QED
  BY <1>1, <1>2, <1>3, <1>4, <1>5, <1>6, <1>7 DEF U

-----------------------------------------------------------------------------
(* The transmit queue.                                                     *)

LEMMA RangeOf ==
    ASSUME NEW S, NEW q \in Seq(S)
    PROVE  /\ Len(q) \in Nat /\ DOMAIN q = 1 .. Len(q)
           /\ Range(q) = {q[i] : i \in 1 .. Len(q)} /\ Range(q) \subseteq S
  BY LenProperties, ElementOfSeq DEF Range

LEMMA Cut ==
    ASSUME NEW S, NEW q \in Seq(S), NEW n \in 0 .. Len(q)
    PROVE  /\ SubSeq(q, 1, n) \in Seq(S) /\ Len(SubSeq(q, 1, n)) = n
           /\ \A i \in 1 .. n : SubSeq(q, 1, n)[i] = q[i]
           /\ SubSeq(q, n + 1, Len(q)) \in Seq(S)
           /\ Len(SubSeq(q, n + 1, Len(q))) = Len(q) - n
           /\ \A i \in 1 .. Len(q) - n : SubSeq(q, n + 1, Len(q))[i] = q[n + i]
<1>1. Len(q) \in Nat /\ \A i \in 1 .. Len(q) : q[i] \in S
  BY LenProperties, ElementOfSeq
<1>2. /\ SubSeq(q, 1, n) \in Seq(S) /\ Len(SubSeq(q, 1, n)) = IF 1 <= n THEN n - 1 + 1 ELSE 0
      /\ \A i \in 1 .. n - 1 + 1 : SubSeq(q, 1, n)[i] = q[1 + i - 1]
  <2>1. \A i \in 1 .. n : q[i] \in S
    BY <1>1
  <2> QED
    BY <1>1, <2>1, SubSeqProperties
<1>3. /\ SubSeq(q, n + 1, Len(q)) \in Seq(S)
      /\ Len(SubSeq(q, n + 1, Len(q))) = IF n + 1 <= Len(q) THEN Len(q) - (n + 1) + 1 ELSE 0
      /\ \A i \in 1 .. Len(q) - (n + 1) + 1 : SubSeq(q, n + 1, Len(q))[i] = q[n + 1 + i - 1]
  <2>1. \A i \in n + 1 .. Len(q) : q[i] \in S
    BY <1>1
  <2> QED
    BY <1>1, <2>1, SubSeqProperties
<1> QED
  BY <1>1, <1>2, <1>3

LEMMA RangeOfConcat ==
    ASSUME NEW S, NEW a \in Seq(S), NEW b \in Seq(S)
    PROVE  a \o b \in Seq(S) /\ Range(a \o b) = Range(a) \cup Range(b)
<1>1. /\ a \o b \in Seq(S) /\ Len(a \o b) = Len(a) + Len(b)
      /\ \A i \in 1 .. Len(a) + Len(b) :
            (a \o b)[i] = IF i <= Len(a) THEN a[i] ELSE b[i - Len(a)]
  BY ConcatProperties
<1>2. Len(a) \in Nat /\ Len(b) \in Nat
  BY LenProperties
<1>3. /\ Range(a) = {a[i] : i \in 1 .. Len(a)} /\ Range(b) = {b[i] : i \in 1 .. Len(b)}
      /\ Range(a \o b) = {(a \o b)[i] : i \in 1 .. Len(a) + Len(b)}
  BY <1>1, RangeOf
<1>4. ASSUME NEW i \in 1 .. Len(a) PROVE a[i] \in Range(a \o b)
  <2>1. i \in 1 .. Len(a) + Len(b) /\ (a \o b)[i] = a[i]
    BY <1>1, <1>2
  <2> QED
    BY <1>3, <2>1
<1>5. ASSUME NEW i \in 1 .. Len(b) PROVE b[i] \in Range(a \o b)
  <2>1. Len(a) + i \in 1 .. Len(a) + Len(b) /\ (a \o b)[Len(a) + i] = b[i]
    BY <1>1, <1>2
  <2> QED
    BY <1>3, <2>1
<1>6. ASSUME NEW i \in 1 .. Len(a) + Len(b) PROVE (a \o b)[i] \in Range(a) \cup Range(b)
  <2>1. i <= Len(a) => i \in 1 .. Len(a) /\ (a \o b)[i] = a[i]
    BY <1>1, <1>2
  <2>2. ~(i <= Len(a)) => i - Len(a) \in 1 .. Len(b) /\ (a \o b)[i] = b[i - Len(a)]
    BY <1>1, <1>2
  <2> QED
    BY <1>3, <2>1, <2>2
<1>7. Range(a) \cup Range(b) \subseteq Range(a \o b)
  BY <1>3, <1>4, <1>5
<1>8. Range(a \o b) \subseteq Range(a) \cup Range(b)
  BY <1>3, <1>6
<1> QED
  BY <1>1, <1>7, <1>8

(* txenqueue() adds the segment and loses none. *)
LEMMA EnqueuedRange ==
    ASSUME NEW q \in Seq(Segment), NEW s \in Segment
    PROVE  Enqueued(q, s) \in Seq(Segment) /\ Range(Enqueued(q, s)) = Range(q) \cup {s}
<1> DEFINE k == QueuePos(q, s)
           a == SubSeq(q, 1, k)
           b == SubSeq(q, k + 1, Len(q))
<1>1. Len(q) \in Nat /\ DOMAIN q = 1 .. Len(q) /\ Range(q) = {q[i] : i \in 1 .. Len(q)}
  BY RangeOf
<1>2. k \in 0 .. Len(q)
  <2> DEFINE T == {i \in DOMAIN q : q[i].tsn <= s.tsn}
  <2>1. T \in SUBSET (1 .. Len(q))
    BY <1>1
  <2>2. IsFiniteSet(1 .. Len(q)) /\ Cardinality(1 .. Len(q)) = Len(q)
    BY <1>1, FS_Interval
  <2>3. Cardinality(T) \in Nat /\ Cardinality(T) <= Len(q)
    BY <2>1, <2>2, FS_Subset, FS_CardinalityType
  <2> QED
    BY <1>1, <2>3 DEF QueuePos
<1> HIDE DEF k
<1>3. /\ a \in Seq(Segment) /\ Len(a) = k /\ \A i \in 1 .. k : a[i] = q[i]
      /\ b \in Seq(Segment) /\ Len(b) = Len(q) - k /\ \A i \in 1 .. Len(q) - k : b[i] = q[k + i]
  BY <1>2, Cut
<1> HIDE DEF a, b
<1>4. Range(q) = Range(a) \cup Range(b)
  <2>1. Range(a) = {a[i] : i \in 1 .. k} /\ Range(b) = {b[i] : i \in 1 .. Len(q) - k}
    BY <1>3, RangeOf
  <2>2. ASSUME NEW i \in 1 .. Len(q) PROVE q[i] \in Range(a) \cup Range(b)
    <3>1. i <= k => i \in 1 .. k /\ a[i] = q[i]
      BY <1>2, <1>3
    <3>2. ~(i <= k) => i - k \in 1 .. Len(q) - k /\ b[i - k] = q[i]
      BY <1>1, <1>2, <1>3
    <3> QED
      BY <2>1, <3>1, <3>2
  <2>3. ASSUME NEW i \in 1 .. k PROVE a[i] \in Range(q)
    BY <1>1, <1>2, <1>3
  <2>4. ASSUME NEW i \in 1 .. Len(q) - k PROVE b[i] \in Range(q)
    <3>1. k + i \in 1 .. Len(q) /\ b[i] = q[k + i]
      BY <1>1, <1>2, <1>3
    <3> QED
      BY <1>1, <3>1
  <2> QED
    BY <1>1, <2>1, <2>2, <2>3, <2>4
<1>5. <<s>> \in Seq(Segment) /\ Range(<<s>>) = {s}
  BY DEF Range
<1>6. PICK c \in Seq(Segment) : c = <<s>> /\ Range(c) = {s}
  BY <1>5
<1>7. PICK e \in Seq(Segment) : e = a \o c /\ Range(e) = Range(a) \cup {s}
  <2>1. a \o c \in Seq(Segment) /\ Range(a \o c) = Range(a) \cup Range(c)
    <3>1. a \in Seq(Segment) /\ c \in Seq(Segment)
      BY <1>3, <1>6
    <3> QED
      BY ONLY <3>1, RangeOfConcat, ZenonT(40)
  <2> QED
    BY <1>6, <2>1, Zenon
<1>8. e \o b \in Seq(Segment) /\ Range(e \o b) = Range(e) \cup Range(b)
  <2>1. e \in Seq(Segment) /\ b \in Seq(Segment)
    BY <1>3, <1>7
  <2> QED
    BY ONLY <2>1, RangeOfConcat, ZenonT(40)
<1>9. Enqueued(q, s) = e \o b
  BY <1>6, <1>7, Zenon DEF Enqueued, a, b, k
<1> QED
  BY <1>4, <1>7, <1>8, <1>9


(* The queue with the segments of the packets T put back. *)
Requeue(p, q, T) == FoldSet(LAMBDA n, r : Enqueued(r, p[n].seg), q, T)

LEMMA RequeueRange ==
    ASSUME NEW p, NEW q \in Seq(Segment), NEW T, IsFiniteSet(T),
           \A n \in T : p[n].seg \in Segment
    PROVE  /\ Requeue(p, q, T) \in Seq(Segment)
           /\ Range(Requeue(p, q, T)) = Range(q) \cup {p[n].seg : n \in T}
<1> DEFINE F(f) == f = [s \in SUBSET T |->
                          IF s = {} THEN q ELSE Enqueued(f[s \ {Pick(s)}], p[Pick(s)].seg)]
           V == Seq(Segment)
           G == [x \in T \X V |-> Enqueued(x[2], p[x[1]].seg)]
<1>1. G \in [T \X V -> V] /\ \A n \in T, v \in V : G[<<n, v>>] = Enqueued(v, p[n].seg)
  BY EnqueuedRange
<1> HIDE DEF G, V
<1>2. q \in V
  BY DEF V
<1>3. PICK it \in [SUBSET T -> V] : Folds(it, T, q, G)
  BY <1>1, <1>2, FoldExists
<1>4. F(it)
  <2>1. ASSUME NEW s \in SUBSET T, s # {}
        PROVE  it[s] = Enqueued(it[s \ {Pick(s)}], p[Pick(s)].seg)
    <3>1. Pick(s) \in T /\ s \ {Pick(s)} \in SUBSET T
      BY <2>1, Picked
    <3>2. it[s] = G[<<Pick(s), it[s \ {Pick(s)}]>>]
      BY <1>3, <2>1 DEF Folds
    <3>3. it[s \ {Pick(s)}] \in V
      BY <3>1
    <3> QED
      BY <1>1, <3>1, <3>2, <3>3
  <2>2. it[{}] = q
    BY <1>3 DEF Folds
  <2> QED
    BY <1>3, <2>1, <2>2
<1>5. F(CHOOSE f : F(f))
  BY <1>4
<1>6. PICK h : h = (CHOOSE f : F(f))
  OBVIOUS
<1>7. F(h)
  BY <1>5, <1>6
<1>8. Requeue(p, q, T) = h[T]
  BY <1>6 DEF Requeue, FoldSet, MapThenFoldSet, Pick
<1>9. h[{}] = q
  BY <1>7
<1>10. ASSUME NEW s \in SUBSET T, s # {}
       PROVE  h[s] = Enqueued(h[s \ {Pick(s)}], p[Pick(s)].seg)
  BY <1>7, <1>10
<1> DEFINE Right(s) == h[s] \in Seq(Segment) /\ Range(h[s]) = Range(q) \cup {p[n].seg : n \in s}
           Bad == {s \in SUBSET T : ~Right(s)}
<1> HIDE DEF Right
<1>11. ASSUME Bad # {} PROVE FALSE
  <2>1. PICK m \in Bad : \A s \in Bad : Cardinality(m) <= Cardinality(s)
    BY <1>11, Smallest
  <2>2. m # {}
    <3>1. Right({})
      BY <1>9 DEF Right
    <3> QED
      BY <2>1, <3>1
  <2>3. PICK x : x = Pick(m)
    OBVIOUS
  <2>4. /\ x \in m /\ m \ {x} \in SUBSET T
        /\ Cardinality(m) \in Nat /\ Cardinality(m \ {x}) = Cardinality(m) - 1
    BY <2>1, <2>2, <2>3, Picked
  <2>5. m \ {x} \notin Bad
    <3> HIDE DEF Bad
    <3> QED
      BY <2>1, <2>4
  <2>6. Right(m \ {x})
    BY <2>4, <2>5
  <2>7. h[m] = Enqueued(h[m \ {x}], p[x].seg)
    BY <1>10, <2>1, <2>2, <2>3
  <2>8. p[x].seg \in Segment
    BY <2>1, <2>4
  <2>9. h[m] \in Seq(Segment) /\ Range(h[m]) = Range(h[m \ {x}]) \cup {p[x].seg}
    <3>1. PICK g \in Seq(Segment) : g = h[m \ {x}]
      BY <2>6 DEF Right
    <3>2. PICK y \in Segment : y = p[x].seg
      BY <2>8
    <3>3. Enqueued(g, y) \in Seq(Segment) /\ Range(Enqueued(g, y)) = Range(g) \cup {y}
      BY EnqueuedRange, Zenon
    <3> QED
      BY <2>7, <3>1, <3>2, <3>3, Zenon
  <2>10. {p[n].seg : n \in m} = {p[n].seg : n \in m \ {x}} \cup {p[x].seg}
    BY <2>4
  <2>11. Right(m)
    BY <2>6, <2>9, <2>10 DEF Right
  <2> QED
    BY <2>1, <2>11
<1>12. Right(T)
  BY <1>11
<1> QED
  BY <1>8, <1>12 DEF Right

(* transmit() drops only segments that were acknowledged. *)
LEMMA LiveQueueRange ==
    ASSUME tqueue \in Seq(Segment)
    PROVE  /\ LiveQueue \in Seq(Segment) /\ Range(LiveQueue) \subseteq Range(tqueue)
           /\ \A s \in Range(tqueue) : s.tsn \in twait => s \in Range(LiveQueue)
<1> DEFINE k == CHOOSE j \in Dead : \A i \in Dead : i <= j
           N == {Len(tqueue) - j : j \in Dead}
<1>1. Len(tqueue) \in Nat /\ Range(tqueue) = {tqueue[i] : i \in 1 .. Len(tqueue)}
  BY RangeOf
<1>2. 0 \in Dead /\ Dead \subseteq 0 .. Len(tqueue)
  BY <1>1 DEF Dead
<1>3. N \in SUBSET Nat /\ N # {}
  BY <1>1, <1>2
<1>4. PICK c \in N : \A d \in N : c <= d
  BY <1>3, Least
<1>5. PICK j \in Dead : c = Len(tqueue) - j
  BY <1>4
<1>6. \A i \in Dead : i <= j
  <2> TAKE i \in Dead
  <2>1. c <= Len(tqueue) - i
    BY <1>4
  <2> QED
    BY <1>1, <1>2, <1>5, <2>1
<1>7. k \in Dead
  BY <1>6
<1>8. LiveQueue = SubSeq(tqueue, k + 1, Len(tqueue))
  BY DEF LiveQueue
<1> HIDE DEF k
<1>9. k \in 0 .. Len(tqueue) /\ \A i \in 1 .. k : tqueue[i].tsn \notin twait
  BY <1>7 DEF Dead
<1>10. /\ LiveQueue \in Seq(Segment) /\ Len(LiveQueue) = Len(tqueue) - k
       /\ \A i \in 1 .. Len(tqueue) - k : LiveQueue[i] = tqueue[k + i]
  BY <1>8, <1>9, Cut
<1>11. Range(LiveQueue) = {LiveQueue[i] : i \in 1 .. Len(tqueue) - k}
  BY <1>10, RangeOf
<1>12. ASSUME NEW i \in 1 .. Len(tqueue) - k PROVE LiveQueue[i] \in Range(tqueue)
  <2>1. k + i \in 1 .. Len(tqueue) /\ LiveQueue[i] = tqueue[k + i]
    BY <1>1, <1>9, <1>10
  <2> QED
    BY <1>1, <2>1
<1>13. ASSUME NEW i \in 1 .. Len(tqueue), tqueue[i].tsn \in twait
       PROVE  tqueue[i] \in Range(LiveQueue)
  <2>1. ~(i <= k)
    BY <1>9, <1>13
  <2>2. i - k \in 1 .. Len(tqueue) - k /\ k + (i - k) = i
    BY <1>1, <1>9, <2>1
  <2>3. LiveQueue[i - k] = tqueue[i]
    BY <1>10, <2>2
  <2> QED
    BY <1>11, <2>2, <2>3
<1> QED
  BY <1>1, <1>10, <1>11, <1>12, <1>13

LEMMA HeadTail ==
    ASSUME NEW q \in Seq(Segment), q # <<>>
    PROVE  /\ Head(q) \in Segment /\ Tail(q) \in Seq(Segment)
           /\ Range(q) = {Head(q)} \cup Range(Tail(q))
<1>1. /\ Head(q) = q[1] /\ Head(q) \in Segment /\ Tail(q) \in Seq(Segment)
      /\ Len(Tail(q)) = Len(q) - 1 /\ \A i \in 1 .. Len(q) - 1 : Tail(q)[i] = q[i + 1]
  BY HeadTailProperties
<1>2. Len(q) \in Nat \ {0}
  BY EmptySeq, LenProperties
<1>3. Range(q) = {q[i] : i \in 1 .. Len(q)} /\ Range(Tail(q)) = {Tail(q)[i] : i \in 1 .. Len(q) - 1}
  BY <1>1, RangeOf
<1>4. ASSUME NEW i \in 1 .. Len(q) PROVE q[i] \in {Head(q)} \cup Range(Tail(q))
  <2>1. i # 1 => i - 1 \in 1 .. Len(q) - 1 /\ (i - 1) + 1 = i
    BY <1>2
  <2>2. i # 1 => Tail(q)[i - 1] = q[i]
    BY <1>1, <2>1
  <2> QED
    BY <1>1, <1>3, <2>1, <2>2
<1>5. ASSUME NEW i \in 1 .. Len(q) - 1 PROVE Tail(q)[i] \in Range(q)
  <2>1. i + 1 \in 1 .. Len(q)
    BY <1>2
  <2> QED
    BY <1>1, <1>3, <2>1
<1>6. Head(q) \in Range(q)
  BY <1>1, <1>2, <1>3
<1> QED
  BY <1>1, <1>3, <1>4, <1>5, <1>6


-----------------------------------------------------------------------------
(* Packets in flight.                                                      *)

Of(p, S, type) == {n \in S : p[n].type = type}

(* The bytes of the packets in S of one type. *)
Flight(p, S, type) == Bytes(p, Of(p, S, type))

Carried(p, S) == IsFiniteSet(S) /\ \A n \in S : p[n].seg \in Segment

LEMMA CarriedSized ==
    ASSUME NEW p, NEW S, Carried(p, S), NEW type
    PROVE  Sized(p, Of(p, S, type))
<1>1. Of(p, S, type) \in SUBSET S
  BY DEF Of
<1>2. \A n \in S : p[n].seg.size \in Nat
  BY DEF Carried, Segment
<1> QED
  BY <1>1, <1>2, FS_Subset DEF Carried, Sized

LEMMA NoFlight ==
    ASSUME NEW p, NEW type
    PROVE  Flight(p, {}, type) = 0
<1>1. Of(p, {}, type) = {}
  BY DEF Of
<1> QED
  BY <1>1, NoBytes DEF Flight

LEMMA SameFlight ==
    ASSUME NEW p, NEW q, NEW S, Carried(p, S), \A n \in S : p[n] = q[n], NEW type
    PROVE  Flight(p, S, type) = Flight(q, S, type) /\ Flight(p, S, type) \in Nat
<1>1. Of(p, S, type) = Of(q, S, type) /\ \A n \in Of(p, S, type) : p[n].seg.size = q[n].seg.size
  BY DEF Of
<1>2. Sized(p, Of(p, S, type))
  BY CarriedSized
<1>3. PICK T : T = Of(p, S, type)
  OBVIOUS
<1>4. Bytes(p, T) = Bytes(q, T) /\ Bytes(p, T) \in Nat
  BY <1>1, <1>2, <1>3, SameBytes
<1> QED
  BY <1>1, <1>3, <1>4 DEF Flight

(* What the packet x adds to the packets S. *)
Adds(p, S, x, R, type) ==
    /\ Flight(p, S, type) \in Nat
    /\ p[x].type = type => /\ Flight(p, R, type) = Flight(p, S, type) + p[x].seg.size
                           /\ p[x].seg.size \in Nat
    /\ p[x].type # type => Flight(p, R, type) = Flight(p, S, type)

LEMMA MoreFlight ==
    ASSUME NEW p, NEW S, NEW x, x \notin S, NEW R, R = S \cup {x}, Carried(p, R), NEW type
    PROVE  Adds(p, S, x, R, type)
<1> DEFINE T == Of(p, S, type)
           U == Of(p, R, type)
<1>1. Carried(p, S)
  <2>1. S \in SUBSET R
    OBVIOUS
  <2> QED
    BY <2>1, FS_Subset DEF Carried
<1>2. Bytes(p, T) \in Nat
  BY <1>1, SameFlight DEF Flight
<1>3. Sized(p, U)
  BY CarriedSized
<1>4. p[x].type # type => U = T
  BY DEF Of
<1>5. p[x].type = type => U = T \cup {x} /\ x \notin T
  BY DEF Of
<1> HIDE DEF T, U
<1>6. ASSUME p[x].type = type
      PROVE  Bytes(p, U) = p[x].seg.size + Bytes(p, T) /\ p[x].seg.size \in Nat
  BY <1>3, <1>5, <1>6, MoreBytes
<1> QED
  BY <1>2, <1>4, <1>6 DEF Flight, Adds, T, U

LEMMA OneFlight ==
    ASSUME NEW p, NEW x, p[x].seg \in Segment, NEW type
    PROVE  /\ p[x].type = type => Flight(p, {x}, type) = p[x].seg.size
           /\ p[x].type # type => Flight(p, {x}, type) = 0
<1>1. {} \cup {x} = {x} /\ x \notin {}
  OBVIOUS
<1>2. Carried(p, {x})
  BY FS_Singleton DEF Carried
<1>3. /\ p[x].type = type => Flight(p, {x}, type) = Flight(p, {}, type) + p[x].seg.size
                             /\ p[x].seg.size \in Nat
      /\ p[x].type # type => Flight(p, {x}, type) = Flight(p, {}, type)
  <2>1. Adds(p, {}, x, {x}, type)
    BY <1>1, <1>2, MoreFlight, Zenon
  <2> QED
    BY <2>1 DEF Adds
<1> QED
  BY <1>3, NoFlight

(* Taking a packet out of flight takes away what endflight() computes. *)
LEMMA LessFlight ==
    ASSUME NEW p, NEW q, NEW S, NEW x \in S, Carried(p, S), \A n \in S \ {x} : q[n] = p[n], NEW type
    PROVE  /\ Flight(q, S \ {x}, type) = Flight(p, S, type) - Flight(p, {x}, type)
           /\ Flight(q, S \ {x}, type) \in Nat
<1> DEFINE T == S \ {x}
<1>1. T \cup {x} = S /\ x \notin T /\ p[x].seg \in Segment
  BY DEF Carried
<1>2. Carried(p, T)
  <2>1. T \in SUBSET S
    OBVIOUS
  <2> QED
    BY <2>1, FS_Subset DEF Carried
<1>3. \A n \in T : p[n] = q[n]
  OBVIOUS
<1> HIDE DEF T
<1>4. Flight(p, T, type) = Flight(q, T, type) /\ Flight(p, T, type) \in Nat
  BY <1>2, <1>3, SameFlight
<1>5. /\ p[x].type = type => /\ Flight(p, S, type) = Flight(p, T, type) + p[x].seg.size
                             /\ p[x].seg.size \in Nat
      /\ p[x].type # type => Flight(p, S, type) = Flight(p, T, type)
  <2>1. Adds(p, T, x, S, type)
    BY <1>1, MoreFlight, Zenon
  <2> QED
    BY <2>1 DEF Adds
<1>6. /\ p[x].type = type => Flight(p, {x}, type) = p[x].seg.size
      /\ p[x].type # type => Flight(p, {x}, type) = 0
  BY <1>1, OneFlight
<1>7. Flight(q, T, type) = Flight(p, S, type) - Flight(p, {x}, type)
  <2>1. CASE p[x].type = type
    BY <1>4, <1>5, <1>6, <2>1
  <2>2. CASE p[x].type # type
    BY <1>4, <1>5, <1>6, <2>2
  <2> QED
    BY <2>1, <2>2
<1> QED
  BY <1>4, <1>7 DEF T


-----------------------------------------------------------------------------
(* The inductive invariant.                                                *)

TxTyped ==
    /\ tasn \in Nat /\ tqueue \in Seq(Segment) /\ npkts \in Nat
    /\ inflight \in SUBSET (1 .. npkts) /\ wire \in SUBSET (1 .. npkts)
    /\ \A n \in inflight \cup wire : pkts[n].seg \in Segment

(* The bytes in flight are t and, for the parent, u. *)
Counts(p, S, t, u) == t = Flight(p, S, "data") /\ u = Flight(p, S, "init")

(* Every position of w is in the queue q or in a packet of S. *)
Retains(p, q, S, w) ==
    \A t \in w : \/ \E s \in Range(q) : s.tsn = t
                 \/ \E n \in S : p[n].type # "attach" /\ p[n].seg.tsn = t

TxInv ==
    /\ TxTyped
    /\ Counts(pkts, inflight, tflt, parenttflt)
    /\ Retains(pkts, tqueue, inflight, twait)

LEMMA InFlightBytesIs == \A type, S : InFlightBytes(type, S) = Flight(pkts, S, type)
  BY DEF InFlightBytes, Flight, Bytes, Of

LEMMA Finite ==
    ASSUME TxTyped
    PROVE  Carried(pkts, inflight)
<1>1. IsFiniteSet(1 .. npkts)
  BY FS_Interval DEF TxTyped
<1> QED
  BY <1>1, FS_Subset DEF TxTyped, Carried

(* What is needed of a step that leaves the queue and the packets in flight. *)
LEMMA Undisturbed ==
    ASSUME TxInv, tasn' = tasn, tqueue' = tqueue, npkts' = npkts, inflight' = inflight,
           wire' \subseteq wire, \A n \in inflight \cup wire' : pkts'[n] = pkts[n],
           tflt' = tflt, parenttflt' = parenttflt, twait' = twait
    PROVE  TxInv'
<1>1. Carried(pkts, inflight)
  BY Finite DEF TxInv
<1>2. TxTyped'
  BY DEF TxInv, TxTyped
<1>3. \A n \in inflight : pkts[n] = pkts'[n]
  OBVIOUS
<1>4. \A type : Flight(pkts, inflight, type) = Flight(pkts', inflight, type)
  BY <1>1, <1>3, SameFlight
<1>5. Counts(pkts', inflight', tflt', parenttflt')
  BY <1>4 DEF TxInv, Counts
<1>6. Retains(pkts', tqueue', inflight', twait')
  BY <1>3 DEF TxInv, Retains
<1> QED
  BY <1>2, <1>5, <1>6 DEF TxInv

(* A new packet. *)
LEMMA PutStep ==
    ASSUME TxTyped, NEW type, NEW seg \in Segment, Put(type, seg), tasn' = tasn,
           tqueue' \in Seq(Segment)
    PROVE  /\ TxTyped'
           /\ inflight' = inflight \cup {npkts'} /\ npkts' \notin inflight
           /\ \A n \in inflight : pkts'[n] = pkts[n]
           /\ pkts'[npkts'].type = type /\ pkts'[npkts'].seg = seg
<1>1. /\ npkts' = npkts + 1 /\ npkts \in Nat /\ inflight' = inflight \cup {npkts'}
      /\ wire' = wire \cup {npkts'}
      /\ inflight \in SUBSET (1 .. npkts) /\ wire \in SUBSET (1 .. npkts)
  BY DEF TxTyped, Put
<1>2. npkts' \notin inflight /\ npkts' \notin wire /\ npkts' \in Nat
      /\ inflight' \in SUBSET (1 .. npkts') /\ wire' \in SUBSET (1 .. npkts')
  BY <1>1
<1>3. PICK pkt : pkt = [type |-> type, flow |-> flow, seg |-> seg, creates |-> init]
  OBVIOUS
<1>4. pkt.type = type /\ pkt.seg = seg
  BY <1>3
<1>5. pkts' = [n \in inflight' \cup wire' |-> IF n = npkts' THEN pkt ELSE pkts[n]]
  BY <1>3 DEF Put
<1>6. /\ \A n \in inflight \cup wire : pkts'[n] = pkts[n]
      /\ pkts'[npkts'] = pkt
  BY <1>1, <1>2, <1>5
<1>7. \A n \in inflight' \cup wire' : pkts'[n].seg \in Segment
  <2>1. \A n \in inflight \cup wire : pkts[n].seg \in Segment
    BY DEF TxTyped
  <2>2. \A n \in inflight \cup wire : pkts'[n].seg \in Segment
    BY <1>6, <2>1
  <2>3. pkts'[npkts'].seg \in Segment
    BY <1>4, <1>6
  <2> QED
    BY <1>1, <2>2, <2>3, Zenon
<1>8. TxTyped'
  BY <1>2, <1>7 DEF TxTyped
<1> QED
  BY <1>1, <1>2, <1>4, <1>6, <1>8

LEMMA PutCounts ==
    ASSUME TxTyped, NEW type, NEW seg \in Segment, Put(type, seg), tasn' = tasn,
           tqueue' \in Seq(Segment), NEW k
    PROVE  /\ Flight(pkts, inflight, k) \in Nat /\ seg.size \in Nat
           /\ type = k => Flight(pkts', inflight', k) = Flight(pkts, inflight, k) + seg.size
           /\ type # k => Flight(pkts', inflight', k) = Flight(pkts, inflight, k)
<1>1. /\ TxTyped' /\ inflight' = inflight \cup {npkts'} /\ npkts' \notin inflight
      /\ \A n \in inflight : pkts'[n] = pkts[n]
      /\ pkts'[npkts'].type = type /\ pkts'[npkts'].seg = seg
  BY PutStep
<1>2. Carried(pkts, inflight)
  BY Finite
<1>3. Carried(pkts', inflight')
  <2>1. IsFiniteSet(1 .. npkts')
    BY <1>1, FS_Interval DEF TxTyped
  <2> QED
    BY <1>1, <2>1, FS_Subset DEF TxTyped, Carried
<1>4. /\ Flight(pkts, inflight, k) = Flight(pkts', inflight, k) /\ Flight(pkts, inflight, k) \in Nat
  BY <1>1, <1>2, SameFlight
<1>5. Adds(pkts', inflight, npkts', inflight', k)
  BY <1>1, <1>3, MoreFlight, Zenon
<1>6. seg.size \in Nat
  BY DEF Segment
<1> QED
  BY <1>1, <1>4, <1>5, <1>6 DEF Adds

(* A packet gets its verdict. *)
LEMMA SettleOne ==
    ASSUME TxTyped, NEW n \in inflight, Settle({n}), tasn' = tasn, tqueue' \in Seq(Segment)
    PROVE  /\ TxTyped' /\ inflight' = inflight \ {n}
           /\ \A m \in inflight' : pkts'[m] = pkts[m]
           /\ \A k : Flight(pkts', inflight', k) = Flight(pkts, inflight, k) - Flight(pkts, {n}, k)
<1>1. /\ inflight' = inflight \ {n} /\ npkts' = npkts /\ wire' = wire
      /\ pkts' = [m \in inflight' \cup wire |-> pkts[m]]
  BY DEF Settle
<1>2. \A m \in inflight' \cup wire : pkts'[m] = pkts[m]
  BY <1>1
<1>3. TxTyped'
  BY <1>1, <1>2 DEF TxTyped
<1>4. Carried(pkts, inflight)
  BY Finite
<1>5. \A m \in inflight \ {n} : pkts'[m] = pkts[m]
  BY <1>1, <1>2
<1>6. ASSUME NEW k
      PROVE  Flight(pkts', inflight \ {n}, k) = Flight(pkts, inflight, k) - Flight(pkts, {n}, k)
  BY <1>4, <1>5, LessFlight
<1> QED
  BY <1>1, <1>2, <1>3, <1>6

(* The segments of one write. *)
LEMMA SegmentsType ==
    ASSUME TxTyped, NEW n \in Nat, NEW f \in SUBSET Flag
    PROVE  Segments(n, f) \in Seq(Segment)
<1> DEFINE k == IF n = 0 THEN 1 ELSE (n + MTU - 1) \div MTU
<1>1. MTU \in Nat \ {0} /\ tasn \in Nat
  BY StreamTxAssumption DEF TxTyped
<1>2. k \in Nat
  BY <1>1
<1>3. ASSUME NEW i \in 1 .. k
      PROVE  (i - 1) * MTU \in Nat /\ n - (i - 1) * MTU \in Nat
  <2>1. CASE n = 0
    BY <1>1, <1>3, <2>1
  <2>2. CASE n # 0
    <3>1. PICK m \in Nat : m = n + MTU - 1
      BY <1>1
    <3>2. PICK d \in Nat : d = m \div MTU
      BY <1>1
    <3>3. MTU * d <= m
      BY <1>1, <3>1, <3>2
    <3>4. i <= d /\ i >= 1 /\ i \in Nat
      BY <2>2, <3>1, <3>2, <1>2
    <3>5. PICK j \in Nat : j = i - 1
      BY <3>4
    <3>6. j * MTU \in Nat /\ j * MTU <= (d - 1) * MTU /\ (d - 1) * MTU = MTU * d - MTU
      BY <1>1, <3>2, <3>4, <3>5
    <3>7. j * MTU <= n
      BY <1>1, <3>1, <3>3, <3>6
    <3> QED
      BY <1>1, <3>5, <3>6, <3>7
  <2> QED
    BY <2>1, <2>2
<1> HIDE DEF k
<1>4. ASSUME NEW i \in 1 .. k
      PROVE  [tsn |-> tasn + (i - 1) * MTU, size |-> Min2(MTU, n - (i - 1) * MTU),
              flags |-> IF i = k THEN {"push"} \cup f ELSE {}] \in Segment
  <2>1. PICK a \in Nat : a = (i - 1) * MTU
    BY <1>3
  <2>2. PICK b \in Nat : b = n - (i - 1) * MTU
    BY <1>3
  <2>3. tasn + a \in Nat /\ Min2(MTU, b) \in Nat
    BY <1>1 DEF Min2
  <2>4. {"push"} \cup f \in SUBSET Flag /\ {} \in SUBSET Flag
    BY DEF Flag
  <2> QED
    BY <2>1, <2>2, <2>3, <2>4 DEF Segment
<1>5. Segments(n, f) = [i \in 1 .. k |->
         [tsn |-> tasn + (i - 1) * MTU, size |-> Min2(MTU, n - (i - 1) * MTU),
          flags |-> IF i = k THEN {"push"} \cup f ELSE {}]]
  BY DEF Segments, k
<1>6. Segments(n, f) \in [1 .. k -> Segment]
  BY <1>4, <1>5
<1> QED
  BY <1>2, <1>6, SeqDef


-----------------------------------------------------------------------------
(* Each step of the sender keeps the invariant.                            *)

LEMMA WriteStep ==
    ASSUME TxInv, NEW n \in Nat, NEW f \in SUBSET Flag, WriteData(n, f)
    PROVE  TxInv'
<1> DEFINE segs == Segments(n, f)
<1>1. TxTyped /\ tqueue \in Seq(Segment) /\ tasn \in Nat
  BY DEF TxInv, TxTyped
<1>2. segs \in Seq(Segment)
  BY <1>1, SegmentsType
<1>3. /\ tqueue' = tqueue \o segs /\ twait' = twait \cup {segs[i].tsn : i \in DOMAIN segs}
      /\ tasn' = tasn + n /\ UNCHANGED <<tflt, parenttflt, npkts, inflight, wire, pkts>>
  BY DEF WriteData
<1> HIDE DEF segs
<1>4. tqueue' \in Seq(Segment) /\ Range(tqueue') = Range(tqueue) \cup Range(segs)
  BY <1>1, <1>2, <1>3, RangeOfConcat
<1>5. TxTyped'
  BY <1>1, <1>3, <1>4 DEF TxTyped
<1>6. Counts(pkts', inflight', tflt', parenttflt')
  BY <1>3 DEF TxInv
<1>7. Retains(pkts', tqueue', inflight', twait')
  BY <1>3, <1>4 DEF TxInv, Retains, Range
<1> QED
  BY <1>5, <1>6, <1>7 DEF TxInv

LEMMA TransmitStep ==
    ASSUME TxInv, Transmit
    PROVE  TxInv'
<1> DEFINE q == LiveQueue
<1>1. /\ TxTyped /\ tqueue \in Seq(Segment)
      /\ Counts(pkts, inflight, tflt, parenttflt) /\ Retains(pkts, tqueue, inflight, twait)
  BY DEF TxInv, TxTyped
<1>2. /\ q \in Seq(Segment)
      /\ \A s \in Range(tqueue) : s.tsn \in twait => s \in Range(q)
  BY <1>1, LiveQueueRange
<1>3. Retains(pkts, q, inflight, twait)
  BY <1>1, <1>2 DEF Retains
<1>4. NoSegment \in Segment
  BY DEF NoSegment, Segment
<1>5. tasn' = tasn /\ twait' = twait
  BY DEF Transmit, TransmitNothing, TransmitData, TransmitInit, TransmitAttach, TxFrame
<1>6. CASE TransmitNothing
  <2>1. /\ q = <<>> /\ tqueue' = <<>>
        /\ UNCHANGED <<tflt, parenttflt, npkts, inflight, wire, pkts>>
    BY <1>6 DEF TransmitNothing
  <2>2. TxTyped'
    BY <1>1, <1>2, <1>5, <2>1 DEF TxTyped
  <2> QED
    BY <1>1, <1>3, <1>5, <2>1, <2>2 DEF TxInv, Counts
<1>7. ASSUME q # <<>>, NEW type \in {"data", "init"}, Put(type, Head(q)), tqueue' = Tail(q)
      PROVE  /\ TxTyped' /\ Retains(pkts', tqueue', inflight', twait')
             /\ Head(q).size \in Nat
             /\ \A k : Flight(pkts, inflight, k) \in Nat
             /\ Flight(pkts', inflight', type) = Flight(pkts, inflight, type) + Head(q).size
             /\ \A k : k # type => Flight(pkts', inflight', k) = Flight(pkts, inflight, k)
  <2>1. PICK seg \in Segment : seg = Head(q) /\ Range(q) = {seg} \cup Range(tqueue')
                                /\ tqueue' \in Seq(Segment)
    BY <1>2, <1>7, HeadTail
  <2>2. Put(type, seg)
    BY <1>7, <2>1
  <2>3. /\ TxTyped'
        /\ inflight' = inflight \cup {npkts'} /\ npkts' \notin inflight
        /\ \A n \in inflight : pkts'[n] = pkts[n]
        /\ pkts'[npkts'].type = type /\ pkts'[npkts'].seg = seg
    BY <1>1, <1>5, <2>1, <2>2, PutStep
  <2>4. ASSUME NEW k
        PROVE  /\ Flight(pkts, inflight, k) \in Nat /\ seg.size \in Nat
               /\ type = k => Flight(pkts', inflight', k) = Flight(pkts, inflight, k) + seg.size
               /\ type # k => Flight(pkts', inflight', k) = Flight(pkts, inflight, k)
    BY <1>1, <1>5, <2>1, <2>2, PutCounts
  <2>5. ASSUME NEW t \in twait
        PROVE  \/ \E s \in Range(tqueue') : s.tsn = t
               \/ \E n \in inflight' : pkts'[n].type # "attach" /\ pkts'[n].seg.tsn = t
    <3>1. CASE \E n \in inflight : pkts[n].type # "attach" /\ pkts[n].seg.tsn = t
      BY <2>3, <3>1
    <3>2. CASE seg.tsn = t
      <4>1. npkts' \in inflight' /\ pkts'[npkts'].type # "attach" /\ pkts'[npkts'].seg.tsn = t
        BY <2>3, <3>2, <1>7
      <4> QED
        BY <4>1
    <3>3. CASE \E s \in Range(tqueue') : s.tsn = t
      BY <3>3
    <3> QED
      BY <1>3, <2>1, <3>1, <3>2, <3>3 DEF Retains
  <2>6. Retains(pkts', tqueue', inflight', twait')
    BY <1>5, <2>5 DEF Retains
  <2> QED
    BY <2>1, <2>3, <2>4, <2>6
<1>8. CASE TransmitData
  <2>1. /\ q # <<>> /\ Put("data", Head(q)) /\ tqueue' = Tail(q)
        /\ tflt' = tflt + Head(q).size /\ parenttflt' = parenttflt
    BY <1>8 DEF TransmitData
  <2>2. /\ TxTyped' /\ Retains(pkts', tqueue', inflight', twait')
        /\ Flight(pkts', inflight', "data") = Flight(pkts, inflight, "data") + Head(q).size
        /\ Flight(pkts', inflight', "init") = Flight(pkts, inflight, "init")
    BY <1>7, <2>1
  <2> QED
    BY <1>1, <2>1, <2>2 DEF TxInv, Counts
<1>9. CASE TransmitInit
  <2>1. /\ q # <<>> /\ Put("init", Head(q)) /\ tqueue' = Tail(q)
        /\ parenttflt' = parenttflt + Head(q).size /\ tflt' = tflt
    BY <1>9 DEF TransmitInit
  <2>2. /\ TxTyped' /\ Retains(pkts', tqueue', inflight', twait')
        /\ Flight(pkts', inflight', "init") = Flight(pkts, inflight, "init") + Head(q).size
        /\ Flight(pkts', inflight', "data") = Flight(pkts, inflight, "data")
    BY <1>7, <2>1
  <2> QED
    BY <1>1, <2>1, <2>2 DEF TxInv, Counts
<1>10. CASE TransmitAttach
  <2>1. /\ Put("attach", NoSegment) /\ tqueue' = q
        /\ parenttflt' = parenttflt /\ tflt' = tflt
    BY <1>10 DEF TransmitAttach
  <2>2. /\ TxTyped' /\ inflight' = inflight \cup {npkts'}
        /\ \A n \in inflight : pkts'[n] = pkts[n]
    BY <1>1, <1>2, <1>4, <1>5, <2>1, PutStep
  <2>3. ASSUME NEW k, k # "attach"
        PROVE  Flight(pkts', inflight', k) = Flight(pkts, inflight, k)
    BY <1>1, <1>2, <1>4, <1>5, <2>1, <2>3, PutCounts
  <2>4. Counts(pkts', inflight', tflt', parenttflt')
    BY <1>1, <2>1, <2>3 DEF Counts
  <2>5. Retains(pkts', tqueue', inflight', twait')
    BY <1>3, <1>5, <2>1, <2>2 DEF Retains
  <2> QED
    BY <2>2, <2>4, <2>5 DEF TxInv
<1> QED
  BY <1>6, <1>8, <1>9, <1>10 DEF Transmit


LEMMA RequeuedIs ==
    \A S : Requeued(S) = Requeue(pkts, tqueue, {n \in S : pkts[n].type # "attach"})
  BY DEF Requeued, Requeue

LEMMA AckedStep ==
    ASSUME TxInv, NEW n \in inflight, Acked(n)
    PROVE  TxInv'
<1>1. /\ TxTyped /\ Counts(pkts, inflight, tflt, parenttflt)
      /\ Retains(pkts, tqueue, inflight, twait) /\ tqueue \in Seq(Segment)
  BY DEF TxInv, TxTyped
<1>2. Settle({n}) /\ EndFlight({n}) /\ tasn' = tasn /\ tqueue' = tqueue
  BY DEF Acked
<1>3. /\ TxTyped' /\ inflight' = inflight \ {n}
      /\ \A m \in inflight' : pkts'[m] = pkts[m]
      /\ \A k : Flight(pkts', inflight', k) = Flight(pkts, inflight, k) - Flight(pkts, {n}, k)
  BY <1>1, <1>2, SettleOne
<1>4. Counts(pkts', inflight', tflt', parenttflt')
  BY <1>1, <1>2, <1>3, InFlightBytesIs DEF Counts, EndFlight
<1>5. \A t \in twait' : t \in twait /\ (pkts[n].type # "attach" => t # pkts[n].seg.tsn)
  BY DEF Acked
<1>6. Retains(pkts', tqueue', inflight', twait')
  BY <1>1, <1>2, <1>3, <1>5 DEF Retains
<1> QED
  BY <1>3, <1>4, <1>6 DEF TxInv

(* What missed() and detachAll() put back is queued again. *)
LEMMA RequeuedRange ==
    ASSUME TxTyped, NEW S \in SUBSET inflight
    PROVE  /\ Requeued(S) \in Seq(Segment)
           /\ Range(Requeued(S))
                = Range(tqueue) \cup {pkts[m].seg : m \in {i \in S : pkts[i].type # "attach"}}
<1> DEFINE T == {i \in S : pkts[i].type # "attach"}
<1>1. T \in SUBSET inflight
  OBVIOUS
<1>2. Carried(pkts, inflight)
  BY Finite
<1>3. IsFiniteSet(T) /\ \A m \in T : pkts[m].seg \in Segment
  BY <1>1, <1>2, FS_Subset DEF Carried
<1>4. tqueue \in Seq(Segment) /\ Requeued(S) = Requeue(pkts, tqueue, T)
  BY RequeuedIs DEF TxTyped
<1> HIDE DEF T
<1>5. /\ Requeue(pkts, tqueue, T) \in Seq(Segment)
      /\ Range(Requeue(pkts, tqueue, T)) = Range(tqueue) \cup {pkts[m].seg : m \in T}
  BY <1>3, <1>4, RequeueRange
<1> QED
  BY <1>4, <1>5 DEF T

LEMMA MissedStep ==
    ASSUME TxInv, NEW n \in inflight, Missed(n)
    PROVE  TxInv'
<1>1. /\ TxTyped /\ Counts(pkts, inflight, tflt, parenttflt)
      /\ Retains(pkts, tqueue, inflight, twait)
  BY DEF TxInv
<1>2. /\ Settle({n}) /\ EndFlight({n}) /\ tasn' = tasn /\ tqueue' = Requeued({n})
      /\ twait' = twait
  BY DEF Missed
<1>3. {n} \in SUBSET inflight
  OBVIOUS
<1>4. /\ tqueue' \in Seq(Segment)
      /\ Range(tqueue')
           = Range(tqueue) \cup {pkts[m].seg : m \in {i \in {n} : pkts[i].type # "attach"}}
  BY <1>1, <1>2, <1>3, RequeuedRange
<1>5. /\ TxTyped' /\ inflight' = inflight \ {n}
      /\ \A m \in inflight' : pkts'[m] = pkts[m]
      /\ \A k : Flight(pkts', inflight', k) = Flight(pkts, inflight, k) - Flight(pkts, {n}, k)
  BY <1>1, <1>2, <1>4, SettleOne
<1>6. Counts(pkts', inflight', tflt', parenttflt')
  BY <1>1, <1>2, <1>5, InFlightBytesIs DEF Counts, EndFlight
<1>7. /\ \A s \in Range(tqueue) : s \in Range(tqueue')
      /\ pkts[n].type # "attach" => pkts[n].seg \in Range(tqueue')
  BY <1>4
<1>8. ASSUME NEW t \in twait,
             NEW m \in inflight, pkts[m].type # "attach", pkts[m].seg.tsn = t
      PROVE  \/ \E s \in Range(tqueue') : s.tsn = t
             \/ \E i \in inflight' : pkts'[i].type # "attach" /\ pkts'[i].seg.tsn = t
  <2>1. CASE m = n
    BY <1>7, <1>8, <2>1
  <2>2. CASE m # n
    <3>1. m \in inflight' /\ pkts'[m] = pkts[m]
      BY <1>5, <2>2
    <3> QED
      BY <1>8, <3>1
  <2> QED
    BY <2>1, <2>2
<1>9. Retains(pkts', tqueue', inflight', twait')
  BY <1>1, <1>2, <1>7, <1>8, Zenon DEF Retains
<1> QED
  BY <1>5, <1>6, <1>9 DEF TxInv

LEMMA ClearStep ==
    ASSUME TxInv, ClearPrimary
    PROVE  TxInv'
<1>1. /\ TxTyped /\ Counts(pkts, inflight, tflt, parenttflt)
      /\ Retains(pkts, tqueue, inflight, twait)
  BY DEF TxInv
<1>2. /\ Settle(inflight) /\ EndFlight(inflight) /\ tasn' = tasn
      /\ tqueue' = Requeued(inflight) /\ twait' = twait
  BY DEF ClearPrimary
<1>3. /\ inflight' = {} /\ npkts' = npkts /\ wire' = wire
      /\ pkts' = [m \in inflight' \cup wire |-> pkts[m]]
  BY <1>2 DEF Settle
<1>4. /\ tqueue' \in Seq(Segment)
      /\ Range(tqueue')
           = Range(tqueue) \cup {pkts[m].seg : m \in {i \in inflight : pkts[i].type # "attach"}}
  BY <1>1, <1>2, RequeuedRange
<1>5. TxTyped'
  BY <1>1, <1>2, <1>3, <1>4 DEF TxTyped
<1>6. \A k : Flight(pkts, inflight, k) \in Nat
  BY <1>1, Finite, SameFlight
<1>7. tflt' = 0 /\ parenttflt' = 0
  <2>1. /\ tflt' = Flight(pkts, inflight, "data") - Flight(pkts, inflight, "data")
        /\ parenttflt' = Flight(pkts, inflight, "init") - Flight(pkts, inflight, "init")
    BY <1>1, <1>2, InFlightBytesIs DEF EndFlight, Counts
  <2> QED
    BY <1>6, <2>1
<1>8. Counts(pkts', inflight', tflt', parenttflt')
  BY <1>3, <1>7, NoFlight DEF Counts
<1>9. /\ \A s \in Range(tqueue) : s \in Range(tqueue')
      /\ \A m \in inflight : pkts[m].type # "attach" => pkts[m].seg \in Range(tqueue')
  BY <1>4
<1>10. Retains(pkts', tqueue', inflight', twait')
  BY <1>1, <1>2, <1>9 DEF Retains
<1> QED
  BY <1>5, <1>8, <1>10 DEF TxInv

(* Arrival and loss touch the network only. *)
LEMMA ArriveStep ==
    ASSUME TxInv, NEW n, NEW ack, Arrive(n, ack)
    PROVE  TxInv'
<1>1. /\ wire' = wire \ {n} /\ pkts' = [m \in inflight \cup wire' |-> pkts[m]]
      /\ UNCHANGED <<tasn, tqueue, npkts, inflight, tflt, parenttflt, twait>>
  BY DEF Arrive
<1>2. wire' \subseteq wire /\ \A m \in inflight \cup wire' : pkts'[m] = pkts[m]
  BY <1>1
<1> QED
  BY <1>1, <1>2, Undisturbed

LEMMA LoseStep ==
    ASSUME TxInv, NEW n, Lose(n)
    PROVE  TxInv'
<1>1. /\ wire' = wire \ {n} /\ pkts' = [m \in inflight \cup wire' |-> pkts[m]]
      /\ UNCHANGED <<tasn, tqueue, npkts, inflight, tflt, parenttflt, twait>>
  BY DEF Lose
<1>2. wire' \subseteq wire /\ \A m \in inflight \cup wire' : pkts'[m] = pkts[m]
  BY <1>1
<1> QED
  BY <1>1, <1>2, Undisturbed

LEMMA StillStep ==
    ASSUME TxInv, UNCHANGED <<tasn, tqueue, npkts, inflight, wire, pkts, tflt, parenttflt, twait>>
    PROVE  TxInv'
<1>1. wire' \subseteq wire /\ \A m \in inflight \cup wire' : pkts'[m] = pkts[m]
  OBVIOUS
<1> QED
  BY <1>1, Undisturbed

LEMMA TxInvInit ==
    ASSUME Init
    PROVE  TxInv
<1>1. /\ tasn = 0 /\ tqueue = <<>> /\ npkts = 0 /\ inflight = {} /\ wire = {}
      /\ tflt = 0 /\ parenttflt = 0 /\ twait = {}
  BY DEF Init, TxInit
<1>2. TxTyped
  BY <1>1 DEF TxTyped
<1>3. Counts(pkts, inflight, tflt, parenttflt)
  BY <1>1, NoFlight DEF Counts
<1>4. Retains(pkts, tqueue, inflight, twait)
  BY <1>1 DEF Retains
<1> QED
  BY <1>2, <1>3, <1>4 DEF TxInv

LEMMA TxInvStep ==
    ASSUME TxInv, [Next]_vars
    PROVE  TxInv'
<1>1. CASE AppWrite
  <2>1. {"push"} \in SUBSET Flag /\ {"message"} \in SUBSET Flag /\ {"close"} \in SUBSET Flag
    BY DEF Flag
  <2>2. WriteSizes \subseteq Nat /\ MessageSizes \subseteq Nat /\ CloseSizes \subseteq Nat
    BY StreamTxAssumption
  <2>3. PICK n \in Nat, f \in SUBSET Flag : WriteData(n, f)
    BY <1>1, <2>1, <2>2 DEF AppWrite
  <2> QED
    BY <2>3, WriteStep
<1>2. CASE Sender
  <2>1. CASE Transmit
    BY <2>1, TransmitStep
  <2>2. CASE WindowUpdate \/ FlowStarted
    BY <2>2, StillStep DEF WindowUpdate, FlowStarted
  <2>3. CASE ClearPrimary
    BY <2>3, ClearStep
  <2>4. ASSUME NEW n \in inflight, Acked(n) \/ Missed(n) PROVE TxInv'
    BY <2>4, AckedStep, MissedStep
  <2> QED
    BY <1>2, <2>1, <2>2, <2>3, <2>4 DEF Sender
<1>3. CASE Network
  BY <1>3, LoseStep DEF Network
<1>4. CASE App \/ UNCHANGED vars
  BY <1>4, StillStep DEF App, vars, txvars
<1>5. ASSUME NEW n \in wire, Deliver(n) PROVE TxInv'
  <2>1. \E ack \in BOOLEAN : Arrive(n, ack)
    BY <1>5 DEF Deliver, RxInitPacket, RxInitDelayed, RxDataPacket, RxAttachKnown, RxAttachUnknown
  <2> QED
    BY <2>1, ArriveStep
<1> QED
  BY <1>1, <1>2, <1>3, <1>4, <1>5 DEF Next

LEMMA TxInvAlways == Spec => []TxInv
<1>1. Init => TxInv
  BY TxInvInit
<1>2. TxInv /\ [Next]_vars => TxInv'
  BY TxInvStep
<1> QED
  BY <1>1, <1>2, PTL DEF Spec

-----------------------------------------------------------------------------
(* No segment is forgotten before its acknowledgment: as long as its       *)
(* position is in twait it is queued or in a packet that awaits a verdict, *)
(* through missed(), detachAll() and the sweep of the queue in transmit(). *)
THEOREM SegmentsRetained == Spec => []RetainedUntilAcked
<1>1. TxInv => RetainedUntilAcked
  BY DEF TxInv, Retains, RetainedUntilAcked, Pending
<1> QED
  BY <1>1, TxInvAlways, PTL

(* tflt and the parent's share are the bytes of the packets in flight: all *)
(* of them come back with a verdict, whatever header the segment has when  *)
(* it is sent again (endflight()).                                         *)
THEOREM FlightCharged == Spec => []FlightBytes
<1>1. TxInv => FlightBytes
  BY InFlightBytesIs DEF TxInv, Counts, FlightBytes
<1> QED
  BY <1>1, TxInvAlways, PTL


-----------------------------------------------------------------------------
(* Until the first primary flow is lost. *)
FirstFlow == nflows = 0 \/ (flow # 0 /\ nflows = 1)

(* Whoever waits has no flow, and without a flow nothing is attached. *)
SendInv ==
    /\ nflows \in Nat /\ flow \in {0, nflows}
    /\ FirstFlow => /\ flow = 0 => att = "none"
                    /\ waiting => flow = 0
                    /\ QueuedWillBeSent

LEMMA SendInit ==
    ASSUME Init
    PROVE  SendInv
  BY DEF Init, TxInit, SendInv, QueuedWillBeSent

(* txenqflow() with the queue q sees to it that q is sent. *)
LEMMA EnqFlowStep ==
    ASSUME SendInv, NEW q, tqueue' = q, TxEnqFlow(q), UNCHANGED <<flow, nflows>>
    PROVE  SendInv'
<1>1. CASE att # "none"
  <2>1. tqflow' = (tqflow \/ q # <<>>) /\ UNCHANGED <<att, waiting>>
    BY <1>1 DEF TxEnqFlow
  <2> QED
    BY <1>1, <2>1 DEF SendInv, FirstFlow, QueuedWillBeSent
<1>2. CASE att = "none" /\ flow = 0
  <2>1. waiting' = TRUE /\ UNCHANGED <<att, tqflow>>
    BY <1>2 DEF TxEnqFlow
  <2> QED
    BY <1>2, <2>1 DEF SendInv, FirstFlow, QueuedWillBeSent
<1>3. CASE att = "none" /\ flow # 0
  <2>1. att' = "attaching" /\ tqflow' = (q # <<>>) /\ UNCHANGED waiting
    BY <1>3 DEF TxEnqFlow
  <2> QED
    BY <1>3, <2>1 DEF SendInv, FirstFlow, QueuedWillBeSent
<1> QED
  BY <1>1, <1>2, <1>3

LEMMA SendTransmit ==
    ASSUME SendInv, Transmit
    PROVE  SendInv'
<1>1. UNCHANGED <<flow, nflows, att, waiting>>
  BY DEF Transmit, TransmitNothing, TransmitData, TransmitInit, TransmitAttach, TxFrame
<1>2. QueuedWillBeSent'
  <2>1. CASE TransmitNothing
    BY <2>1 DEF TransmitNothing, QueuedWillBeSent
  <2>2. CASE TransmitData
    BY <2>2 DEF TransmitData, QueuedWillBeSent
  <2>3. CASE TransmitInit
    BY <2>3 DEF TransmitInit, QueuedWillBeSent
  <2>4. CASE TransmitAttach
    <3>1. att' = "attaching"
      BY <1>1, <2>4 DEF TransmitAttach
    <3>2. inflight' # {}
      BY <2>4 DEF TransmitAttach, Put
    <3> QED
      BY <3>1, <3>2 DEF QueuedWillBeSent
  <2> QED
    BY <2>1, <2>2, <2>3, <2>4 DEF Transmit
<1> QED
  BY <1>1, <1>2 DEF SendInv, FirstFlow

LEMMA SendAcked ==
    ASSUME SendInv, NEW n \in inflight, Acked(n)
    PROVE  SendInv'
<1>1. UNCHANGED <<flow, nflows, waiting, tqueue>>
  BY DEF Acked
<1>2. CASE att = "attaching"
  <2>1. att' = "active" /\ tqflow' = (tqflow \/ tqueue # <<>>)
    BY <1>2 DEF Acked
  <2> QED
    BY <1>1, <1>2, <2>1 DEF SendInv, FirstFlow, QueuedWillBeSent
<1>3. CASE att # "attaching"
  <2>1. att' = att /\ tqflow' = tqflow
    BY <1>3 DEF Acked
  <2> QED
    BY <1>1, <1>3, <2>1 DEF SendInv, FirstFlow, QueuedWillBeSent
<1> QED
  BY <1>2, <1>3

LEMMA SendFlowStarted ==
    ASSUME SendInv, FlowStarted
    PROVE  SendInv'
<1>1. /\ flow = 0 /\ nflows' = nflows + 1 /\ flow' = nflows + 1 /\ waiting' = FALSE
      /\ UNCHANGED <<tqueue, inflight>>
  BY DEF FlowStarted
<1>2. nflows' \in Nat /\ flow' \in {0, nflows'} /\ (FirstFlow' => nflows = 0) /\ flow' # 0
  BY <1>1 DEF SendInv, FirstFlow
<1>3. ASSUME nflows = 0 PROVE QueuedWillBeSent'
  <2>0. FirstFlow
    BY <1>3, Zenon DEF FirstFlow
  <2>1. att = "none" /\ QueuedWillBeSent
    BY <1>1, <2>0, Zenon DEF SendInv
  <2>2. CASE waiting
    <3>1. tqflow' = (tqueue # <<>>)
      BY <2>1, <2>2 DEF FlowStarted
    <3> QED
      BY <1>1, <3>1 DEF QueuedWillBeSent
  <2>3. CASE ~waiting
    <3>1. tqflow' = tqflow /\ att' = att
      BY <2>3 DEF FlowStarted
    <3> QED
      BY <1>1, <2>1, <2>3, <3>1 DEF QueuedWillBeSent
  <2> QED
    BY <2>2, <2>3
<1> QED
  BY <1>1, <1>2, <1>3 DEF SendInv

(* Without the steps of the sender nothing changes here. *)
LEMMA SendStill ==
    ASSUME SendInv, UNCHANGED <<flow, nflows, att, waiting, tqueue, tqflow, inflight>>
    PROVE  SendInv'
  BY DEF SendInv, FirstFlow, QueuedWillBeSent

LEMMA SendStep ==
    ASSUME SendInv, [Next]_vars
    PROVE  SendInv'
<1>1. CASE AppWrite
  <2>1. PICK n, f : WriteData(n, f)
    BY <1>1 DEF AppWrite
  <2>2. TxEnqFlow(tqueue') /\ UNCHANGED <<flow, nflows>>
    BY <2>1 DEF WriteData
  <2> QED
    BY <2>2, EnqFlowStep
<1>2. CASE Sender
  <2>1. CASE Transmit
    BY <2>1, SendTransmit
  <2>2. CASE WindowUpdate
    BY <2>2 DEF WindowUpdate, SendInv, FirstFlow, QueuedWillBeSent
  <2>3. CASE FlowStarted
    BY <2>3, SendFlowStarted
  <2>4. CASE ClearPrimary
    <3>1. flow # 0 /\ flow' = 0 /\ nflows' = nflows
      BY <2>4 DEF ClearPrimary
    <3>2. ~FirstFlow'
      BY <3>1 DEF SendInv, FirstFlow
    <3> QED
      BY <3>1, <3>2 DEF SendInv
  <2>5. ASSUME NEW n \in inflight, Acked(n) PROVE SendInv'
    BY <2>5, SendAcked
  <2>6. ASSUME NEW n \in inflight, Missed(n) PROVE SendInv'
    <3>1. TxEnqFlow(tqueue') /\ UNCHANGED <<flow, nflows>>
      BY <2>6 DEF Missed
    <3> QED
      BY <3>1, EnqFlowStep
  <2> QED
    BY <1>2, <2>1, <2>2, <2>3, <2>4, <2>5, <2>6 DEF Sender
<1>3. CASE Network
  BY <1>3, SendStill DEF Network, Lose
<1>4. CASE App \/ UNCHANGED vars
  BY <1>4, SendStill DEF App, vars, txvars
<1>5. ASSUME NEW n \in wire, Deliver(n) PROVE SendInv'
  <2>1. \E ack \in BOOLEAN : Arrive(n, ack)
    BY <1>5 DEF Deliver, RxInitPacket, RxInitDelayed, RxDataPacket, RxAttachKnown, RxAttachUnknown
  <2> QED
    BY <2>1, SendStill DEF Arrive
<1> QED
  BY <1>1, <1>2, <1>3, <1>4, <1>5 DEF Next

(* As long as the first primary flow is there, a segment in the queue is   *)
(* sent: txenqflow(), transmit(), acked() and flowConnected() leave the    *)
(* stream on the flow's queue, waiting for a flow, or waiting for the      *)
(* verdict that attaches it.  (After clearPrimary() this is not so.)       *)
THEOREM QueueServed == Spec => [](FirstFlow => QueuedWillBeSent)
<1>1. Init => SendInv
  BY SendInit
<1>2. SendInv /\ [Next]_vars => SendInv'
  BY SendStep
<1>3. SendInv => (FirstFlow => QueuedWillBeSent)
  BY DEF SendInv
<1> QED
  BY <1>1, <1>2, <1>3, PTL DEF Spec
=============================================================================
