------------------------------ MODULE RegProofs ------------------------------
(***************************************************************************)
(* Theorems about Registration, for any clients, hosts, keywords and       *)
(* bounds.                                                                 *)
(*                                                                         *)
(* The server's operations are operators on its record, and so is the part *)
(* of the invariant that speaks of its tables; the clients' part follows a *)
(* challenge from the server's reply through a client into an Insert2.     *)
(***************************************************************************)
EXTENDS Registration, FiniteSetTheorems, TLAPS

Record == [id : Host, ni : Host \X Nat, ep : Nat, kw : SUBSET Keyword]

(* The members of a server. *)
Server(s) ==
    DOMAIN s = {"epoch", "chalhash", "idhash", "allrecords", "kwhash", "dying"}

(* idhash files each record under its host, allrecords holds the same ones, *)
(* and only a record that is there waits for its deletion.                  *)
Filed(s) ==
    /\ s.idhash \in [Host -> Record \cup {NoRec}]
    /\ \A h \in Host : s.idhash[h] # NoRec => s.idhash[h].id = h
    /\ s.allrecords = {s.idhash[h] : h \in Host} \ {NoRec}
    /\ IsFiniteSet(s.allrecords)
    /\ s.dying \subseteq {h \in Host : s.idhash[h] # NoRec}

(* kwhash has the records of a keyword that has some, and nothing else. *)
Indexed(s) ==
    /\ \A kw : kw \in DOMAIN s.kwhash <=> \E rec \in s.allrecords : kw \in rec.kw
    /\ \A kw : At(s.kwhash, kw) = {rec \in s.allrecords : kw \in rec.kw}

Tables(s) == Server(s) /\ Filed(s) /\ Indexed(s)

(* A challenge was received, with its nonce, where it was sent to. *)
Credible(P, chal) ==
    \/ chal = NoCookie
    \/ \E e, p, n : chal = Cookie(e, p, n) /\ <<n, p>> \in P

(* A client has no timer running while it is idle, and one while it waits  *)
(* for a server; it draws its nonces in turn.                              *)
ClientOK(P, c, r) ==
    /\ DOMAIN r = {"state", "scheme", "persist", "ep", "used", "ni", "hash", "addrs",
                   "chal", "lookups", "searches", "retry", "rereg", "resolving",
                   "resolves", "calls"}
    /\ r.state \in {"Idle", "Resolve", "Insert1", "Insert2", "Registered", "gone"}
    /\ r.ep \in Nat
    /\ r.used \in Nat /\ r.used <= MaxNonces[c]
    /\ r.hash \subseteq 1 .. r.used
    /\ r.ni # 0 => r.ni \in r.hash
    /\ r.retry = Off \/ (r.retry \in Nat /\ r.retry <= Tries)
    /\ r.state \in {"Insert1", "Insert2"} => r.retry # Off
    /\ r.state \in {"Idle", "gone"} => r.retry = Off /\ ~r.rereg /\ r.lookups = {}
    /\ Credible(P, r.chal)

(* Datagrams go to and from clients; a reply to Insert1 has the challenge  *)
(* for where it goes to.                                                   *)
MessageOK(P, m) ==
    /\ m.ni \in Client \X Nat
    /\ m.type \in {"Insert1", "Insert2"} => m.from \in Nat
    /\ m.type = "Insert1R" => m.to \in Nat /\ \E e : m.chal = Cookie(e, m.to, m.ni)
    /\ m.type = "Insert2" => Credible(P, m.chal)

ResultOK(P, c, o) ==
    ClientOK(P, c, o.cli) /\ \A m \in o.out : MessageOK(P, m)

(* Where a nonce was drawn and its challenge received. *)
Proofs ==
    proved \subseteq {x \in (Client \X Nat) \X Nat : x[1][2] \in 1 .. MaxNonces[x[1][1]]}

Inv ==
    /\ DOMAIN cli = Client
    /\ \A c \in Client : ClientOK(proved, c, cli[c])
    /\ \A m \in net : MessageOK(proved, m)
    /\ Proofs /\ Tables(srv) /\ EndpointProved

-----------------------------------------------------------------------------
(* Deleting a record takes it out of all tables. *)
LEMMA DeleteTables ==
    ASSUME NEW s, Tables(s), NEW h \in Host, s.idhash[h] # NoRec
    PROVE  LET t == DeleteRecord(s, s.idhash[h])
           IN  /\ Tables(t) /\ t.idhash[h] = NoRec
               /\ t.allrecords = s.allrecords \ {s.idhash[h]}
<1> DEFINE rec == s.idhash[h]
           t   == DeleteRecord(s, rec)
<1>1. rec \in Record /\ rec.id = h /\ rec \in s.allrecords
  BY DEF Tables, Filed
<1>2. /\ Server(t)
      /\ t.idhash = [s.idhash EXCEPT ![h] = NoRec]
      /\ t.allrecords = s.allrecords \ {rec}
      /\ t.kwhash = DropKeywords(s.kwhash, rec)
      /\ t.dying = s.dying \ {h}
  BY <1>1 DEF DeleteRecord, Tables, Server
<1> HIDE DEF t
<1>3. Filed(t)
  <2>0. s.idhash \in [Host -> Record \cup {NoRec}]
    BY DEF Tables, Filed
  <2>1. t.idhash \in [Host -> Record \cup {NoRec}]
    <3>1. PICK f \in [Host -> Record \cup {NoRec}] : f = s.idhash
      BY <2>0
    <3>2. [f EXCEPT ![h] = NoRec] \in [Host -> Record \cup {NoRec}]
      OBVIOUS
    <3> QED
      BY <1>2, <3>1, <3>2
  <2>2. \A g \in Host : t.idhash[g] = IF g = h THEN NoRec ELSE s.idhash[g]
    BY <1>2 DEF Tables, Filed
  <2>3. \A g \in Host : t.idhash[g] # NoRec => t.idhash[g].id = g
    BY <2>2 DEF Tables, Filed
  <2>4. t.allrecords = {t.idhash[g] : g \in Host} \ {NoRec}
    BY <1>1, <1>2, <2>2 DEF Tables, Filed
  <2>5. IsFiniteSet(t.allrecords)
    BY <1>2, FS_RemoveElement DEF Tables, Filed
  <2>6. t.dying \subseteq {g \in Host : t.idhash[g] # NoRec}
    BY <1>2, <2>2 DEF Tables, Filed
  <2> QED
    BY <2>1, <2>3, <2>4, <2>5, <2>6 DEF Filed
<1>4. Indexed(t)
  <2> DEFINE keep == {k \in DOMAIN s.kwhash :
                         k \notin rec.kw \/ s.kwhash[k] \ {rec} # {}}
  <2>1. /\ DOMAIN t.kwhash = keep
        /\ \A k \in keep : t.kwhash[k] = s.kwhash[k] \ {rec}
    BY <1>2 DEF DropKeywords, Restrict
  <2>2. \A k \in DOMAIN s.kwhash : s.kwhash[k] = {r \in s.allrecords : k \in r.kw}
    BY DEF Tables, Indexed, At
  <2>3. \A k : k \in DOMAIN s.kwhash <=> \E r \in s.allrecords : k \in r.kw
    BY DEF Tables, Indexed
  <2>4. \A k : k \in keep <=> \E r \in t.allrecords : k \in r.kw
    BY <1>2, <2>2, <2>3
  <2>5. \A k : At(t.kwhash, k) = {r \in t.allrecords : k \in r.kw}
    <3>1. ASSUME NEW k \in keep
          PROVE  At(t.kwhash, k) = {r \in t.allrecords : k \in r.kw}
      BY <1>2, <2>1, <2>2 DEF At
    <3>2. ASSUME NEW k, k \notin keep
          PROVE  At(t.kwhash, k) = {r \in t.allrecords : k \in r.kw}
      BY <2>1, <2>4, <3>2 DEF At
    <3> QED
      BY <3>1, <3>2
  <2> QED
    BY <2>1, <2>4, <2>5 DEF Indexed
<1> QED
  BY <1>1, <1>2, <1>3, <1>4 DEF Tables, Filed, t

(* Adding a record for a host that has none. *)
LEMMA AddTables ==
    ASSUME NEW s, Tables(s), NEW rec \in Record, s.idhash[rec.id] = NoRec
    PROVE  LET t == [s EXCEPT !.idhash[rec.id] = rec, !.allrecords = @ \cup {rec},
                              !.kwhash = AddKeywords(@, rec)]
           IN  Tables(t) /\ t.allrecords = s.allrecords \cup {rec}
<1> DEFINE t == [s EXCEPT !.idhash[rec.id] = rec, !.allrecords = @ \cup {rec},
                          !.kwhash = AddKeywords(@, rec)]
           h == rec.id
<1>1. rec # NoRec /\ h \in Host
  BY RegistrationAssumption DEF Record, Host
<1>2. /\ Server(t)
      /\ t.idhash = [s.idhash EXCEPT ![h] = rec]
      /\ t.allrecords = s.allrecords \cup {rec}
      /\ t.kwhash = AddKeywords(s.kwhash, rec)
      /\ t.dying = s.dying
  BY DEF Tables, Server
<1> HIDE DEF t
<1>3. Filed(t)
  <2>0. s.idhash \in [Host -> Record \cup {NoRec}]
    BY DEF Tables, Filed
  <2>1. t.idhash \in [Host -> Record \cup {NoRec}]
    <3>1. PICK f \in [Host -> Record \cup {NoRec}] : f = s.idhash
      BY <2>0
    <3>2. [f EXCEPT ![h] = rec] \in [Host -> Record \cup {NoRec}]
      OBVIOUS
    <3> QED
      BY <1>2, <3>1, <3>2
  <2>2. \A g \in Host : t.idhash[g] = IF g = h THEN rec ELSE s.idhash[g]
    BY <1>2 DEF Tables, Filed
  <2>3. \A g \in Host : t.idhash[g] # NoRec => t.idhash[g].id = g
    BY <2>2 DEF Tables, Filed
  <2>4. t.allrecords = {t.idhash[g] : g \in Host} \ {NoRec}
    BY <1>1, <1>2, <2>2 DEF Tables, Filed
  <2>5. IsFiniteSet(t.allrecords)
    BY <1>2, FS_AddElement DEF Tables, Filed
  <2>6. t.dying \subseteq {g \in Host : t.idhash[g] # NoRec}
    BY <1>1, <1>2, <2>2 DEF Tables, Filed
  <2> QED
    BY <2>1, <2>3, <2>4, <2>5, <2>6 DEF Filed
<1>4. Indexed(t)
  <2>1. /\ DOMAIN t.kwhash = DOMAIN s.kwhash \cup rec.kw
        /\ \A k \in DOMAIN s.kwhash \cup rec.kw :
               t.kwhash[k] = At(s.kwhash, k) \cup (IF k \in rec.kw THEN {rec} ELSE {})
    BY <1>2 DEF AddKeywords
  <2>2. \A k : At(s.kwhash, k) = {r \in s.allrecords : k \in r.kw}
    BY DEF Tables, Indexed
  <2>3. \A k : k \in DOMAIN s.kwhash <=> \E r \in s.allrecords : k \in r.kw
    BY DEF Tables, Indexed
  <2>4. \A k : k \in DOMAIN t.kwhash <=> \E r \in t.allrecords : k \in r.kw
    BY <1>2, <2>1, <2>3
  <2>5. ASSUME NEW k
        PROVE  At(t.kwhash, k) = {r \in t.allrecords : k \in r.kw}
    <3>1. CASE k \in DOMAIN t.kwhash
      BY <1>2, <2>1, <2>2, <3>1 DEF At
    <3>2. CASE k \notin DOMAIN t.kwhash
      BY <2>4, <3>2 DEF At
    <3> QED
      BY <3>1, <3>2
  <2> QED
    BY <2>4, <2>5 DEF Indexed
<1> QED
  BY <1>2, <1>3, <1>4 DEF Tables, t

(* A new record replaces the one its host had. *)
LEMMA NewTables ==
    ASSUME NEW s, Tables(s), NEW rec \in Record
    PROVE  /\ Tables(NewRecord(s, rec))
           /\ NewRecord(s, rec).allrecords \subseteq s.allrecords \cup {rec}
<1>1. rec.id \in Host
  BY DEF Record
<1>2. CASE s.idhash[rec.id] = NoRec
  BY <1>2, AddTables DEF NewRecord
<1>3. CASE s.idhash[rec.id] # NoRec
  <2> DEFINE t == DeleteRecord(s, s.idhash[rec.id])
  <2>1. /\ Tables(t) /\ t.idhash[rec.id] = NoRec
        /\ t.allrecords \subseteq s.allrecords
    BY <1>1, <1>3, DeleteTables
  <2> DEFINE u == [t EXCEPT !.idhash[rec.id] = rec, !.allrecords = @ \cup {rec},
                            !.kwhash = AddKeywords(@, rec)]
  <2>2. NewRecord(s, rec) = u
    BY <1>3 DEF NewRecord
  <2> HIDE DEF t
  <2>3. Tables(u) /\ u.allrecords = t.allrecords \cup {rec}
    BY <2>1, AddTables
  <2> HIDE DEF u
  <2> QED
    BY <2>1, <2>2, <2>3
<1> QED
  BY <1>2, <1>3

-----------------------------------------------------------------------------
(* Searches. *)
LEMMA Least ==
    ASSUME NEW S \in SUBSET Nat, S # {}
    PROVE  \E c \in S : \A d \in S : c <= d
<1>1. PICK c \in S : \A d \in S : ~(<<d, c>> \in OpToRel(<, Nat))
  BY NatLessThanWellFounded, WFMin
<1>2. \A d \in S : ~(d < c)
  BY <1>1 DEF OpToRel
<1> QED
  BY <1>2

(* The records of a keyword can be counted. *)
LEMMA AtFinite ==
    ASSUME NEW s, Tables(s), NEW kw
    PROVE  IsFiniteSet(At(s.kwhash, kw)) /\ Cardinality(At(s.kwhash, kw)) \in Nat
<1>1. At(s.kwhash, kw) \in SUBSET s.allrecords /\ IsFiniteSet(s.allrecords)
  BY DEF Tables, Indexed, Filed
<1> QED
  BY <1>1, FS_Subset, FS_CardinalityType

(* Some keyword has the fewest records. *)
LEMMA RarestLeast ==
    ASSUME NEW s, Tables(s), NEW text, text # {}
    PROVE  /\ Rarest(s, text) \in text
           /\ \A o \in text : Cardinality(At(s.kwhash, Rarest(s, text)))
                                <= Cardinality(At(s.kwhash, o))
<1> DEFINE N(kw) == Cardinality(At(s.kwhash, kw))
<1>1. \A kw \in text : N(kw) \in Nat
  BY AtFinite
<1> HIDE DEF N
<1>2. PICK n \in {N(kw) : kw \in text} : \A m \in {N(kw) : kw \in text} : n <= m
  BY <1>1, Least
<1>3. \E kw \in text : \A o \in text : N(kw) <= N(o)
  BY <1>2
<1> QED
  BY <1>3 DEF Rarest, N

(* doSearch() narrows down to the records that have all the keywords. *)
LEMMA ResultsExact ==
    ASSUME NEW s, Tables(s), NEW text
    PROVE  Results(s, text) = {rec \in s.allrecords : text \subseteq rec.kw}
<1>1. CASE text = {}
  BY <1>1 DEF Results
<1>2. CASE text # {}
  <2>1. Rarest(s, text) \in text
    BY <1>2, RarestLeast
  <2>2. \A kw : At(s.kwhash, kw) = {rec \in s.allrecords : kw \in rec.kw}
    BY DEF Tables, Indexed
  <2> QED
    BY <1>2, <2>1, <2>2 DEF Results, Narrowed
<1> QED
  BY <1>1, <1>2

(* Narrowing looks no keyword up that has no entry. *)
LEMMA TouchedTables ==
    ASSUME NEW s, Tables(s), NEW text
    PROVE  LET t == [s EXCEPT !.kwhash = Touched(s, text)]
           IN  Tables(t) /\ t.allrecords = s.allrecords
<1> DEFINE t == [s EXCEPT !.kwhash = Touched(s, text)]
<1>1. /\ Server(t) /\ t.idhash = s.idhash /\ t.allrecords = s.allrecords
      /\ t.dying = s.dying /\ t.kwhash = Touched(s, text)
  BY DEF Tables, Server
<1> HIDE DEF t
<1>2. ASSUME text = {} \/ At(s.kwhash, Rarest(s, text)) = {}
      PROVE  Tables(t)
  <2>1. t.kwhash = s.kwhash
    BY <1>1, <1>2 DEF Touched
  <2> QED
    BY <1>1, <2>1 DEF Tables, Filed, Indexed
<1>3. ASSUME text # {} /\ At(s.kwhash, Rarest(s, text)) # {}
      PROVE  Tables(t)
  <2>1. t.kwhash = [k \in DOMAIN s.kwhash \cup text |-> At(s.kwhash, k)]
    BY <1>1, <1>3 DEF Touched
  <2>2. ASSUME NEW kw \in text
        PROVE  kw \in DOMAIN s.kwhash
    <3>1. /\ Cardinality(At(s.kwhash, Rarest(s, text))) # 0
          /\ Cardinality(At(s.kwhash, Rarest(s, text))) \in Nat
      BY <1>3, AtFinite, FS_EmptySet
    <3>2. Cardinality(At(s.kwhash, kw)) # 0
      BY <1>3, <3>1, RarestLeast, AtFinite
    <3>3. At(s.kwhash, kw) # {}
      BY <3>2, FS_EmptySet
    <3> QED
      BY <3>3 DEF At
  <2>3. DOMAIN t.kwhash = DOMAIN s.kwhash
    BY <2>1, <2>2
  <2>4. \A kw : At(t.kwhash, kw) = At(s.kwhash, kw)
    BY <2>1, <2>3 DEF At
  <2> QED
    BY <1>1, <2>3, <2>4 DEF Tables, Filed, Indexed
<1> QED
  BY <1>1, <1>2, <1>3 DEF t

(* No two records name the same host. *)
LEMMA IdsCount ==
    ASSUME NEW s, Tables(s), NEW some \in SUBSET s.allrecords
    PROVE  Cardinality({rec.id : rec \in some}) = Cardinality(some)
<1> DEFINE ids == {rec.id : rec \in some}
           f   == [rec \in some |-> rec.id]
<1>1. \A r, q \in some : r.id = q.id => r = q
  BY DEF Tables, Filed
<1>2. IsFiniteSet(some)
  BY FS_Subset DEF Tables, Filed
<1>3. f \in Bijection(some, ids)
  <2>1. f \in [some -> ids]
    OBVIOUS
  <2>2. IsInjective(f)
    BY <1>1 DEF IsInjective
  <2>3. \A t \in ids : \E r \in some : f[r] = t
    OBVIOUS
  <2> QED
    BY <2>1, <2>2, <2>3 DEF Bijection, Injection, Surjection
<1> QED
  BY <1>2, <1>3, FS_Bijection DEF ExistsBijection

(* What doSearch() answers. *)
LEMMA AnswersExact ==
    ASSUME Tables(srv)
    PROVE  SearchExact
<1> SUFFICES ASSUME NEW text \in SUBSET Keyword, NEW a \in Answers(srv, text)
             PROVE  LET want == {rec.id : rec \in
                                    {r \in srv.allrecords : text \subseteq r.kw}}
                    IN  IF a.complete THEN a.ids = want
                        ELSE a.ids \subseteq want /\ Cardinality(a.ids) = MaxResults
  BY DEF SearchExact
<1> DEFINE all == Results(srv, text)
           n   == IF Cardinality(all) > MaxResults THEN MaxResults ELSE Cardinality(all)
<1>1. all = {r \in srv.allrecords : text \subseteq r.kw}
  BY ResultsExact
<1>2. IsFiniteSet(all) /\ Cardinality(all) \in Nat
  BY <1>1, FS_Subset, FS_CardinalityType DEF Tables, Filed
<1>3. PICK some \in SUBSET all :
          /\ Cardinality(some) = n
          /\ a = [complete |-> Cardinality(all) <= MaxResults,
                  ids |-> {rec.id : rec \in some}]
  BY DEF Answers, kSubset
<1> HIDE DEF all
<1>4. CASE Cardinality(all) <= MaxResults
  <2>1. a.complete /\ a.ids = {rec.id : rec \in some}
    BY <1>3, <1>4
  <2>2. Cardinality(some) = Cardinality(all)
    BY <1>2, <1>3, <1>4, RegistrationAssumption
  <2>3. some = all
    BY <1>2, <2>2, FS_Subset
  <2> QED
    BY <1>1, <2>1, <2>3
<1>5. CASE ~(Cardinality(all) <= MaxResults)
  <2>1. ~a.complete /\ a.ids = {rec.id : rec \in some}
    BY <1>3, <1>5
  <2>2. Cardinality(some) = MaxResults
    BY <1>2, <1>3, <1>5, RegistrationAssumption
  <2>3. Cardinality(a.ids) = MaxResults
    BY <1>1, <2>1, <2>2, IdsCount
  <2> QED
    BY <1>1, <2>1, <2>3
<1> QED
  BY <1>4, <1>5

(* The tables as the runs state it. *)
LEMMA TablesAgreeIf ==
    ASSUME Tables(srv)
    PROVE  TablesAgree
<1>1. srv.allrecords = {srv.idhash[h] : h \in Host} \ {NoRec}
  BY DEF Tables, Filed
<1>2. DOMAIN srv.kwhash = UNION {rec.kw : rec \in srv.allrecords}
  BY DEF Tables, Indexed
<1>3. \A kw \in DOMAIN srv.kwhash :
          srv.kwhash[kw] = {rec \in srv.allrecords : kw \in rec.kw}
  BY DEF Tables, Indexed, At
<1> QED
  BY <1>1, <1>2, <1>3 DEF TablesAgree

-----------------------------------------------------------------------------
(* The clients' operations. *)
LEMMA OwnOK ==
    ASSUME NEW P, NEW c \in Client, NEW r, ClientOK(P, c, r)
    PROVE  Own(c, r) \in Client \X Nat
<1>1. r.ni \in Nat
  BY DEF ClientOK
<1> QED
  BY <1>1 DEF Own

(* More proofs do no harm. *)
LEMMA MoreProofs ==
    ASSUME NEW P, NEW Q, P \subseteq Q
    PROVE  /\ \A c, r : ClientOK(P, c, r) => ClientOK(Q, c, r)
           /\ \A m : MessageOK(P, m) => MessageOK(Q, m)
<1>1. \A chal : Credible(P, chal) => Credible(Q, chal)
  BY DEF Credible
<1> QED
  BY <1>1 DEF ClientOK, MessageOK

LEMMA DisconnectOK ==
    ASSUME NEW P, NEW c \in Client, NEW r, ClientOK(P, c, r)
    PROVE  /\ ClientOK(P, c, Disconnect(r))
           /\ Disconnect(r).state = "Idle" \/ r.state = "Idle"
           /\ r.state # "gone" => Disconnect(r).state = "Idle"
<1>1. Credible(P, NoCookie)
  BY DEF Credible
<1> QED
  BY <1>1 DEF ClientOK, Disconnect

(* A nonce of its own, drawn now if there was none. *)
LEMMA GoInsert1OK ==
    ASSUME NEW P, NEW c \in Client, NEW r, ClientOK(P, c, r), CanInsert1(c, r)
    PROVE  ResultOK(P, c, GoInsert1(c, r))
<1> DEFINE q == IF r.ni # 0 THEN r
                ELSE [r EXCEPT !.used = @ + 1, !.ni = r.used + 1,
                               !.hash = @ \cup {r.used + 1}]
           s == Start([q EXCEPT !.state = "Insert1"])
<1>1. ClientOK(P, c, q)
  <2>1. CASE r.ni # 0
    BY <2>1
  <2>2. CASE r.ni = 0
    <3>1. r.used < MaxNonces[c] /\ MaxNonces[c] \in Nat /\ r.used \in Nat
      BY <2>2, RegistrationAssumption DEF CanInsert1, ClientOK
    <3>2. q = [r EXCEPT !.used = @ + 1, !.ni = r.used + 1, !.hash = @ \cup {r.used + 1}]
      BY <2>2
    <3>3. /\ q.used = r.used + 1 /\ q.ni = r.used + 1
          /\ q.hash = r.hash \cup {r.used + 1}
          /\ DOMAIN q = DOMAIN r /\ q.state = r.state /\ q.ep = r.ep
          /\ q.retry = r.retry /\ q.rereg = r.rereg /\ q.lookups = r.lookups
          /\ q.chal = r.chal
      BY <3>2 DEF ClientOK
    <3> HIDE DEF q
    <3>4. q.used \in Nat /\ q.used <= MaxNonces[c] /\ q.hash \subseteq 1 .. q.used
      BY <3>1, <3>3 DEF ClientOK
    <3> QED
      BY <3>3, <3>4 DEF ClientOK
  <2> QED
    BY <2>1, <2>2
<1> HIDE DEF q
<1>2. ClientOK(P, c, s) /\ s.ep \in Nat
  BY <1>1, RegistrationAssumption DEF Start, ClientOK, Off
<1> HIDE DEF s
<1>3. MessageOK(P, Insert1(c, s))
  BY <1>2, OwnOK DEF MessageOK, Insert1, ClientOK
<1> QED
  BY <1>2, <1>3 DEF GoInsert1, ResultOK, Out, q, s

LEMMA GoInsert2OK ==
    ASSUME NEW P, NEW c \in Client, NEW r, ClientOK(P, c, r)
    PROVE  ResultOK(P, c, GoInsert2(c, r))
<1> DEFINE s == Start([r EXCEPT !.state = "Insert2"])
<1>1. ClientOK(P, c, s)
  BY RegistrationAssumption DEF Start, ClientOK, Off
<1> HIDE DEF s
<1>2. MessageOK(P, Insert2(c, s))
  BY <1>1, OwnOK DEF MessageOK, Insert2, ClientOK
<1> QED
  BY <1>1, <1>2 DEF GoInsert2, ResultOK, Out, s

LEMMA ReregisterOK ==
    ASSUME NEW P, NEW c \in Client, NEW r, ClientOK(P, c, r), CanReregister(c, r)
    PROVE  ResultOK(P, c, Reregister(c, r))
<1> DEFINE q == [r EXCEPT !.hash = @ \ {r.ni}, !.ni = 0]
           n == [q EXCEPT !.state = "Resolve", !.resolving = @ + 1, !.resolves = @ + 1]
           a == [q EXCEPT !.addrs = TRUE]
<1>1. ClientOK(P, c, q) /\ q.used = r.used /\ q.ni = 0
  BY DEF ClientOK
<1>2. CASE c \in Named
  <2>1. ClientOK(P, c, n)
    BY <1>1 DEF ClientOK
  <2> QED
    BY <1>2, <2>1 DEF Reregister, ResultOK, Out
<1>3. CASE c \notin Named
  <2>1. r.used < MaxNonces[c]
    BY <1>3 DEF CanReregister, CanInsert1, ClientOK
  <2>2. ClientOK(P, c, a) /\ CanInsert1(c, a)
    BY <1>1, <2>1 DEF ClientOK, CanInsert1
  <2> QED
    BY <1>3, <2>2, GoInsert1OK DEF Reregister
<1> QED
  BY <1>2, <1>3

(* What is asked again. *)
LEMMA RequestsOK ==
    ASSUME NEW P, NEW c \in Client, NEW r, ClientOK(P, c, r)
    PROVE  \A m \in LookupMsgs(c, r) \cup SearchMsgs(c, r) : MessageOK(P, m)
  BY OwnOK DEF LookupMsgs, SearchMsgs, MessageOK

-----------------------------------------------------------------------------
(* A step of a client on its own. *)
LEMMA ClientStep ==
    ASSUME Inv, NEW c \in Client, NEW o, ResultOK(proved, c, o), Step(c, o),
           UNCHANGED <<srv, proved>>
    PROVE  Inv'
<1> USE DEF Inv
<1>1. cli' = [cli EXCEPT ![c] = o.cli] /\ net' \subseteq net \cup o.out
  BY DEF Step, Carries, kSubset
<1>2. DOMAIN cli' = Client /\ \A d \in Client : ClientOK(proved, d, cli'[d])
  BY <1>1 DEF ResultOK
<1>3. \A m \in net' : MessageOK(proved, m)
  BY <1>1 DEF ResultOK
<1>4. Proofs' /\ Tables(srv)' /\ EndpointProved'
  BY DEF Proofs, EndpointProved
<1> QED
  BY <1>2, <1>3, <1>4

LEMMA CalledOK ==
    ASSUME Inv, NEW c \in Client
    PROVE  /\ ClientOK(proved, c, Called(c)) /\ Called(c).state = cli[c].state
           /\ CanReregister(c, cli[c]) => CanReregister(c, Called(c))
  BY DEF Inv, ClientOK, Called, CanReregister, CanInsert1

LEMMA RegisterAtInv ==
    ASSUME Inv, NEW c \in Client, RegisterAt(c)
    PROVE  Inv'
<1>1. ResultOK(proved, c, Reregister(c, Called(c)))
  BY CalledOK, ReregisterOK DEF RegisterAt
<1> QED
  BY <1>1, ClientStep DEF RegisterAt

LEMMA ResolveDoneInv ==
    ASSUME Inv, NEW c \in Client, ResolveDone(c)
    PROVE  Inv'
<1> DEFINE r == [cli[c] EXCEPT !.resolving = @ - 1]
           f == [r EXCEPT !.addrs = FALSE]
           t == [r EXCEPT !.addrs = TRUE]
<1>1. ClientOK(proved, c, cli[c])
  BY DEF Inv
<1>2. /\ ClientOK(proved, c, f) /\ ClientOK(proved, c, t)
      /\ CanInsert1(c, r) => CanInsert1(c, t)
  BY <1>1 DEF ClientOK, CanInsert1
<1>3. ResultOK(proved, c, Out(Disconnect(f), {}))
  BY <1>2, DisconnectOK DEF ResultOK, Out
<1>4. CanInsert1(c, r) => ResultOK(proved, c, GoInsert1(c, t))
  BY <1>2, GoInsert1OK
<1> QED
  BY <1>3, <1>4, ClientStep DEF ResolveDone

LEMMA LookupInv ==
    ASSUME Inv, NEW c \in Client, NEW l, Lookup(c, l)
    PROVE  Inv'
<1> DEFINE r == Start([Called(c) EXCEPT !.lookups = @ \cup {l}])
<1>1. ClientOK(proved, c, r)
  BY CalledOK, RegistrationAssumption DEF ClientOK, Lookup, Start, Off
<1> HIDE DEF r
<1>2. ResultOK(proved, c, Out(r, {m \in LookupMsgs(c, r) : m.id = l[1]}))
  BY <1>1, RequestsOK DEF ResultOK, Out
<1> QED
  BY <1>2, ClientStep DEF Lookup, r

LEMMA SearchInv ==
    ASSUME Inv, NEW c \in Client, NEW text, Search(c, text)
    PROVE  Inv'
<1> DEFINE r == Start([Called(c) EXCEPT !.searches = @ \cup {text}])
<1>1. ClientOK(proved, c, r)
  BY CalledOK, RegistrationAssumption DEF ClientOK, Search, Start, Off
<1> HIDE DEF r
<1>2. ResultOK(proved, c, Out(r, {m \in SearchMsgs(c, r) : m.text = text}))
  BY <1>1, RequestsOK DEF ResultOK, Out
<1> QED
  BY <1>2, ClientStep DEF Search, r

LEMMA RetryTimeoutInv ==
    ASSUME Inv, NEW c \in Client, RetryTimeout(c)
    PROVE  Inv'
<1> DEFINE left == IF cli[c].retry > 0 THEN cli[c].retry - 1 ELSE 0
           r    == [cli[c] EXCEPT !.retry = Off]
           w    == [r EXCEPT !.retry = left]
           fail == Disconnect(r)
<1>1. ClientOK(proved, c, cli[c]) /\ cli[c].retry # Off
  BY DEF Inv, RetryTimeout
<1>2. /\ left \in Nat /\ left <= Tries /\ left # Off
      /\ cli[c].state \notin {"Idle", "gone"}
  BY <1>1, RegistrationAssumption DEF ClientOK, Off
<1> HIDE DEF left
<1>3. ClientOK(proved, c, w)
  BY <1>1, <1>2 DEF ClientOK
<1>4. /\ r.state = cli[c].state
      /\ r.state \notin {"Insert1", "Insert2"} => ClientOK(proved, c, r)
  BY <1>1 DEF ClientOK
<1>5. ClientOK(proved, c, fail)
  <2>1. Credible(proved, NoCookie)
    BY DEF Credible
  <2> QED
    BY <1>1, <1>2, <2>1 DEF ClientOK, Disconnect
<1>6. /\ Insert1(c, r) = Insert1(c, w) /\ Insert2(c, r) = Insert2(c, w)
      /\ LookupMsgs(c, r) = LookupMsgs(c, w) /\ SearchMsgs(c, r) = SearchMsgs(c, w)
  BY <1>1 DEF ClientOK, Insert1, Insert2, LookupMsgs, SearchMsgs, Own
<1>7. MessageOK(proved, Insert1(c, w)) /\ MessageOK(proved, Insert2(c, w))
  BY <1>3, OwnOK DEF MessageOK, Insert1, Insert2, ClientOK
<1>8. ResultOK(proved, c, Out(fail, {}))
  BY <1>5 DEF ResultOK, Out
<1>9. ASSUME NEW ms, \A m \in ms : MessageOK(proved, m)
      PROVE  ResultOK(proved, c, Out(w, ms))
  BY <1>3, <1>9 DEF ResultOK, Out
<1>10. /\ ResultOK(proved, c, Out(w, {Insert1(c, r)}))
       /\ ResultOK(proved, c, Out(w, {Insert2(c, r)}))
       /\ ResultOK(proved, c, Out(w, LookupMsgs(c, r) \cup SearchMsgs(c, r)))
  BY <1>3, <1>6, <1>7, <1>9, RequestsOK
<1>11. CanReregister(c, fail) => ResultOK(proved, c, Reregister(c, fail))
  BY <1>5, ReregisterOK
<1>12. r.state \notin {"Insert1", "Insert2"} => ResultOK(proved, c, Out(r, {}))
  BY <1>4 DEF ResultOK, Out
<1> DEFINE o == CASE r.state \in {"Insert1", "Insert2"} /\ left = 0 /\ ~r.persist
                       -> Out(fail, {})
                  [] r.state = "Insert1" /\ (left > 0 \/ r.persist)
                       -> Out(w, {Insert1(c, r)})
                  [] r.state = "Insert2" /\ (left > 0 \/ r.persist)
                       -> Out(w, {Insert2(c, r)})
                  [] r.state = "Registered" /\ Outstanding(r) /\ left = 0
                       -> IF r.persist /\ CanReregister(c, fail)
                            THEN Reregister(c, fail) ELSE Out(fail, {})
                  [] r.state = "Registered" /\ Outstanding(r) /\ left > 0
                       -> Out(w, LookupMsgs(c, r) \cup SearchMsgs(c, r))
                  [] OTHER -> Out(r, {})
<1>13. Step(c, o) /\ UNCHANGED <<srv, proved>>
  BY DEF RetryTimeout, left
<1>14. left = 0 \/ left > 0
  BY <1>2
<1> HIDE DEF r, w, fail
<1>15. ResultOK(proved, c, o)
  BY <1>8, <1>10, <1>11, <1>12, <1>14
<1> HIDE DEF o
<1> QED
  BY <1>13, <1>15, ClientStep

LEMMA ReregTimeoutInv ==
    ASSUME Inv, NEW c \in Client, ReregTimeout(c)
    PROVE  Inv'
<1> DEFINE r == [cli[c] EXCEPT !.rereg = FALSE]
<1>1. ClientOK(proved, c, r)
  BY DEF Inv, ClientOK
<1>2. ResultOK(proved, c, Reregister(c, r))
  BY <1>1, ReregisterOK DEF ReregTimeout
<1> QED
  BY <1>2, ClientStep DEF ReregTimeout

LEMMA UserDisconnectInv ==
    ASSUME Inv, NEW c \in Client, UserDisconnect(c)
    PROVE  Inv'
<1>1. ResultOK(proved, c, Out(Disconnect(Called(c)), {}))
  BY CalledOK, DisconnectOK DEF ResultOK, Out
<1> QED
  BY <1>1, ClientStep DEF UserDisconnect

LEMMA DestroyInv ==
    ASSUME Inv, NEW c \in Client, Destroy(c)
    PROVE  Inv'
<1> DEFINE q == Disconnect(Called(c))
<1>1. ClientOK(proved, c, q) /\ q.state = "Idle"
  BY CalledOK, DisconnectOK DEF Destroy
<1> HIDE DEF q
<1>2. ClientOK(proved, c, [q EXCEPT !.state = "gone"])
  BY <1>1 DEF ClientOK
<1>3. ResultOK(proved, c, Out([q EXCEPT !.state = "gone"], {}))
  BY <1>2 DEF ResultOK, Out
<1> QED
  BY <1>3, ClientStep DEF Destroy, q

LEMMA MoveInv ==
    ASSUME Inv, NEW c \in Client, Move(c)
    PROVE  Inv'
<1> USE DEF Inv
<1>1. ClientOK(proved, c, [cli[c] EXCEPT !.ep = @ + 1])
  BY DEF ClientOK
<1>2. cli' = [cli EXCEPT ![c] = [cli[c] EXCEPT !.ep = @ + 1]]
  BY DEF Move
<1>3. DOMAIN cli' = Client /\ \A d \in Client : ClientOK(proved, d, cli'[d])
  BY <1>1, <1>2
<1> QED
  BY <1>3 DEF Move, Proofs, EndpointProved

-----------------------------------------------------------------------------
(* Datagrams that arrive. *)
LEMMA ExchangeNet ==
    ASSUME NEW m \in net, NEW out, Exchange(m, out)
    PROVE  net' \subseteq net \cup out
  BY DEF Exchange, Carries, kSubset

LEMMA GotInsert1ReplyInv ==
    ASSUME Inv, NEW m \in net, GotInsert1Reply(m)
    PROVE  Inv'
<1> DEFINE c == m.ni[1]
           r == [cli[c] EXCEPT !.chal = m.chal]
           o == GoInsert2(c, r)
           pr == <<m.ni, m.to>>
<1> USE DEF Inv
<1>1. /\ m.ni \in Client \X Nat /\ c \in Client /\ m.to \in Nat
      /\ \E e : m.chal = Cookie(e, m.to, m.ni)
      /\ m.ni[2] \in cli[c].hash
  BY DEF GotInsert1Reply, Receives, MessageOK
<1>2. proved' = proved \cup {pr}
  BY DEF GotInsert1Reply
<1>3. m.ni[2] \in 1 .. MaxNonces[c]
  BY <1>1, RegistrationAssumption DEF ClientOK
<1>4. Proofs'
  BY <1>1, <1>2, <1>3 DEF Proofs
<1>5. /\ \A d, q : ClientOK(proved, d, q) => ClientOK(proved', d, q)
      /\ \A x : MessageOK(proved, x) => MessageOK(proved', x)
  BY <1>2, MoreProofs
<1>6. Credible(proved', m.chal)
  BY <1>1, <1>2 DEF Credible
<1>7. ClientOK(proved', c, r)
  BY <1>1, <1>5, <1>6 DEF ClientOK
<1>8. ResultOK(proved', c, o)
  BY <1>1, <1>7, GoInsert2OK
<1>9. cli' = [cli EXCEPT ![c] = o.cli] /\ net' \subseteq net \cup o.out
  BY ExchangeNet DEF GotInsert1Reply
<1> HIDE DEF o
<1>10. /\ DOMAIN cli' = Client
       /\ \A d \in Client : ClientOK(proved', d, cli'[d])
       /\ \A x \in net' : MessageOK(proved', x)
  BY <1>1, <1>5, <1>8, <1>9 DEF ResultOK
<1>11. Tables(srv)' /\ EndpointProved'
  BY <1>2 DEF GotInsert1Reply, EndpointProved
<1> QED
  BY <1>4, <1>10, <1>11

(* The other replies change their client only. *)
LEMMA OtherReplies ==
    ASSUME Inv, NEW m \in net,
           GotInsert2Reply(m) \/ GotLookupReply(m) \/ GotSearchReply(m)
    PROVE  Inv'
<1> DEFINE c == m.ni[1]
<1> USE DEF Inv
<1>1. c \in Client /\ ClientOK(proved, c, cli[c]) /\ cli[c].state # "gone"
  BY DEF GotInsert2Reply, GotLookupReply, GotSearchReply, Receives, MessageOK
<1>2. \E q : cli' = [cli EXCEPT ![c] = q] /\ ClientOK(proved, c, q)
  <2>1. CASE GotInsert2Reply(m)
    <3> DEFINE q == [cli[c] EXCEPT !.state = "Registered", !.rereg = TRUE]
    <3>1. cli' = [cli EXCEPT ![c] = q]
      BY <1>1, <2>1 DEF GotInsert2Reply, ClientOK
    <3>2. ClientOK(proved, c, q)
      BY <1>1 DEF ClientOK
    <3> QED
      BY <3>1, <3>2
  <2>2. CASE GotLookupReply(m)
    <3> DEFINE q == [cli[c] EXCEPT !.lookups = {l \in @ : l[1] # m.id}]
    <3>1. cli' = [cli EXCEPT ![c] = q]
      BY <1>1, <2>2 DEF GotLookupReply
    <3>2. ClientOK(proved, c, q)
      BY <1>1 DEF ClientOK
    <3> QED
      BY <3>1, <3>2
  <2>3. CASE GotSearchReply(m)
    <3> DEFINE q == [cli[c] EXCEPT !.searches = @ \ {m.text}]
    <3>1. cli' = [cli EXCEPT ![c] = q]
      BY <1>1, <2>3 DEF GotSearchReply
    <3>2. ClientOK(proved, c, q)
      BY <1>1 DEF ClientOK
    <3> QED
      BY <3>1, <3>2
  <2> QED
    BY <2>1, <2>2, <2>3
<1>3. net' \subseteq net \cup {} /\ UNCHANGED <<srv, proved>>
  BY ExchangeNet DEF GotInsert2Reply, GotLookupReply, GotSearchReply
<1> QED
  BY <1>1, <1>2, <1>3 DEF Proofs, EndpointProved

-----------------------------------------------------------------------------
(* The server's handlers. *)
LEMMA ServerStep ==
    ASSUME Inv, UNCHANGED <<cli, proved>>, Tables(srv'),
           \A m \in net' : m \in net \/ MessageOK(proved, m),
           \A rec \in srv'.allrecords :
               \/ rec \in srv.allrecords
               \/ rec.id \in Client => <<rec.ni, rec.ep>> \in proved
    PROVE  Inv'
<1> USE DEF Inv
<1>1. Tables(srv)'
  OBVIOUS
<1> QED
  BY <1>1 DEF Proofs, EndpointProved

LEMMA ChallengeOK ==
    ASSUME Inv, NEW m \in net, m.type \in {"Insert1", "Insert2"}
    PROVE  MessageOK(proved, Challenge(m))
  BY DEF Inv, MessageOK, Challenge

LEMMA InsertedRecord ==
    ASSUME Inv, NEW m \in net, m.type = "Insert2", CookieValid(m)
    PROVE  LET rec == [id |-> m.ni[1], ni |-> m.ni, ep |-> m.from,
                       kw |-> Info[m.ni[1]][m.ni[2]]]
           IN  rec \in Record /\ <<rec.ni, rec.ep>> \in proved
<1> USE DEF Inv
<1>1. m.ni \in Client \X Nat /\ m.from \in Nat /\ Credible(proved, m.chal)
  BY DEF MessageOK
<1>2. m.chal = <<srv.epoch, m.from, m.ni>>
  BY DEF CookieValid, Cookie
<1>3. m.chal # NoCookie
  BY <1>2 DEF NoCookie
<1>4. PICK e, p, n : m.chal = <<e, p, n>> /\ <<n, p>> \in proved
  BY <1>1, <1>3 DEF Credible, Cookie
<1>5. <<m.ni, m.from>> \in proved
  BY <1>2, <1>4
<1>6. m.ni[1] \in Client /\ m.ni[2] \in 1 .. MaxNonces[m.ni[1]]
  BY <1>1, <1>5 DEF Proofs
<1>7. Info[m.ni[1]][m.ni[2]] \in SUBSET Keyword
  BY <1>6, RegistrationAssumption
<1> QED
  BY <1>1, <1>5, <1>6, <1>7 DEF Record, Host

(* What leaves the tables alone, but for records that are about to go. *)
LEMMA SameTables ==
    ASSUME NEW s, Tables(s), NEW t, DOMAIN t = DOMAIN s, t.idhash = s.idhash,
           t.allrecords = s.allrecords, t.kwhash = s.kwhash,
           t.dying \subseteq {h \in Host : s.idhash[h] # NoRec}
    PROVE  Tables(t)
<1>1. Server(t)
  BY DEF Tables, Server
<1>2. Filed(t)
  BY DEF Tables, Filed
<1>3. Indexed(t)
  BY DEF Tables, Indexed
<1> QED
  BY <1>1, <1>2, <1>3 DEF Tables

LEMMA ServerInserts ==
    ASSUME Inv, NEW m \in net,
           DoInsert1(m) \/ DoInsert2BadCookie(m) \/ DoInsert2BadClient(m) \/ DoInsert2(m)
    PROVE  Inv'
<1> USE DEF Inv
<1>1. CASE DoInsert1(m) \/ DoInsert2BadCookie(m)
  <2>1. net' \subseteq net \cup {Challenge(m)} /\ UNCHANGED <<cli, srv, proved>>
    BY <1>1, ExchangeNet DEF DoInsert1, DoInsert2BadCookie
  <2>2. MessageOK(proved, Challenge(m))
    BY <1>1, ChallengeOK DEF DoInsert1, DoInsert2BadCookie
  <2> QED
    BY <2>1, <2>2, ServerStep
<1>2. CASE DoInsert2BadClient(m)
  <2>1. net' \subseteq net \cup {} /\ UNCHANGED <<cli, proved>>
    BY <1>2, ExchangeNet DEF DoInsert2BadClient
  <2>2. /\ DOMAIN srv' = DOMAIN srv /\ srv'.idhash = srv.idhash
        /\ srv'.allrecords = srv.allrecords /\ srv'.kwhash = srv.kwhash
        /\ srv'.dying = srv.dying
    BY <1>2 DEF DoInsert2BadClient, Tables, Server
  <2>3. srv.dying \subseteq {h \in Host : srv.idhash[h] # NoRec}
    BY DEF Tables, Filed
  <2>4. Tables(srv')
    BY <2>2, <2>3, SameTables
  <2> QED
    BY <2>1, <2>2, <2>4, ServerStep
<1>3. CASE DoInsert2(m)
  <2> DEFINE rec == [id |-> m.ni[1], ni |-> m.ni, ep |-> m.from,
                     kw |-> Info[m.ni[1]][m.ni[2]]]
             r2  == [type |-> "Insert2R", to |-> m.from, ni |-> m.ni]
  <2>1. net' \subseteq net \cup {r2} /\ UNCHANGED <<cli, proved>>
    BY <1>3, ExchangeNet DEF DoInsert2
  <2>2. MessageOK(proved, r2)
    BY DEF MessageOK
  <2>3. rec \in Record /\ <<rec.ni, rec.ep>> \in proved
    BY <1>3, InsertedRecord DEF DoInsert2
  <2>4. srv' = NewRecord(srv, rec)
    BY <1>3 DEF DoInsert2
  <2> HIDE DEF rec, r2
  <2>5. Tables(srv') /\ srv'.allrecords \subseteq srv.allrecords \cup {rec}
    BY <2>3, <2>4, NewTables
  <2> QED
    BY <2>1, <2>2, <2>3, <2>5, ServerStep
<1> QED
  BY <1>1, <1>2, <1>3

LEMMA ServerRequests ==
    ASSUME Inv, NEW m \in net, DoLookup(m) \/ DoSearch(m)
    PROVE  Inv'
<1> USE DEF Inv
<1>1. CASE DoLookup(m)
  <2> DEFINE a == [type |-> "LookupR", to |-> m.from, ni |-> m.ni, id |-> m.id]
  <2>1. net' \subseteq net \cup {a} /\ UNCHANGED <<cli, srv, proved>>
    BY <1>1, ExchangeNet DEF DoLookup
  <2>2. MessageOK(proved, a)
    BY DEF MessageOK
  <2> HIDE DEF a
  <2> QED
    BY <2>1, <2>2, ServerStep
<1>2. CASE DoSearch(m)
  <2> DEFINE a == [type |-> "SearchR", to |-> m.from, ni |-> m.ni, text |-> m.text]
  <2>1. net' \subseteq net \cup {a} /\ UNCHANGED <<cli, proved>>
    BY <1>2, ExchangeNet DEF DoSearch
  <2>2. MessageOK(proved, a)
    BY DEF MessageOK
  <2> HIDE DEF a
  <2>3. srv' = [srv EXCEPT !.kwhash = Touched(srv, m.text)]
    BY <1>2 DEF DoSearch
  <2>4. Tables(srv') /\ srv'.allrecords = srv.allrecords
    BY <2>3, TouchedTables
  <2> QED
    BY <2>1, <2>2, <2>4, ServerStep
<1> QED
  BY <1>1, <1>2

LEMMA OtherInsertedInv ==
    ASSUME Inv, NEW h \in Other, OtherInserted(h)
    PROVE  Inv'
<1> USE DEF Inv
<1>1. PICK kw \in OtherInfo[h] :
          srv' = NewRecord(srv, [id |-> h, ni |-> <<h, 0>>, ep |-> 0, kw |-> kw])
  BY DEF OtherInserted
<1> DEFINE rec == [id |-> h, ni |-> <<h, 0>>, ep |-> 0, kw |-> kw]
<1>2. rec \in Record /\ rec.id \notin Client
  BY RegistrationAssumption DEF Record, Host
<1> HIDE DEF rec
<1>3. Tables(srv') /\ srv'.allrecords \subseteq srv.allrecords \cup {rec}
  BY <1>1, <1>2, NewTables DEF rec
<1> QED
  BY <1>2, <1>3, ServerStep DEF OtherInserted

LEMMA RecordTimeoutInv ==
    ASSUME Inv, NEW h \in Host, RecordTimeout(h)
    PROVE  Inv'
<1> USE DEF Inv
<1>1. /\ DOMAIN srv' = DOMAIN srv /\ srv'.idhash = srv.idhash
      /\ srv'.allrecords = srv.allrecords /\ srv'.kwhash = srv.kwhash
      /\ srv'.dying = srv.dying \cup {h}
  BY DEF RecordTimeout, Tables, Server
<1>2. srv.dying \cup {h} \subseteq {g \in Host : srv.idhash[g] # NoRec}
  BY DEF RecordTimeout, Tables, Filed
<1>3. Tables(srv')
  BY <1>1, <1>2, SameTables
<1> QED
  BY <1>1, <1>3, ServerStep DEF RecordTimeout

LEMMA RecordDeletedInv ==
    ASSUME Inv, NEW h \in Host, RecordDeleted(h)
    PROVE  Inv'
<1> USE DEF Inv
<1>1. srv.idhash[h] # NoRec
  BY DEF RecordDeleted, Tables, Filed
<1>2. Tables(srv') /\ srv'.allrecords \subseteq srv.allrecords
  BY <1>1, DeleteTables DEF RecordDeleted
<1> QED
  BY <1>2, ServerStep DEF RecordDeleted

(* A server without records. *)
LEMMA EmptyTables ==
    ASSUME NEW e
    PROVE  Tables([epoch |-> e, chalhash |-> {}, idhash |-> [h \in Host |-> NoRec],
                   allrecords |-> {}, kwhash |-> <<>>, dying |-> {}])
<1> DEFINE s == [epoch |-> e, chalhash |-> {}, idhash |-> [h \in Host |-> NoRec],
                 allrecords |-> {}, kwhash |-> <<>>, dying |-> {}]
<1>1. Server(s)
  BY DEF Server
<1>2. DOMAIN s.kwhash = {} /\ s.allrecords = {} /\ s.dying = {}
  OBVIOUS
<1>3. \A h \in Host : s.idhash[h] = NoRec
  OBVIOUS
<1>4. s.idhash \in [Host -> Record \cup {NoRec}]
  OBVIOUS
<1> HIDE DEF s
<1>5. Filed(s)
  BY <1>2, <1>3, <1>4, FS_EmptySet DEF Filed
<1>6. Indexed(s)
  BY <1>2 DEF Indexed, At
<1> QED
  BY <1>1, <1>5, <1>6 DEF Tables, s

LEMMA ServerRestartInv ==
    ASSUME Inv, ServerRestart
    PROVE  Inv'
<1> USE DEF Inv
<1>1. Tables(srv') /\ srv'.allrecords = {}
  BY EmptyTables DEF ServerRestart
<1> QED
  BY <1>1, ServerStep DEF ServerRestart

-----------------------------------------------------------------------------
(* All steps. *)
LEMMA InvInit ==
    ASSUME Init
    PROVE  Inv
<1>1. PICK scheme \in [Client -> {"RSA160", "DSA160"}],
           persist \in [Client -> BOOLEAN] :
          cli = [c \in Client |->
                [state |-> "Idle", scheme |-> scheme[c], persist |-> persist[c],
                 ep |-> 0, used |-> 0, ni |-> 0, hash |-> {}, addrs |-> FALSE,
                 chal |-> NoCookie, lookups |-> {}, searches |-> {}, retry |-> Off,
                 rereg |-> FALSE, resolving |-> 0, resolves |-> 0, calls |-> 0]]
  BY DEF Init
<1>2. ASSUME NEW c \in Client
      PROVE  ClientOK(proved, c, cli[c])
  <2>1. MaxNonces[c] \in Nat
    BY RegistrationAssumption
  <2> QED
    BY <1>1, <2>1 DEF ClientOK, Credible
<1>3. Tables(srv) /\ srv.allrecords = {}
  BY EmptyTables DEF Init
<1>4. EndpointProved
  BY <1>3 DEF EndpointProved
<1> QED
  BY <1>1, <1>2, <1>3, <1>4 DEF Init, Inv, Proofs

LEMMA InvStep ==
    ASSUME Inv, [Next]_vars
    PROVE  Inv'
<1>1. CASE UNCHANGED vars
  BY <1>1, ServerStep DEF vars, Inv
<1>2. CASE \E c \in Client :
               \/ RegisterAt(c) \/ ResolveDone(c) \/ RetryTimeout(c) \/ ReregTimeout(c)
               \/ UserDisconnect(c) \/ Destroy(c) \/ Move(c)
               \/ \E l \in Requests : Lookup(c, l)
               \/ \E text \in Texts : Search(c, text)
  BY <1>2, RegisterAtInv, ResolveDoneInv, RetryTimeoutInv, ReregTimeoutInv,
     UserDisconnectInv, DestroyInv, MoveInv, LookupInv, SearchInv
<1>3. CASE \E m \in net :
               \/ GotInsert1Reply(m) \/ GotInsert2Reply(m)
               \/ GotLookupReply(m) \/ GotSearchReply(m)
               \/ DoInsert1(m) \/ DoInsert2BadCookie(m) \/ DoInsert2BadClient(m)
               \/ DoInsert2(m) \/ DoLookup(m) \/ DoSearch(m)
  BY <1>3, GotInsert1ReplyInv, OtherReplies, ServerInserts, ServerRequests
<1>4. CASE \E h \in Host : RecordTimeout(h) \/ RecordDeleted(h)
  BY <1>4, RecordTimeoutInv, RecordDeletedInv
<1>5. CASE \E h \in Other : OtherInserted(h)
  BY <1>5, OtherInsertedInv
<1>6. CASE ServerRestart
  BY <1>6, ServerRestartInv
<1> QED
  BY <1>1, <1>2, <1>3, <1>4, <1>5, <1>6 DEF Next

LEMMA InvAlways == Spec => []Inv
<1>1. Init => Inv
  BY InvInit
<1>2. Inv /\ [Next]_vars => Inv'
  BY InvStep
<1> QED
  BY <1>1, <1>2, PTL DEF Spec

(* An idle client has no timer running, a waiting one has. *)
THEOREM RegTypeCorrect == Spec => []TypeOK
<1>1. Inv => TypeOK
  <2>1. ASSUME NEW c \in Client, ClientOK(proved, c, cli[c])
        PROVE  cli[c].retry \in Off .. Tries
    BY <2>1, RegistrationAssumption DEF ClientOK, Off
  <2> QED
    BY <2>1 DEF Inv, TypeOK, ClientOK
<1> QED
  BY <1>1, InvAlways, PTL

(* idhash, allrecords and kwhash hold the same records, whatever replaced  *)
(* them, timed out, was searched for or was lost with the server.          *)
THEOREM ServerTables == Spec => []TablesAgree
<1>1. Inv => TablesAgree
  BY TablesAgreeIf DEF Inv
<1> QED
  BY <1>1, InvAlways, PTL

(* A client is listed where it received the challenge for its nonce.       *)
THEOREM ListedWhereReached == Spec => []EndpointProved
<1>1. Inv => EndpointProved
  BY DEF Inv
<1> QED
  BY <1>1, InvAlways, PTL

(* doSearch() answers with the records that have all the keywords.         *)
THEOREM SearchFindsAll == Spec => []SearchExact
<1>1. Inv => SearchExact
  BY AnswersExact DEF Inv
<1> QED
  BY <1>1, InvAlways, PTL
=============================================================================
