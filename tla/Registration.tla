---------------------------- MODULE Registration ----------------------------
(***************************************************************************)
(* The rendezvous service: RegClient objects (lib/regcli.cc), the datagram *)
(* network, and the registration server (reg/main.cc).                     *)
(*                                                                         *)
(* A client registers in two round trips: Insert1 fetches a challenge tied *)
(* to its endpoint, Insert2 returns it signed.  Then it may look other     *)
(* hosts up.  Datagrams are lost and reordered; up to MaxFaults times one  *)
(* is duplicated, a client's endpoint changes under it, a record expires,  *)
(* or the server restarts and remembers nothing.  Client operations are    *)
(* operators on the record of a client that compose as the calls do; `out' *)
(* collects the datagrams an operation sends.                              *)
(***************************************************************************)
EXTENDS Integers, FiniteSets, FiniteSetsExt, Functions

CONSTANTS
    Client,         \* RegClient objects, each of a host of its own
    Other,          \* further hosts, whose exchange is not followed
    Named,          \* clients given a host name to resolve, not an address
    MaxNonces,      \* bound: nonces a client draws
    MaxResolves,    \* bound: host name lookups of a client
    MaxCalls,       \* bound: calls the application makes on a client
    Schemes,        \* identity schemes the host of a client may have
    Unset,          \* clients on which nobody calls setPersistent()
    Requests,       \* lookups of a client: <<target, notify>>
    Texts,          \* searches of a client: sets of keywords
    Keyword,
    Info,           \* keywords in the RegInfo set for a client's n-th nonce
    OtherInfo,      \* sets of keywords a further host may register with
    Tries,          \* timeouts of the retry timer before it reports failure
    MaxResults,     \* MAX_RESULTS
    MaxNet,         \* bound: datagrams under way; more are lost
    MaxFaults,      \* bound: duplicates, moves, restarts and expired records
    NoRec

ASSUME RegistrationAssumption ==
    /\ Named \subseteq Client /\ Unset \subseteq Client
    /\ Schemes \in [Client -> SUBSET {"RSA160", "DSA160"}]
    /\ \A B \in {MaxNonces, MaxResolves, MaxCalls} : B \in [Client -> Nat]
    /\ Client \cap Other = {}
    /\ Requests \subseteq (Client \cup Other) \X BOOLEAN /\ Texts \subseteq SUBSET Keyword
    /\ \A c \in Client : Info[c] \in [1 .. MaxNonces[c] -> SUBSET Keyword]
    /\ OtherInfo \in [Other -> SUBSET SUBSET Keyword]
    /\ Tries \in Nat \ {0} /\ MaxResults \in Nat \ {0}
    /\ MaxNet \in Nat /\ MaxFaults \in Nat
    /\ NoRec \notin [id : Client \cup Other, ni : (Client \cup Other) \X Nat,
                     ep : Nat, kw : SUBSET Keyword]

VARIABLES
    cli,            \* the clients
    srv,            \* the server
    net,            \* datagrams under way
    faults,         \* faults so far
    proved          \* history: <<nonce, endpoint>> a challenge was received at

vars == <<cli, srv, net, faults, proved>>

(* Cookie and signature pin down what they are computed from.  A nonce and *)
(* its hash are told apart only by an eavesdropper, who is not modelled.   *)
Host == Client \cup Other
Cookie(epoch, ep, n) == <<epoch, ep, n>>
NoCookie == <<>>
Off == -1                       \* a timer that is not running

(* The constructor leaves persist uninitialised. *)
Init ==
    /\ \E scheme \in [Client -> {"RSA160", "DSA160"}], persist \in [Client -> BOOLEAN] :
          /\ \A c \in Client : scheme[c] \in Schemes[c] /\ (c \in Unset \/ ~persist[c])
          /\ cli = [c \in Client |->
                [state |-> "Idle", scheme |-> scheme[c], persist |-> persist[c],
                 ep |-> 0, used |-> 0, ni |-> 0, hash |-> {}, addrs |-> FALSE,
                 chal |-> NoCookie, lookups |-> {}, searches |-> {}, retry |-> Off,
                 rereg |-> FALSE, resolving |-> 0, resolves |-> 0, calls |-> 0]]
    /\ srv = [epoch |-> 0, chalhash |-> {}, idhash |-> [h \in Host |-> NoRec],
              allrecords |-> {}, kwhash |-> <<>>, dying |-> {}]
    /\ net = {} /\ faults = 0 /\ proved = {}

-----------------------------------------------------------------------------
(* RegClient.                                                              *)
Out(r, ms) == [cli |-> r, out |-> ms]

Own(c, r) == <<c, r.ni>>
Insert1(c, r) == [type |-> "Insert1", from |-> r.ep, ni |-> Own(c, r)]
Insert2(c, r) == [type |-> "Insert2", from |-> r.ep, ni |-> Own(c, r), chal |-> r.chal]
LookupMsgs(c, r) ==
    {[type |-> "Lookup", from |-> r.ep, ni |-> Own(c, r), id |-> l[1]] : l \in r.lookups}
SearchMsgs(c, r) ==
    {[type |-> "Search", from |-> r.ep, ni |-> Own(c, r), text |-> t] : t \in r.searches}

(* Timer::start, with the whole failure deadline. *)
Start(r) == [r EXCEPT !.retry = Tries]

(* disconnect(): signals, which end the lookups, then forgets.  nhi is     *)
(* cleared and stays in nhihash; a host name lookup under way is left.     *)
Disconnect(r) ==
    IF r.state = "Idle" THEN r
    ELSE [r EXCEPT !.state = "Idle", !.addrs = FALSE, !.ni = 0, !.chal = NoCookie,
                   !.lookups = {}, !.searches = {}, !.retry = Off, !.rereg = FALSE]

CanInsert1(c, r) == r.ni # 0 \/ r.used < MaxNonces[c]

GoInsert1Once(c, r) ==          \* fault: the first Insert1 is not timed
    LET q == IF r.ni # 0 THEN r
             ELSE [r EXCEPT !.used = @ + 1, !.ni = r.used + 1, !.hash = @ \cup {r.used + 1}]
        s == [q EXCEPT !.state = "Insert1"]
    IN  Out(s, {Insert1(c, s)})

GoInsert1(c, r) ==
    LET q == IF r.ni # 0 THEN r
             ELSE [r EXCEPT !.used = @ + 1, !.ni = r.used + 1, !.hash = @ \cup {r.used + 1}]
        s == Start([q EXCEPT !.state = "Insert1"])
    IN  Out(s, {Insert1(c, s)})

GoInsert2(c, r) ==
    LET s == Start([r EXCEPT !.state = "Insert2"]) IN Out(s, {Insert2(c, s)})

CanReregister(c, r) ==
    IF c \in Named THEN r.resolves < MaxResolves[c]
    ELSE CanInsert1(c, [r EXCEPT !.ni = 0])

Reregister(c, r) ==
    LET q == [r EXCEPT !.hash = @ \ {r.ni}, !.ni = 0]
    IN  IF c \in Named
          THEN Out([q EXCEPT !.state = "Resolve", !.resolving = @ + 1,
                             !.resolves = @ + 1], {})
          ELSE GoInsert1(c, [q EXCEPT !.addrs = TRUE])

(* The network holds the datagrams ms, and has lost the rest if they are   *)
(* too many.  One that is never delivered is lost as well.                 *)
Carries(ms) ==
    net' \in kSubset(IF Cardinality(ms) < MaxNet THEN Cardinality(ms) ELSE MaxNet, ms)

(* An operation of client c, with its result o. *)
Step(c, o) ==
    /\ cli' = [cli EXCEPT ![c] = o.cli]
    /\ Carries(net \cup o.out)

(* The application calls client c. *)
Called(c) == [cli[c] EXCEPT !.calls = @ + 1]
MayCall(c) == cli[c].calls < MaxCalls[c]

RegisterAt(c) ==
    /\ MayCall(c) /\ cli[c].state = "Idle" /\ CanReregister(c, cli[c])
    /\ Step(c, Reregister(c, Called(c)))
    /\ UNCHANGED <<srv, faults, proved>>

(* resolveDone() does not look at the state. *)
ResolveDone(c) ==
    LET r == [cli[c] EXCEPT !.resolving = @ - 1]
    IN  /\ r.resolving >= 0 /\ r.state # "gone"
        /\ \/ Step(c, Out(Disconnect([r EXCEPT !.addrs = FALSE]), {}))
           \/ CanInsert1(c, r) /\ Step(c, GoInsert1(c, [r EXCEPT !.addrs = TRUE]))
        /\ UNCHANGED <<srv, faults, proved>>

Lookup(c, l) ==
    LET r == Start([Called(c) EXCEPT !.lookups = @ \cup {l}])
    IN  /\ MayCall(c) /\ cli[c].state = "Registered"
        /\ Step(c, Out(r, {m \in LookupMsgs(c, r) : m.id = l[1]}))
        /\ UNCHANGED <<srv, faults, proved>>

Search(c, text) ==
    LET r == Start([Called(c) EXCEPT !.searches = @ \cup {text}])
    IN  /\ MayCall(c) /\ cli[c].state = "Registered"
        /\ Step(c, Out(r, {m \in SearchMsgs(c, r) : m.text = text}))
        /\ UNCHANGED <<srv, faults, proved>>

Outstanding(r) == r.lookups # {} \/ r.searches # {}

(* timeout(failed): the timer has stopped, and restart() keeps what is     *)
(* left of the deadline.                                                   *)
RetryTimeout(c) ==
    LET left == IF cli[c].retry > 0 THEN cli[c].retry - 1 ELSE 0
        r    == [cli[c] EXCEPT !.retry = Off]
        again(ms) == Out([r EXCEPT !.retry = left], ms)
        fail == Disconnect(r)
    IN  /\ cli[c].retry # Off
        /\ Step(c, CASE r.state \in {"Insert1", "Insert2"} /\ left = 0 /\ ~r.persist
                          -> Out(fail, {})
                     [] r.state = "Insert1" /\ (left > 0 \/ r.persist)
                          -> again({Insert1(c, r)})
                     [] r.state = "Insert2" /\ (left > 0 \/ r.persist)
                          -> again({Insert2(c, r)})
                     [] r.state = "Registered" /\ Outstanding(r) /\ left = 0
                          -> IF r.persist /\ CanReregister(c, fail)
                               THEN Reregister(c, fail) ELSE Out(fail, {})
                     [] r.state = "Registered" /\ Outstanding(r) /\ left > 0
                          -> again(LookupMsgs(c, r) \cup SearchMsgs(c, r))
                     [] OTHER -> Out(r, {}))    \* nothing outstanding, or Resolve
        /\ UNCHANGED <<srv, faults, proved>>

ReregTimeout(c) ==
    LET r == [cli[c] EXCEPT !.rereg = FALSE]
    IN  /\ cli[c].rereg /\ CanReregister(c, r)
        /\ Step(c, Reregister(c, r))
        /\ UNCHANGED <<srv, faults, proved>>

UserDisconnect(c) ==
    /\ MayCall(c) /\ cli[c].state \notin {"Idle", "gone"}
    /\ Step(c, Out(Disconnect(Called(c)), {}))
    /\ UNCHANGED <<srv, faults, proved>>

(* ~RegClient.  disconnect() has cleared nhi, so nothing leaves nhihash. *)
Destroy(c) ==
    /\ MayCall(c) /\ cli[c].state # "gone"
    /\ Step(c, Out([Disconnect(Called(c)) EXCEPT !.state = "gone"], {}))
    /\ UNCHANGED <<srv, faults, proved>>

Fault == faults < MaxFaults /\ faults' = faults + 1

(* A datagram arrives, once or once more, and its receiver sends out. *)
Exchange(m, out) ==
    \/ Carries((net \ {m}) \cup out) /\ UNCHANGED faults
    \/ Carries(net \cup out) /\ Fault

(* RegReceiver::receive: the client is found by the nonce, which need not  *)
(* be the current one, and must know the server's address.  What a message *)
(* for a destroyed client does is undefined; none is delivered here.       *)
Receives(m) ==
    LET r == cli[m.ni[1]]
    IN  /\ m.type \in {"Insert1R", "Insert2R", "LookupR", "SearchR"}
        /\ m.to = r.ep /\ m.ni[2] \in r.hash /\ r.addrs /\ r.state # "gone"

GotInsert1Reply(m) ==
    LET c == m.ni[1]
        o == GoInsert2(c, [cli[c] EXCEPT !.chal = m.chal])
    IN  /\ m.type = "Insert1R" /\ Receives(m)
        /\ cli' = [cli EXCEPT ![c] = o.cli]
        /\ Exchange(m, o.out)
        /\ proved' = proved \cup {<<m.ni, m.to>>}
        /\ UNCHANGED srv

GotInsert2Reply(m) ==
    /\ m.type = "Insert2R" /\ Receives(m)
    /\ cli' = [cli EXCEPT ![m.ni[1]].state = "Registered", ![m.ni[1]].rereg = TRUE]
    /\ Exchange(m, {})
    /\ UNCHANGED <<srv, proved>>

GotLookupReply(m) ==
    /\ m.type = "LookupR" /\ Receives(m)
    /\ cli' = [cli EXCEPT ![m.ni[1]].lookups = {l \in @ : l[1] # m.id}]
    /\ Exchange(m, {})
    /\ UNCHANGED <<srv, proved>>

GotSearchReply(m) ==
    /\ m.type = "SearchR" /\ Receives(m)
    /\ cli' = [cli EXCEPT ![m.ni[1]].searches = @ \ {m.text}]
    /\ Exchange(m, {})
    /\ UNCHANGED <<srv, proved>>

(* The network gives the client's host another address. *)
Move(c) ==
    /\ Fault
    /\ cli' = [cli EXCEPT ![c].ep = @ + 1]
    /\ UNCHANGED <<srv, net, proved>>

-----------------------------------------------------------------------------
(* RegServer and RegRecord.  kwhash has an entry for the keys in its       *)
(* domain, as operator[] creates them.                                     *)
At(kwhash, kw) == IF kw \in DOMAIN kwhash THEN kwhash[kw] ELSE {}

(* regKeywords(true) and regKeywords(false). *)
AddKeywords(kwhash, rec) ==
    [k \in DOMAIN kwhash \cup rec.kw |->
        At(kwhash, k) \cup (IF k \in rec.kw THEN {rec} ELSE {})]

DropKeywordsKept(kwhash, rec) ==    \* fault: only the keyword's last entry goes
    Restrict(kwhash, {k \in DOMAIN kwhash : kwhash[k] # {rec}})

DropKeywords(kwhash, rec) ==
    LET minus == [k \in DOMAIN kwhash |-> kwhash[k] \ {rec}]
    IN  Restrict(minus, {k \in DOMAIN kwhash : k \notin rec.kw \/ minus[k] # {}})

DeleteRecord(s, rec) ==
    [s EXCEPT !.idhash[rec.id] = NoRec, !.allrecords = @ \ {rec},
              !.kwhash = DropKeywords(@, rec), !.dying = @ \ {rec.id}]

NewRecord(s, rec) ==
    LET old == s.idhash[rec.id]
        t   == IF old = NoRec THEN s ELSE DeleteRecord(s, old)
    IN  [t EXCEPT !.idhash[rec.id] = rec, !.allrecords = @ \cup {rec},
                  !.kwhash = AddKeywords(@, rec)]

Challenge(m) == [type |-> "Insert1R", to |-> m.from, ni |-> m.ni,
                 chal |-> Cookie(srv.epoch, m.from, m.ni)]

DoInsert1(m) ==
    /\ m.type = "Insert1"
    /\ Exchange(m, {Challenge(m)})
    /\ UNCHANGED <<cli, srv, proved>>

CookieValidAnywhere(m) ==       \* fault: the source is left out of the cookie
    m.chal[1] = srv.epoch /\ m.chal[3] = m.ni

CookieValid(m) == m.chal = Cookie(srv.epoch, m.from, m.ni)

(* doInsert2.  Only the cookies of bad clients are remembered. *)
DoInsert2BadCookie(m) ==
    /\ m.type = "Insert2" /\ ~CookieValid(m)
    /\ Exchange(m, {Challenge(m)})
    /\ UNCHANGED <<cli, srv, proved>>

DoInsert2BadClient(m) ==
    /\ m.type = "Insert2" /\ CookieValid(m)
    /\ m.chal \in srv.chalhash \/ cli[m.ni[1]].scheme # "RSA160"
    /\ srv' = [srv EXCEPT !.chalhash = @ \cup {m.chal}]
    /\ Exchange(m, {})
    /\ UNCHANGED <<cli, proved>>

DoInsert2(m) ==
    LET c == m.ni[1]
    IN  /\ m.type = "Insert2" /\ CookieValid(m)
        /\ m.chal \notin srv.chalhash /\ cli[c].scheme = "RSA160"
        /\ srv' = NewRecord(srv, [id |-> c, ni |-> m.ni, ep |-> m.from,
                                  kw |-> Info[c][m.ni[2]]])
        /\ Exchange(m, {[type |-> "Insert2R", to |-> m.from, ni |-> m.ni]})
        /\ UNCHANGED <<cli, proved>>

(* The same for a host whose exchange is not followed. *)
OtherInserted(h) ==
    /\ \E kw \in OtherInfo[h] :
          srv' = NewRecord(srv, [id |-> h, ni |-> <<h, 0>>, ep |-> 0, kw |-> kw])
    /\ UNCHANGED <<cli, net, faults, proved>>

FindCaller(m) ==
    LET rec == srv.idhash[m.ni[1]]
    IN  rec # NoRec /\ rec.ep = m.from /\ rec.ni = m.ni

(* doLookup answers the caller whether the target is known or not.  Its    *)
(* notification of the target changes no client: see Peer's LocationHint.  *)
DoLookup(m) ==
    /\ m.type = "Lookup" /\ FindCaller(m)
    /\ Exchange(m, {[type |-> "LookupR", to |-> m.from, ni |-> m.ni, id |-> m.id]})
    /\ UNCHANGED <<cli, srv, proved>>

(* doSearch: the keyword with the fewest records first, then narrowed. *)
Rarest(s, text) ==
    CHOOSE kw \in text : \A o \in text :
        Cardinality(At(s.kwhash, kw)) <= Cardinality(At(s.kwhash, o))

NarrowedLast(s, text) ==        \* fault: the minimum is not intersected
    At(s.kwhash, Rarest(s, text))

Narrowed(s, text) ==
    {rec \in At(s.kwhash, Rarest(s, text)) : \A kw \in text : rec \in At(s.kwhash, kw)}

Results(s, text) == IF text = {} THEN s.allrecords ELSE Narrowed(s, text)

(* What may be answered: which records a truncated answer names is up to   *)
(* the hash table.                                                         *)
Answers(s, text) ==
    LET all == Results(s, text)
        n   == IF Cardinality(all) > MaxResults THEN MaxResults ELSE Cardinality(all)
    IN  {[complete |-> Cardinality(all) <= MaxResults, ids |-> {rec.id : rec \in some}] :
            some \in kSubset(n, all)}

(* Looking a keyword up while narrowing creates its entry. *)
Touched(s, text) ==
    IF text = {} \/ At(s.kwhash, Rarest(s, text)) = {} THEN s.kwhash
    ELSE [k \in DOMAIN s.kwhash \cup text |-> At(s.kwhash, k)]

DoSearch(m) ==
    /\ m.type = "Search" /\ FindCaller(m)
    /\ srv' = [srv EXCEPT !.kwhash = Touched(srv, m.text)]
    /\ Exchange(m, {[type |-> "SearchR", to |-> m.from, ni |-> m.ni, text |-> m.text]})
    /\ UNCHANGED <<cli, proved>>

(* RegRecord::timerEvent, and the deferred deletion. *)
RecordTimeout(h) ==
    /\ srv.idhash[h] # NoRec /\ h \notin srv.dying
    /\ srv' = [srv EXCEPT !.dying = @ \cup {h}]
    /\ Fault
    /\ UNCHANGED <<cli, net, proved>>

RecordDeleted(h) ==
    /\ h \in srv.dying
    /\ srv' = DeleteRecord(srv, srv.idhash[h])
    /\ UNCHANGED <<cli, net, faults, proved>>

(* The server is restarted, with a new secret. *)
ServerRestart ==
    /\ Fault
    /\ srv' = [epoch |-> srv.epoch + 1, chalhash |-> {}, idhash |-> [h \in Host |-> NoRec],
               allrecords |-> {}, kwhash |-> <<>>, dying |-> {}]
    /\ UNCHANGED <<cli, net, proved>>

Next ==
    \/ \E c \in Client :
           \/ RegisterAt(c) \/ ResolveDone(c) \/ RetryTimeout(c) \/ ReregTimeout(c)
           \/ UserDisconnect(c) \/ Destroy(c) \/ Move(c)
           \/ \E l \in Requests : Lookup(c, l)
           \/ \E text \in Texts : Search(c, text)
    \/ \E m \in net :
           \/ GotInsert1Reply(m) \/ GotInsert2Reply(m)
           \/ GotLookupReply(m) \/ GotSearchReply(m)
           \/ DoInsert1(m) \/ DoInsert2BadCookie(m) \/ DoInsert2BadClient(m)
           \/ DoInsert2(m) \/ DoLookup(m) \/ DoSearch(m)
    \/ \E h \in Host : RecordTimeout(h) \/ RecordDeleted(h)
    \/ \E h \in Other : OtherInserted(h)
    \/ ServerRestart

(* Timers fire and the resolver answers; of the network nothing is         *)
(* assumed.                                                                *)
Spec ==
    /\ Init /\ [][Next]_vars
    /\ \A c \in Client : WF_vars(RetryTimeout(c)) /\ WF_vars(ResolveDone(c))

-----------------------------------------------------------------------------
(* Type correctness, and that an idle client has no timer running while    *)
(* one that waits for the server has.                                      *)
TypeOK ==
    \A c \in Client :
        /\ cli[c].state \in {"Idle", "Resolve", "Insert1", "Insert2", "Registered", "gone"}
        /\ cli[c].retry \in Off .. Tries
        /\ cli[c].state \in {"Insert1", "Insert2"} => cli[c].retry # Off
        /\ cli[c].state \in {"Idle", "gone"} =>
              cli[c].retry = Off /\ ~cli[c].rereg /\ cli[c].lookups = {}
        /\ cli[c].ni # 0 => cli[c].ni \in cli[c].hash

(* The server's three tables tell the same, whatever records replaced one  *)
(* another, timed out or were searched for: idhash and allrecords hold the *)
(* same records, kwhash has each of them under its keywords and no other   *)
(* entry (main.cc:373-428, 309).                                           *)
TablesAgree ==
    /\ srv.allrecords = {srv.idhash[h] : h \in Host} \ {NoRec}
    /\ DOMAIN srv.kwhash = UNION {rec.kw : rec \in srv.allrecords}
    /\ \A kw \in DOMAIN srv.kwhash :
          srv.kwhash[kw] = {rec \in srv.allrecords : kw \in rec.kw}

(* A host is only listed at an endpoint it was reached at: where it has    *)
(* received the challenge for the nonce it is registered with, even if it  *)
(* moved between the two requests or the server was restarted.             *)
EndpointProved ==
    \A rec \in srv.allrecords : rec.id \in Client => <<rec.ni, rec.ep>> \in proved

(* doSearch() finds the records with all the keywords; an answer that      *)
(* claims to be complete names them all, a truncated one MaxResults.       *)
SearchExact ==
    \A text \in SUBSET Keyword :
        LET want == {rec.id : rec \in {r \in srv.allrecords : text \subseteq r.kw}}
        IN  \A a \in Answers(srv, text) :
                IF a.complete THEN a.ids = want
                ELSE a.ids \subseteq want /\ Cardinality(a.ids) = MaxResults

(* lookup() "will send a lookupDone() signal when the request completes"   *)
(* (regcli.h:102): unless the client is to persist for ever, every request *)
(* ends, with an answer or not, over re-registrations and restarts.        *)
RequestsEnd ==
    \A c \in Client :
        ~cli[c].persist /\ Outstanding(cli[c]) ~> ~Outstanding(cli[c])
=============================================================================
