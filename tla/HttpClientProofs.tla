--------------------------- MODULE HttpClientProofs ---------------------------
(***************************************************************************)
(* Proofs about HttpClient and the resolver it uses (Evdns), for any       *)
(* number of name servers, any limits of the resolver, any programs and    *)
(* networks.                                                               *)
(*                                                                         *)
(* The resolver comes first: DnsInv is what every one of its operators     *)
(* keeps.  Operators that end no query are related to what they start from *)
(* by Goes, which DnsInv survives; those that end queries, or bring servers*)
(* back, keep DnsInv by themselves.  ClientInv adds what BaseHttpClient    *)
(* has to do with it, and the theorems follow from it.                     *)
(***************************************************************************)
EXTENDS HttpClient, DataLemmas

-----------------------------------------------------------------------------
(* Types. *)

Ends    == {"ok", "error", "notexist", "cancel", "shutdown"}
Asked   == {A, AAAA}
Req     == [ns : Servers, tx : Nat, reissues : Nat, names : Nat \ {0}, sent : SUBSET Servers]
TimerId == Queries \union {Prod(s) : s \in Servers} \union {Skew(r) : r \in Nat}
Call    == [base : Nat, q : Queries, res : Ends]
Lookup  == [out : SUBSET Asked, result : {"none", "ok", "error"}, cb : {"set", "null"}]

\* The values of evdns.
Bases ==
    [base : Nat, head : Servers, up : SUBSET Servers, good : Int, timedout : [Servers -> Nat],
     inflight : [Servers -> Int], probing : SUBSET Servers, broken : SUBSET Servers,
     reqs : UNION {[D -> Req] : D \in SUBSET Queries}, timers : SUBSET TimerId,
     fresh : SUBSET TimerId, queue : Seq(Call),
     lookups : UNION {[D -> Lookup] : D \in SUBSET Nat}]

-----------------------------------------------------------------------------
(* What a resolver keeps. *)

\* good and inflight count what they stand for.
At(e, s)   == {q \in DOMAIN e.reqs : e.reqs[q].ns = s}
Counted(e) == /\ e.good = Cardinality(e.up)
              /\ \A s \in Servers : e.inflight[s] = Cardinality(At(e, s))

\* Entry i of the queue will see to server s.
Sees(e, i, s) == e.queue[i].base = e.base /\ e.queue[i].q = Probe(s) /\ e.queue[i].res # "cancel"

\* A server that is down is on its way back, but for those of Y.
Returning(e, s) ==
    \/ Prod(s) \in e.timers
    \/ Probe(s) \in DOMAIN e.reqs
    \/ \E i \in 1..Len(e.queue) : Sees(e, i, s)
Watched(e, Y) == \A s \in Servers \ (e.up \union Y) : Returning(e, s)

\* There is one probe of a server at a time, the server is down and its timer off; and
\* while the end of a probe waits to be seen the timer does not fire, nor is there
\* another probe.  (X: queries whose answer is being handled.)
Probed(e, X) ==
    /\ \A s \in Servers : Probe(s) \in DOMAIN e.reqs \ X =>
         s \notin e.up /\ s \in e.probing /\ Prod(s) \notin e.timers
    /\ \A s \in Servers : \A i \in 1..Len(e.queue) : Sees(e, i, s) =>
         Probe(s) \notin DOMAIN e.reqs \ X /\ (Prod(s) \in e.timers => Prod(s) \in e.fresh)
    /\ \A s \in Servers : Prod(s) \in e.timers => s \notin e.up

\* A lookup waits for a query once: while the query is out, or while its one callback
\* waits (both for those of X, whose answer is being handled).  Its own timer is armed
\* only while it waits for one of the two, and has not told the outcome.
CallOk(e, i, X) ==
    LET c == e.queue[i] IN
    /\ c.base \in DOMAIN e.lookups /\ c.q \in e.lookups[c.base].out
    /\ c.base = e.base /\ c.q \in DOMAIN e.reqs => c.q \in X
    /\ \A j \in 1..Len(e.queue) : e.queue[j].base = c.base /\ e.queue[j].q = c.q => j = i
Calls(e, X) ==
    /\ \A i \in 1..Len(e.queue) : e.queue[i].q \in Asked => CallOk(e, i, X)
    /\ \A q \in Asked \cap DOMAIN e.reqs :
         e.base \in DOMAIN e.lookups /\ q \in e.lookups[e.base].out
Cut(e) ==
    /\ \A r \in DOMAIN e.lookups : e.lookups[r].cb = "null" => e.lookups[r].out # Asked
    /\ \A r \in Nat : Skew(r) \in e.timers =>
         r \in DOMAIN e.lookups /\ e.lookups[r].cb = "set" /\ e.lookups[r].out # Asked

\* The queries have their timers, and no others do.
Due(e)   == \A q \in Queries : q \in e.timers => q \in DOMAIN e.reqs
Timed(e) == DOMAIN e.reqs \subseteq e.timers /\ Due(e)

DnsInv(e, X, Y) ==
    e \in Bases /\ Counted(e) /\ Timed(e) /\ Watched(e, Y) /\ Probed(e, X) /\ Calls(e, X) /\ Cut(e)

\* From e to d queries move, are sent or given up without an answer, and servers fail;
\* timers of T may go, and the queries of D are left.
Same(d, e) ==
    /\ d.base = e.base /\ d.lookups = e.lookups /\ d.queue = e.queue
    /\ d.probing = e.probing /\ d.broken = e.broken
Goes(d, e, T, D) ==
    /\ d \in Bases /\ Same(d, e) /\ DOMAIN d.reqs = D
    /\ (Counted(e) => Counted(d)) /\ (Due(e) => Due(d))
    /\ d.up \subseteq e.up /\ \A s \in e.up \ d.up : Prod(s) \in d.timers
    /\ e.timers \ T \subseteq d.timers /\ e.fresh \ T \subseteq d.fresh
    /\ \A r \in Nat : Skew(r) \in d.timers => Skew(r) \in e.timers
    /\ \A s \in Servers : Prod(s) \in d.timers =>
         \/ Prod(s) \in e.timers
         \/ s \in e.up \ d.up /\ (e.queue # <<>> => Prod(s) \in d.fresh)

\* What stays when queries end: the base, and what it works for.
Kin(d, e) == d.base = e.base /\ d.lookups = e.lookups /\ d.broken = e.broken

\* Query q of lookup r is not out any more, and its callback does not wait.
Gone(e, r, q) ==
    /\ r = e.base => q \notin DOMAIN e.reqs
    /\ \A j \in 1..Len(e.queue) : e.queue[j].base = r => e.queue[j].q # q
LastOut(e, r, q) == Gone(e, r, q) /\ \A p \in e.lookups[r].out : p = q

-----------------------------------------------------------------------------
(* Names, and the servers that are picked. *)

LEMMA NamesDiffer ==
    /\ A # AAAA /\ ~IsProbe(A) /\ ~IsProbe(AAAA)
    /\ \A s : IsProbe(Probe(s)) /\ Probe(s) \notin Asked /\ \A r : Probe(s) = Probe(r) => s = r
    /\ \A q \in Queries : \A s, r : Prod(s) # q /\ Skew(r) # q /\ Prod(s) # Skew(r)
    /\ \A s, r : (Prod(s) = Prod(r) => s = r) /\ (Skew(s) = Skew(r) => s = r)
    /\ Asked \subseteq Queries /\ \A s \in Servers : Probe(s) \in Queries
    /\ \A q \in Queries : q \in Asked \/ \E s \in Servers : q = Probe(s)
  BY DEF A, AAAA, Probe, Prod, Skew, IsProbe, Queries, Asked

LEMMA Timers ==
    /\ Queries \subseteq TimerId /\ \A s \in Servers : Prod(s) \in TimerId
    /\ \A r \in Nat : Skew(r) \in TimerId
  BY DEF TimerId

LEMMA ModFacts == \A n \in Int, m \in Nat \ {0} : n % m \in 0..m - 1
  OBVIOUS

LEMMA Fields ==
    ASSUME NEW e \in Bases
    PROVE  /\ e.base \in Nat /\ e.head \in Servers /\ e.up \in SUBSET Servers /\ e.good \in Int
           /\ e.timedout \in [Servers -> Nat] /\ e.inflight \in [Servers -> Int]
           /\ e.probing \in SUBSET Servers /\ e.broken \in SUBSET Servers
           /\ DOMAIN e.reqs \in SUBSET Queries /\ e.reqs \in [DOMAIN e.reqs -> Req]
           /\ e.timers \in SUBSET TimerId /\ e.fresh \in SUBSET TimerId /\ e.queue \in Seq(Call)
           /\ DOMAIN e.lookups \in SUBSET Nat /\ e.lookups \in [DOMAIN e.lookups -> Lookup]
  BY DEF Bases

\* What a query is made of.
LEMMA ReqFacts ==
    ASSUME NEW e \in Bases, NEW q \in DOMAIN e.reqs
    PROVE  /\ q \in Queries /\ e.reqs[q] \in Req /\ e.reqs[q].ns \in Servers
           /\ e.reqs[q].tx \in Nat /\ e.reqs[q].reissues \in Nat /\ e.reqs[q].names \in Nat \ {0}
           /\ e.reqs[q].sent \in SUBSET Servers
<1>1. e.reqs[q] \in Req /\ q \in Queries
  BY Fields
<1> QED
  BY <1>1 DEF Req

\* The queries after one of them changed.
LEMMA ReqsType ==
    ASSUME NEW e \in Bases, NEW q \in DOMAIN e.reqs, NEW v \in Req
    PROVE  [e.reqs EXCEPT ![q] = v] \in UNION {[D -> Req] : D \in SUBSET Queries}
<1>1. [e.reqs EXCEPT ![q] = v] \in [DOMAIN e.reqs -> Req] /\ DOMAIN e.reqs \in SUBSET Queries
  BY Fields
<1> QED
  BY <1>1

LEMMA ServersFinite == IsFiniteSet(Servers) /\ Cardinality(Servers) = NServers
  BY FS_Interval, EvdnsAssumption DEF Servers

LEMMA PickFacts == ASSUME NEW e \in Bases PROVE Pick(e).ns \in Servers /\ Pick(e).head \in Servers
<1>1. \A n \in Int : (n % NServers) + 1 \in Servers
  BY ModFacts, EvdnsAssumption DEF Servers
<1>2. \A i \in Int : e.head - 1 + i \in Int
  BY Fields DEF Servers
<1> DEFINE at(i) == ((e.head - 1 + i) % NServers) + 1
           I == {i \in 0..NServers : i = NServers \/ at(i) \in e.up}
           first == Min(I)
<1>3. \A i \in Int : at(i) \in Servers
  BY <1>1, <1>2
<1>4. first \in Int
  <2>1. I \in SUBSET Nat /\ NServers \in I
    BY EvdnsAssumption
  <2> QED
    BY <2>1, MinIsLeast
<1>5. Pick(e) = IF e.good = 0 THEN [ns |-> at(1), head |-> at(1)]
                      ELSE [ns |-> at(first), head |-> at(first + 1)]
  BY DEF Pick
<1> HIDE DEF at, first
<1> QED
  BY <1>3, <1>4, <1>5

LEMMA QueriesFinite == IsFiniteSet(Queries)
<1> DEFINE P == {Probe(s) : s \in Servers}
<1>1. IsFiniteSet(P)
  <2> DEFINE f == [s \in Servers |-> Probe(s)]
  <2>1. f \in Surjection(Servers, P)
    BY DEF Surjection
  <2> QED
    BY <2>1, ServersFinite, FS_Surjection
<1>2. IsFiniteSet({A, AAAA})
  <2>1. IsFiniteSet({} \union {A}) /\ IsFiniteSet(({} \union {A}) \union {AAAA})
    BY FS_EmptySet, FS_AddElement
  <2>2. ({} \union {A}) \union {AAAA} = {A, AAAA}
    OBVIOUS
  <2> QED
    BY <2>1, <2>2
<1>3. Queries = {A, AAAA} \union P
  BY DEF Queries
<1> HIDE DEF P
<1> QED
  BY <1>1, <1>2, <1>3, FS_Union

LEMMA AtFinite ==
    ASSUME NEW e \in Bases
    PROVE  \A s : IsFiniteSet(At(e, s)) /\ Cardinality(At(e, s)) \in Nat
<1>1. \A s : At(e, s) \in SUBSET Queries
  BY Fields DEF At
<1> QED
  BY <1>1, QueriesFinite, FS_Subset, FS_CardinalityType

-----------------------------------------------------------------------------
(* Goes. *)

LEMMA GoesNowhere == ASSUME NEW e \in Bases PROVE Goes(e, e, {}, DOMAIN e.reqs)
  BY DEF Goes, Same

LEMMA GoesOn ==
    ASSUME NEW a, NEW b, NEW d, NEW T, NEW D, NEW D2, Goes(b, a, T, D), Goes(d, b, {}, D2)
    PROVE  Goes(d, a, T, D2)
<1>1. Same(d, a)
  BY DEF Goes, Same
<1>2. d \in Bases /\ DOMAIN d.reqs = D2 /\ (Counted(a) => Counted(d)) /\ (Due(a) => Due(d))
  BY DEF Goes
<1>3. d.up \subseteq a.up /\ a.timers \ T \subseteq d.timers /\ a.fresh \ T \subseteq d.fresh
  BY DEF Goes
<1>4. ASSUME NEW s \in a.up \ d.up PROVE Prod(s) \in d.timers
  <2>1. s \in b.up => Prod(s) \in d.timers
    BY DEF Goes
  <2>2. s \notin b.up => Prod(s) \in b.timers
    BY DEF Goes
  <2> QED
    BY <2>1, <2>2 DEF Goes
<1>5. \A r \in Nat : Skew(r) \in d.timers => Skew(r) \in a.timers
  BY DEF Goes
<1>6. ASSUME NEW s \in Servers, Prod(s) \in d.timers
      PROVE  \/ Prod(s) \in a.timers
             \/ s \in a.up \ d.up /\ (a.queue # <<>> => Prod(s) \in d.fresh)
  <2>1. CASE Prod(s) \in b.timers
    <3>1. Prod(s) \in a.timers \/ (s \in a.up \ b.up /\ (a.queue # <<>> => Prod(s) \in b.fresh))
      BY <2>1 DEF Goes
    <3>2. b.fresh \subseteq d.fresh /\ d.up \subseteq b.up
      BY DEF Goes
    <3> QED
      BY <3>1, <3>2
  <2>2. CASE Prod(s) \notin b.timers
    <3>1. s \in b.up \ d.up /\ (b.queue # <<>> => Prod(s) \in d.fresh)
      BY <1>6, <2>2 DEF Goes
    <3>2. b.queue = a.queue /\ b.up \subseteq a.up
      BY DEF Goes, Same
    <3> QED
      BY <3>1, <3>2
  <2> QED
    BY <2>1, <2>2
<1> QED
  BY <1>1, <1>2, <1>3, <1>4, <1>5, <1>6 DEF Goes

LEMMA GoesOver ==
    ASSUME NEW a, NEW b, NEW d, NEW T \in SUBSET Queries, NEW D, NEW D2,
           Goes(b, a, {}, D), Goes(d, b, T, D2)
    PROVE  Goes(d, a, T, D2)
<1>1. Same(d, a)
  BY DEF Goes, Same
<1>2. d \in Bases /\ DOMAIN d.reqs = D2 /\ (Counted(a) => Counted(d)) /\ (Due(a) => Due(d))
  BY DEF Goes
<1>3. d.up \subseteq a.up /\ a.timers \ T \subseteq d.timers /\ a.fresh \ T \subseteq d.fresh
  BY DEF Goes
<1>4. ASSUME NEW s \in a.up \ d.up PROVE Prod(s) \in d.timers
  <2>1. s \in b.up => Prod(s) \in d.timers
    BY DEF Goes
  <2>2. s \notin b.up => Prod(s) \in b.timers
    BY DEF Goes
  <2>3. Prod(s) \notin T
    BY NamesDiffer
  <2> QED
    BY <2>1, <2>2, <2>3 DEF Goes
<1>5. \A r \in Nat : Skew(r) \in d.timers => Skew(r) \in a.timers
  BY DEF Goes
<1>6. ASSUME NEW s \in Servers, Prod(s) \in d.timers
      PROVE  \/ Prod(s) \in a.timers
             \/ s \in a.up \ d.up /\ (a.queue # <<>> => Prod(s) \in d.fresh)
  <2>1. CASE Prod(s) \in b.timers
    <3>1. Prod(s) \in a.timers \/ (s \in a.up \ b.up /\ (a.queue # <<>> => Prod(s) \in b.fresh))
      BY <2>1 DEF Goes
    <3>2. Prod(s) \notin T
      BY NamesDiffer
    <3>3. d.up \subseteq b.up /\ (Prod(s) \in b.fresh => Prod(s) \in d.fresh)
      BY <3>2 DEF Goes
    <3> QED
      BY <3>1, <3>3
  <2>2. CASE Prod(s) \notin b.timers
    <3>1. s \in b.up \ d.up /\ (b.queue # <<>> => Prod(s) \in d.fresh)
      BY <1>6, <2>2 DEF Goes
    <3>2. b.queue = a.queue /\ b.up \subseteq a.up
      BY DEF Goes, Same
    <3> QED
      BY <3>1, <3>2
  <2> QED
    BY <2>1, <2>2
<1> QED
  BY <1>1, <1>2, <1>3, <1>4, <1>5, <1>6 DEF Goes

\* What survives.
LEMMA GoesKeeps ==
    ASSUME NEW e, NEW d, NEW T \in SUBSET Queries, Goes(d, e, T, DOMAIN e.reqs), T \subseteq d.timers,
           NEW X, NEW Y, DnsInv(e, X, Y)
    PROVE  DnsInv(d, X, Y)
<1>1. d \in Bases /\ Counted(d) /\ DOMAIN d.reqs = DOMAIN e.reqs
  BY DEF DnsInv, Goes
<1>2. Timed(d)
  <2>1. DOMAIN e.reqs \subseteq e.timers /\ e.timers \ T \subseteq d.timers /\ Due(d)
    BY DEF DnsInv, Goes, Timed
  <2> QED
    BY <1>1, <2>1 DEF Timed
<1>3. d.base = e.base /\ d.lookups = e.lookups /\ d.queue = e.queue /\ d.probing = e.probing
  BY DEF Goes, Same
<1>4. Watched(d, Y)
  <2> SUFFICES ASSUME NEW s \in Servers \ (d.up \union Y) PROVE Returning(d, s)
    BY DEF Watched
  <2>1. CASE s \in e.up
    BY <2>1 DEF Goes, Returning
  <2>2. CASE s \notin e.up
    <3>1. Returning(e, s)
      BY <2>2 DEF Watched, DnsInv
    <3>2. Prod(s) \in e.timers => Prod(s) \in d.timers
      BY NamesDiffer DEF Goes
    <3> QED
      BY <1>1, <1>3, <3>1, <3>2 DEF Returning, Sees
  <2> QED
    BY <2>1, <2>2
<1>5. Probed(d, X)
  <2>1. ASSUME NEW s \in Servers, Probe(s) \in DOMAIN d.reqs \ X
        PROVE  s \notin d.up /\ s \in d.probing /\ Prod(s) \notin d.timers
    <3>1. s \notin e.up /\ s \in e.probing /\ Prod(s) \notin e.timers
      BY <1>1, <2>1 DEF DnsInv, Probed
    <3> QED
      BY <1>3, <3>1 DEF Goes
  <2>2. ASSUME NEW s \in Servers, NEW i \in 1..Len(d.queue), Sees(d, i, s)
        PROVE  Probe(s) \notin DOMAIN d.reqs \ X /\ (Prod(s) \in d.timers => Prod(s) \in d.fresh)
    <3>1. Sees(e, i, s) /\ i \in 1..Len(e.queue)
      BY <1>3, <2>2 DEF Sees
    <3>2. Probe(s) \notin DOMAIN e.reqs \ X /\ (Prod(s) \in e.timers => Prod(s) \in e.fresh)
      BY <3>1 DEF DnsInv, Probed
    <3>3. e.queue # <<>>
      <4>1. Len(<<>>) = 0
        OBVIOUS
      <4> QED
        BY <3>1, <4>1
    <3>4. Prod(s) \in e.fresh => Prod(s) \in d.fresh
      BY NamesDiffer DEF Goes
    <3> QED
      BY <1>1, <3>2, <3>3, <3>4 DEF Goes
  <2>3. ASSUME NEW s \in Servers, Prod(s) \in d.timers PROVE s \notin d.up
    <3>1. Prod(s) \in e.timers => s \notin e.up
      BY DEF DnsInv, Probed
    <3> QED
      BY <2>3, <3>1 DEF Goes
  <2> QED
    BY <2>1, <2>2, <2>3 DEF Probed
<1>6. Calls(d, X)
  <2>1. Calls(e, X)
    BY DEF DnsInv
  <2> QED
    BY <1>1, <1>3, <2>1 DEF Calls, CallOk
<1>7. Cut(d)
  <2>1. Cut(e) /\ \A r \in Nat : Skew(r) \in d.timers => Skew(r) \in e.timers
    BY DEF DnsInv, Goes
  <2> QED
    BY <1>3, <2>1 DEF Cut
<1> QED
  BY <1>1, <1>2, <1>4, <1>5, <1>6, <1>7 DEF DnsInv

\* A change that nothing counts on.
LEMMA GoesOnly ==
    ASSUME NEW e \in Bases, NEW d \in Bases, Same(d, e), d.timers = e.timers, d.fresh = e.fresh,
           d.up = e.up, d.good = e.good, d.inflight = e.inflight,
           DOMAIN d.reqs = DOMAIN e.reqs, \A q \in DOMAIN e.reqs : d.reqs[q].ns = e.reqs[q].ns
    PROVE  Goes(d, e, {}, DOMAIN e.reqs)
<1>1. \A s \in Servers : At(d, s) = At(e, s)
  BY DEF At
<1> QED
  BY <1>1 DEF Goes, Counted, Due

LEMMA ArmFields ==
    ASSUME NEW e \in Bases, NEW t \in TimerId
    PROVE  /\ Arm(e, t) \in Bases /\ Same(Arm(e, t), e)
           /\ Arm(e, t).reqs = e.reqs /\ Arm(e, t).up = e.up /\ Arm(e, t).good = e.good
           /\ Arm(e, t).inflight = e.inflight /\ Arm(e, t).timers = e.timers \union {t}
           /\ Arm(e, t).fresh = IF e.queue = <<>> THEN e.fresh ELSE e.fresh \union {t}
<1>1. Arm(e, t) \in Bases
  BY DEF Arm, Bases
<1>2. Same(Arm(e, t), e)
  BY DEF Arm, Bases, Same
<1>3. /\ Arm(e, t).reqs = e.reqs /\ Arm(e, t).up = e.up /\ Arm(e, t).good = e.good
      /\ Arm(e, t).inflight = e.inflight /\ Arm(e, t).timers = e.timers \union {t}
      /\ Arm(e, t).fresh = IF e.queue = <<>> THEN e.fresh ELSE e.fresh \union {t}
  BY DEF Arm, Bases
<1> QED
  BY <1>1, <1>2, <1>3

\* The timer of a query.
LEMMA ArmGoes ==
    ASSUME NEW e \in Bases, NEW t \in DOMAIN e.reqs
    PROVE  Goes(Arm(e, t), e, {}, DOMAIN e.reqs)
<1>1. t \in TimerId /\ t \in Queries
  BY Timers, Fields
<1>2. /\ Arm(e, t) \in Bases /\ Same(Arm(e, t), e)
      /\ Arm(e, t).reqs = e.reqs /\ Arm(e, t).up = e.up /\ Arm(e, t).good = e.good
      /\ Arm(e, t).inflight = e.inflight /\ Arm(e, t).timers = e.timers \union {t}
      /\ Arm(e, t).fresh = IF e.queue = <<>> THEN e.fresh ELSE e.fresh \union {t}
  BY <1>1, ArmFields
<1>3. Counted(e) => Counted(Arm(e, t))
  <2>1. \A s : At(Arm(e, t), s) = At(e, s)
    BY <1>2 DEF At
  <2> QED
    BY <1>2, <2>1 DEF Counted
<1>4. (\A r \in Nat : t # Skew(r)) /\ \A s \in Servers : t # Prod(s)
  BY <1>1, NamesDiffer
<1>5. Due(e) => Due(Arm(e, t))
  BY <1>2 DEF Due
<1> QED
  BY <1>2, <1>3, <1>4, <1>5 DEF Goes

LEMMA MovedFacts ==
    ASSUME NEW count \in [Servers -> Int], NEW from \in Servers, NEW to \in Servers
    PROVE  /\ Moved(count, from, to) \in [Servers -> Int]
           /\ \A s \in Servers : Moved(count, from, to)[s] =
                count[s] - (IF s = from THEN 1 ELSE 0) + (IF s = to THEN 1 ELSE 0)
  BY DEF Moved

LEMMA SwapFields ==
    ASSUME NEW e \in Bases, NEW q \in DOMAIN e.reqs
    PROVE  /\ Swap(e, q) \in Bases /\ Same(Swap(e, q), e) /\ DOMAIN Swap(e, q).reqs = DOMAIN e.reqs
           /\ Swap(e, q).reqs[q].ns = Pick(e).ns
           /\ \A p \in DOMAIN e.reqs : p # q => Swap(e, q).reqs[p] = e.reqs[p]
           /\ Swap(e, q).inflight = Moved(e.inflight, e.reqs[q].ns, Pick(e).ns)
           /\ Swap(e, q).timers = e.timers /\ Swap(e, q).fresh = e.fresh
           /\ Swap(e, q).up = e.up /\ Swap(e, q).good = e.good
<1>1. Pick(e).ns \in Servers /\ Pick(e).head \in Servers
  BY PickFacts
<1>2. e.reqs[q] \in Req /\ e.reqs[q].ns \in Servers
  BY ReqFacts
<1>3. [e.reqs EXCEPT ![q].ns = Pick(e).ns] \in UNION {[D -> Req] : D \in SUBSET Queries}
  <2>1. [e.reqs[q] EXCEPT !.ns = Pick(e).ns] \in Req
    BY <1>1, <1>2 DEF Req
  <2> QED
    BY <2>1, ReqsType
<1>4. Moved(e.inflight, e.reqs[q].ns, Pick(e).ns) \in [Servers -> Int]
  BY <1>1, <1>2, MovedFacts, Fields
<1>5. Swap(e, q) \in Bases
  BY <1>1, <1>3, <1>4 DEF Swap, Bases
<1>6. Swap(e, q).reqs = [e.reqs EXCEPT ![q].ns = Pick(e).ns]
  BY DEF Swap, Bases
<1>7. Swap(e, q).reqs[q].ns = Pick(e).ns
  BY <1>2, <1>6 DEF Req
<1>8. Same(Swap(e, q), e)
  BY DEF Swap, Bases, Same
<1>9. /\ Swap(e, q).inflight = Moved(e.inflight, e.reqs[q].ns, Pick(e).ns)
      /\ Swap(e, q).timers = e.timers /\ Swap(e, q).fresh = e.fresh
      /\ Swap(e, q).up = e.up /\ Swap(e, q).good = e.good
  BY DEF Swap, Bases
<1> QED
  BY <1>5, <1>6, <1>7, <1>8, <1>9

\* The count of a server is that of its queries after one of them came or went.
LEMMA AtCount ==
    ASSUME NEW e \in Bases, NEW s, NEW q, NEW S
    PROVE  /\ S = At(e, s) \ {q} /\ q \in At(e, s) => Cardinality(S) = Cardinality(At(e, s)) - 1
           /\ S = At(e, s) \union {q} /\ q \notin At(e, s) => Cardinality(S) = Cardinality(At(e, s)) + 1
<1>1. IsFiniteSet(At(e, s)) /\ Cardinality(At(e, s)) \in Nat
  BY AtFinite
<1>2. q \in At(e, s) => Cardinality(At(e, s) \ {q}) = Cardinality(At(e, s)) - 1
  BY <1>1, FS_RemoveElement
<1>3. q \notin At(e, s) => Cardinality(At(e, s) \union {q}) = Cardinality(At(e, s)) + 1
  BY <1>1, FS_AddElement
<1> QED
  BY <1>2, <1>3

LEMMA SwapGoes ==
    ASSUME NEW e \in Bases, NEW q \in DOMAIN e.reqs
    PROVE  Goes(Swap(e, q), e, {}, DOMAIN e.reqs) /\ Swap(e, q).up = e.up
<1> DEFINE from == e.reqs[q].ns
           to == Pick(e).ns
<1>1. from \in Servers /\ to \in Servers /\ e.inflight \in [Servers -> Int]
  BY Fields, ReqFacts, PickFacts
<1>2. ASSUME Counted(e), NEW s \in Servers
      PROVE  Swap(e, q).inflight[s] = Cardinality(At(Swap(e, q), s))
  <2>1. e.inflight[s] = Cardinality(At(e, s)) /\ Cardinality(At(e, s)) \in Nat
    BY <1>2, AtFinite DEF Counted
  <2>2. Swap(e, q).inflight[s] = e.inflight[s] - (IF s = from THEN 1 ELSE 0) + (IF s = to THEN 1 ELSE 0)
    BY <1>1, SwapFields, MovedFacts
  <2>3. CASE (s # from /\ s # to) \/ from = to
    <3>1. At(Swap(e, q), s) = At(e, s)
      BY <2>3, SwapFields DEF At
    <3> QED
      BY <2>1, <2>2, <2>3, <3>1
  <2>4. CASE s = from /\ s # to
    <3>1. At(Swap(e, q), s) = At(e, s) \ {q} /\ q \in At(e, s)
      BY <2>4, SwapFields DEF At
    <3>2. Cardinality(At(Swap(e, q), s)) = Cardinality(At(e, s)) - 1
      BY <3>1, AtCount
    <3> QED
      BY <2>1, <2>2, <2>4, <3>2
  <2>5. CASE s # from /\ s = to
    <3>1. At(Swap(e, q), s) = At(e, s) \union {q} /\ q \notin At(e, s)
      BY <2>5, SwapFields DEF At
    <3>2. Cardinality(At(Swap(e, q), s)) = Cardinality(At(e, s)) + 1
      BY <3>1, AtCount
    <3> QED
      BY <2>1, <2>2, <2>5, <3>2
  <2> QED
    BY <2>3, <2>4, <2>5
<1>3. Counted(e) => Counted(Swap(e, q))
  BY <1>2, SwapFields DEF Counted
<1>4. Due(e) => Due(Swap(e, q))
  BY SwapFields DEF Due
<1> QED
  BY <1>3, <1>4, SwapFields DEF Goes

\* The queries of a failed server move, one by one.
LEMMA SwapFold ==
    ASSUME NEW e \in Bases, NEW S \in SUBSET DOMAIN e.reqs
    PROVE  Goes(SwapAll(e, S), e, {}, DOMAIN e.reqs) /\ SwapAll(e, S).up = e.up
<1> DEFINE Is(x) == Goes(x, e, {}, DOMAIN e.reqs) /\ x.up = e.up
           op(x, i) == Swap(x, i)
           pick(T) == CHOOSE s \in T : TRUE
           J == [T \in SUBSET S |-> {x \in Bases : Is(x)}]
           c == [T \in SUBSET S |-> pick(T)]
           F == [p \in S \X Bases |-> op(p[2], p[1])]
           it == CHOOSE f : f =
                     [T \in SUBSET S |-> IF T = {} THEN e ELSE op(f[T \ {pick(T)}], pick(T))]
<1>1. SwapAll(e, S) = it[S]
  BY DEF SwapAll, FoldSet, MapThenFoldSet
<1>2. IsFiniteSet(S)
  BY QueriesFinite, Fields, FS_Subset
<1>3. \A T \in SUBSET S : T # {} => c[T] \in T /\ c[T] = pick(T)
  OBVIOUS
<1>4. \A T \in SUBSET S : J[T] \subseteq Bases
  OBVIOUS
<1>5. \A i \in S, x \in Bases : F[<<i, x>>] = op(x, i)
  OBVIOUS
<1>6. e \in J[{}]
  BY GoesNowhere
<1>7. \A T \in SUBSET S : \A i \in S \ T : \A x \in J[T] : F[<<i, x>>] \in J[T \union {i}]
  <2> SUFFICES ASSUME NEW T \in SUBSET S, NEW i \in S \ T, NEW x \in J[T]
               PROVE  F[<<i, x>>] \in J[T \union {i}]
    OBVIOUS
  <2> HIDE DEF F
  <2>1. Is(x) /\ x \in Bases
    OBVIOUS
  <2>2. F[<<i, x>>] = op(x, i)
    BY <1>5, <2>1
  <2>3. i \in DOMAIN x.reqs /\ DOMAIN x.reqs = DOMAIN e.reqs
    BY <2>1 DEF Goes
  <2>4. Goes(Swap(x, i), x, {}, DOMAIN e.reqs) /\ Swap(x, i).up = e.up
    BY <2>1, <2>3, SwapGoes
  <2>5. Is(op(x, i)) /\ op(x, i) \in Bases
    <3>1. Goes(Swap(x, i), e, {}, DOMAIN e.reqs)
      BY <2>1, <2>4, GoesOn
    <3> QED
      BY <2>4, <3>1 DEF Goes
  <2>6. T \union {i} \in SUBSET S
    OBVIOUS
  <2> QED
    BY <2>2, <2>5, <2>6
<1>8. \A x : x \in J[S] => Is(x)
  OBVIOUS
<1> HIDE DEF op, pick, J, c, F, it, Is
<1>9. \A T \in SUBSET S : T # {} => c[T] \in T
  BY <1>3
<1>10. PICK g : FoldGraph(S, c, Bases, F, e, g)
  <2>1. FoldStep(S, c, Bases, J, F, e)
    BY <1>4, <1>6, <1>7, <1>9, Zenon DEF FoldStep
  <2> QED
    BY <1>2, <2>1, FoldExists, Zenon
<1>11. g \in [SUBSET S -> Bases] /\ \A T \in SUBSET S :
          g[T] = IF T = {} THEN e ELSE F[<<c[T], g[T \ {c[T]}]>>]
  BY <1>10, Zenon DEF FoldGraph
<1>12. it = [T \in SUBSET S |-> IF T = {} THEN e ELSE op(it[T \ {pick(T)}], pick(T))]
  <2>1. ASSUME NEW T \in SUBSET S, T # {}
        PROVE  g[T] = op(g[T \ {pick(T)}], pick(T))
    <3>1. c[T] \in S /\ T \ {c[T]} \in SUBSET S /\ c[T] = pick(T)
      BY <1>3, <2>1
    <3>2. g[T \ {c[T]}] \in Bases
      BY <1>11, <3>1
    <3>3. g[T] = F[<<c[T], g[T \ {c[T]}]>>]
      BY <1>11, <2>1
    <3>4. g[T] = op(g[T \ {c[T]}], c[T])
      BY <1>5, <3>1, <3>2, <3>3
    <3> QED
      BY <3>1, <3>4
  <2>2. g = [T \in SUBSET S |-> IF T = {} THEN e ELSE op(g[T \ {pick(T)}], pick(T))]
    <3>1. g[{}] = e
      BY <1>11
    <3>2. g = [T \in SUBSET S |-> g[T]]
      BY <1>11
    <3>3. \A T \in SUBSET S : g[T] = IF T = {} THEN e ELSE op(g[T \ {pick(T)}], pick(T))
      BY <3>1, <2>1
    <3> DEFINE R == [T \in SUBSET S |-> IF T = {} THEN e ELSE op(g[T \ {pick(T)}], pick(T))]
    <3>4. \A T \in SUBSET S : R[T] = g[T]
      BY <3>3
    <3>5. R = [T \in SUBSET S |-> R[T]]
      OBVIOUS
    <3> HIDE DEF R
    <3>6. g = R
      BY <3>2, <3>4, <3>5
    <3> QED
      BY <3>6 DEF R
  <2> DEFINE Q(f) == f = [T \in SUBSET S |-> IF T = {} THEN e ELSE op(f[T \ {pick(T)}], pick(T))]
  <2>3. Q(g)
    BY <2>2
  <2>4. it = CHOOSE f : Q(f)
    BY DEF it
  <2> HIDE DEF Q
  <2>5. Q(it)
    BY <2>3, <2>4, Zenon
  <2> QED
    BY <2>5 DEF Q
<1>13. it[{}] \in J[{}]
  <2>1. it[{}] = e
    BY <1>12
  <2> QED
    BY <1>6, <2>1
<1>14. ASSUME NEW T \in SUBSET S, T # {}, it[T \ {c[T]}] \in J[T \ {c[T]}]
       PROVE  it[T] \in J[T]
  <2>1. /\ c[T] \in S \ (T \ {c[T]}) /\ T \ {c[T]} \in SUBSET S
        /\ (T \ {c[T]}) \union {c[T]} = T /\ c[T] = pick(T)
    BY <1>3, <1>14
  <2>2. it[T \ {c[T]}] \in Bases
    BY <1>4, <1>14, <2>1
  <2>3. F[<<c[T], it[T \ {c[T]}]>>] \in J[T]
    BY <1>7, <1>14, <2>1
  <2>4. it[T] = op(it[T \ {c[T]}], c[T])
    BY <1>12, <1>14, <2>1
  <2>5. it[T] = F[<<c[T], it[T \ {c[T]}]>>]
    BY <1>5, <2>1, <2>2, <2>4
  <2> QED
    BY <2>3, <2>5
<1>15. it[S] \in J[S]
  BY <1>2, <1>9, <1>13, <1>14, FoldInduct
<1> QED
  BY <1>1, <1>8, <1>15 DEF Is

LEMMA FailedGoes ==
    ASSUME NEW e \in Bases, NEW s \in Servers
    PROVE  Goes(Failed(e, s), e, {}, DOMAIN e.reqs)
<1>1. CASE s \notin e.up
  <2>1. Failed(e, s) = e
    BY <1>1 DEF Failed
  <2> QED
    BY <2>1, GoesNowhere
<1>2. CASE s \in e.up
  <2> DEFINE a == Arm(e, Prod(s))
             d == [a EXCEPT !.up = @ \ {s}, !.good = @ - 1]
             m == IF d.good = 0 THEN d ELSE SwapAll(d, Unsent(e, s))
  <2>1. Failed(e, s) = m
    <3>1. Failed(e, s) = Then(d, LAMBDA x : IF x.good = 0 THEN x ELSE SwapAll(x, Unsent(e, s)))
      BY <1>2 DEF Failed
    <3> HIDE DEF d
    <3> QED
      BY <3>1 DEF Then
  <2>2. /\ a \in Bases /\ Same(a, e) /\ a.reqs = e.reqs /\ a.up = e.up /\ a.good = e.good
        /\ a.inflight = e.inflight /\ a.timers = e.timers \union {Prod(s)}
        /\ a.fresh = IF e.queue = <<>> THEN e.fresh ELSE e.fresh \union {Prod(s)}
    BY Timers, ArmFields
  <2> HIDE DEF a
  <2>3. d \in Bases /\ Same(d, a)
    <3>1. a \in Bases /\ a.up \ {s} \in SUBSET Servers /\ a.good - 1 \in Int
      BY <2>2, Fields
    <3>2. d \in Bases
      BY <3>1 DEF Bases
    <3> QED
      BY <3>1, <3>2 DEF Bases, Same
  <2>4. /\ d.reqs = a.reqs /\ d.timers = a.timers /\ d.fresh = a.fresh /\ d.up = a.up \ {s}
        /\ d.good = a.good - 1 /\ d.inflight = a.inflight
    BY <2>2 DEF Bases
  <2> HIDE DEF d
  <2>5. Counted(e) => Counted(d)
    <3>1. IsFiniteSet(a.up)
      BY <2>2, Fields, ServersFinite, FS_Subset
    <3>2. Cardinality(a.up \ {s}) = Cardinality(a.up) - 1
      BY <1>2, <2>2, <3>1, FS_RemoveElement
    <3>3. \A r : At(d, r) = At(e, r)
      BY <2>2, <2>4 DEF At
    <3> QED
      BY <2>2, <2>4, <3>2, <3>3 DEF Counted
  <2>6. Same(d, e) /\ \A r \in Nat : Skew(r) # Prod(s)
    BY <2>2, <2>3 DEF Same, Skew, Prod
  <2>7. \A r \in Servers : Prod(r) = Prod(s) => r = s
    BY NamesDiffer
  <2>8. Due(e) => Due(d)
    BY <2>2, <2>4, NamesDiffer DEF Due
  <2>9. Goes(d, e, {}, DOMAIN e.reqs)
    BY <1>2, <2>2, <2>3, <2>4, <2>5, <2>6, <2>7, <2>8 DEF Goes
  <2>10. Unsent(e, s) \in SUBSET DOMAIN d.reqs /\ DOMAIN d.reqs = DOMAIN e.reqs
    BY <2>2, <2>4 DEF Unsent
  <2>11. Goes(m, d, {}, DOMAIN e.reqs)
    BY <2>3, <2>10, SwapFold, GoesNowhere
  <2> HIDE DEF m
  <2> QED
    BY <2>1, <2>9, <2>11, GoesOn
<1> QED
  BY <1>1, <1>2

\* The query is marked as sent to s.
LEMMA SentGoes ==
    ASSUME NEW e \in Bases, NEW q \in DOMAIN e.reqs, NEW S \in SUBSET Servers
    PROVE  /\ Goes([e EXCEPT !.reqs[q].sent = S], e, {}, DOMAIN e.reqs)
           /\ [e EXCEPT !.reqs[q].sent = S].up = e.up
<1> DEFINE v == [e.reqs[q] EXCEPT !.sent = S]
           d == [e EXCEPT !.reqs[q].sent = S]
<1>1. v \in Req /\ v.ns = e.reqs[q].ns
  BY ReqFacts DEF Req
<1>2. [e.reqs EXCEPT ![q] = v] \in UNION {[D -> Req] : D \in SUBSET Queries}
  BY <1>1, ReqsType
<1>3. d \in Bases
  BY <1>2 DEF Bases
<1>4. /\ d.timers = e.timers /\ d.fresh = e.fresh
      /\ d.up = e.up /\ d.good = e.good /\ d.inflight = e.inflight
  BY DEF Bases
<1>5. Same(d, e)
  BY DEF Same, Bases
<1>6. d.reqs = [e.reqs EXCEPT ![q] = v]
  BY DEF Bases
<1> HIDE DEF d, v
<1>7. DOMAIN d.reqs = DOMAIN e.reqs /\ \A p \in DOMAIN e.reqs : d.reqs[p].ns = e.reqs[p].ns
  BY <1>1, <1>6
<1>8. Goes(d, e, {}, DOMAIN e.reqs) /\ d.up = e.up
  BY <1>3, <1>4, <1>5, <1>7, GoesOnly
<1> QED
  BY <1>8 DEF d

\* The query is counted as tried so many times.
LEMMA TriedGoes ==
    ASSUME NEW e \in Bases, NEW q \in DOMAIN e.reqs, NEW n \in Nat
    PROVE  /\ Goes([e EXCEPT !.reqs[q].tx = n], e, {}, DOMAIN e.reqs)
           /\ [e EXCEPT !.reqs[q].tx = n].up = e.up /\ [e EXCEPT !.reqs[q].tx = n].timers = e.timers
<1> DEFINE v == [e.reqs[q] EXCEPT !.tx = n]
           d == [e EXCEPT !.reqs[q].tx = n]
<1>1. v \in Req /\ v.ns = e.reqs[q].ns
  BY ReqFacts DEF Req
<1>2. [e.reqs EXCEPT ![q] = v] \in UNION {[D -> Req] : D \in SUBSET Queries}
  BY <1>1, ReqsType
<1>3. d \in Bases
  BY <1>2 DEF Bases
<1>4. /\ d.timers = e.timers /\ d.fresh = e.fresh
      /\ d.up = e.up /\ d.good = e.good /\ d.inflight = e.inflight
  BY DEF Bases
<1>5. Same(d, e)
  BY DEF Same, Bases
<1>6. d.reqs = [e.reqs EXCEPT ![q] = v]
  BY DEF Bases
<1> HIDE DEF d, v
<1>7. DOMAIN d.reqs = DOMAIN e.reqs /\ \A p \in DOMAIN e.reqs : d.reqs[p].ns = e.reqs[p].ns
  BY <1>1, <1>6
<1>8. Goes(d, e, {}, DOMAIN e.reqs) /\ d.up = e.up /\ d.timers = e.timers
  BY <1>3, <1>4, <1>5, <1>7, GoesOnly
<1> QED
  BY <1>8 DEF d

LEMMA TransmitGoes ==
    ASSUME NEW e \in Bases, NEW q \in DOMAIN e.reqs
    PROVE  /\ Goes(Transmit(e, q), e, {}, DOMAIN e.reqs) /\ q \in Transmit(e, q).timers
           /\ e.broken = {} => Transmit(e, q).up = e.up
<1> DEFINE s == e.reqs[q].ns
           sent == [e EXCEPT !.reqs[q].sent = e.reqs[q].sent \union {s}]
           tried == IF s \in e.broken THEN Failed(e, s) ELSE sent
           a == Arm(tried, q)
           d == [a EXCEPT !.reqs[q].tx = a.reqs[q].tx + 1]
<1>1. Transmit(e, q) = d
  BY Zenon DEF Transmit, Then
<1>2. s \in Servers /\ q \in Queries /\ e.reqs[q].sent \union {s} \in SUBSET Servers
  BY ReqFacts
<1>3. Goes(sent, e, {}, DOMAIN e.reqs) /\ sent.up = e.up
  BY <1>2, SentGoes
<1>4. Goes(tried, e, {}, DOMAIN e.reqs) /\ (e.broken = {} => tried.up = e.up)
  <2> HIDE DEF sent, s
  <2> QED
    BY <1>2, <1>3, FailedGoes
<1> HIDE DEF tried
<1>5. tried \in Bases /\ DOMAIN tried.reqs = DOMAIN e.reqs
  BY <1>4 DEF Goes
<1>6. Goes(a, tried, {}, DOMAIN e.reqs)
  BY <1>2, <1>5, ArmGoes
<1>7. a \in Bases /\ a.reqs = tried.reqs /\ a.up = tried.up /\ q \in a.timers
  BY <1>2, <1>5, ArmFields, Timers, ZenonT(60)
<1> HIDE DEF a
<1>8. a.reqs[q].tx + 1 \in Nat /\ q \in DOMAIN a.reqs /\ DOMAIN a.reqs = DOMAIN e.reqs
  BY <1>5, <1>7, ReqFacts
<1>9. Goes(d, a, {}, DOMAIN e.reqs) /\ d.up = a.up /\ d.timers = a.timers
  BY <1>7, <1>8, TriedGoes
<1> HIDE DEF d
<1>10. Goes(d, e, {}, DOMAIN e.reqs)
  BY <1>4, <1>6, <1>9, GoesOn
<1> QED
  BY <1>1, <1>4, <1>7, <1>9, <1>10, SMTT(40)

\* The count of time-outs of a server.
LEMMA CountGoes ==
    ASSUME NEW e \in Bases, NEW s \in Servers, NEW n \in Nat
    PROVE  /\ Goes([e EXCEPT !.timedout[s] = n], e, {}, DOMAIN e.reqs)
           /\ [e EXCEPT !.timedout[s] = n].reqs = e.reqs /\ [e EXCEPT !.timedout[s] = n].up = e.up
<1> DEFINE d == [e EXCEPT !.timedout[s] = n]
<1>1. d \in Bases
  BY DEF Bases
<1>2. /\ d.timers = e.timers /\ d.fresh = e.fresh /\ d.reqs = e.reqs
      /\ d.up = e.up /\ d.good = e.good /\ d.inflight = e.inflight
  BY DEF Bases
<1>3. Same(d, e)
  BY DEF Same, Bases
<1> HIDE DEF d
<1>4. Goes(d, e, {}, DOMAIN e.reqs)
  BY <1>1, <1>2, <1>3, GoesOnly
<1> QED
  BY <1>2, <1>4 DEF d

LEMMA BlamedGoes ==
    ASSUME NEW e \in Bases, NEW q \in DOMAIN e.reqs
    PROVE  Goes(Blamed(e, q), e, {}, DOMAIN e.reqs)
<1> DEFINE s == e.reqs[q].ns
           count == e.timedout[s] + 1
           none == [e EXCEPT !.timedout[s] = 0]
           more == [e EXCEPT !.timedout[s] = count]
<1>1. s \in Servers /\ count \in Nat
  BY ReqFacts, Fields
<1>2. Blamed(e, q) = IF count > MaxNameserverTimeout THEN Failed(none, s) ELSE more
  BY DEF Blamed
<1>3. Goes(none, e, {}, DOMAIN e.reqs) /\ Goes(more, e, {}, DOMAIN e.reqs) /\ none.reqs = e.reqs
  BY <1>1, CountGoes
<1> HIDE DEF none, more, s, count
<1>4. Goes(Failed(none, s), none, {}, DOMAIN e.reqs)
  BY <1>1, <1>3, FailedGoes DEF Goes
<1>5. Goes(Failed(none, s), e, {}, DOMAIN e.reqs)
  BY <1>3, <1>4, GoesOn
<1> QED
  BY <1>2, <1>3, <1>5

-----------------------------------------------------------------------------
(* Queries come and go. *)

LEMMA DisarmFields ==
    ASSUME NEW e \in Bases, NEW t
    PROVE  /\ Disarm(e, t) \in Bases /\ Same(Disarm(e, t), e)
           /\ Disarm(e, t).reqs = e.reqs /\ Disarm(e, t).up = e.up /\ Disarm(e, t).good = e.good
           /\ Disarm(e, t).inflight = e.inflight
           /\ Disarm(e, t).timers = e.timers \ {t} /\ Disarm(e, t).fresh = e.fresh \ {t}
<1>1. Disarm(e, t) \in Bases
  BY DEF Disarm, Bases
<1>2. Same(Disarm(e, t), e)
  BY DEF Disarm, Bases, Same
<1>3. /\ Disarm(e, t).reqs = e.reqs /\ Disarm(e, t).up = e.up /\ Disarm(e, t).good = e.good
      /\ Disarm(e, t).inflight = e.inflight
      /\ Disarm(e, t).timers = e.timers \ {t} /\ Disarm(e, t).fresh = e.fresh \ {t}
  BY DEF Disarm, Bases
<1> QED
  BY <1>1, <1>2, <1>3

LEMMA DisarmGoes ==
    ASSUME NEW e \in Bases, NEW q
    PROVE  Goes(Disarm(e, q), e, {q}, DOMAIN e.reqs)
<1>1. \A s : At(Disarm(e, q), s) = At(e, s)
  BY DisarmFields DEF At
<1>2. Counted(e) => Counted(Disarm(e, q))
  BY <1>1, DisarmFields DEF Counted
<1>3. Due(e) => Due(Disarm(e, q))
  BY DisarmFields DEF Due
<1> QED
  BY <1>2, <1>3, DisarmFields DEF Goes

LEMMA FinishedFields ==
    ASSUME NEW e \in Bases, NEW q \in DOMAIN e.reqs
    PROVE  /\ Finished(e, q) \in Bases /\ Same(Finished(e, q), e)
           /\ DOMAIN Finished(e, q).reqs = DOMAIN e.reqs \ {q}
           /\ \A p \in DOMAIN e.reqs \ {q} : Finished(e, q).reqs[p] = e.reqs[p]
           /\ \A s \in Servers : Finished(e, q).inflight[s] =
                e.inflight[s] - (IF s = e.reqs[q].ns THEN 1 ELSE 0)
           /\ Finished(e, q).timers = e.timers \ {q} /\ Finished(e, q).fresh = e.fresh \ {q}
           /\ Finished(e, q).up = e.up /\ Finished(e, q).good = e.good
<1> DEFINE d == Disarm(e, q)
           n == e.reqs[q].ns
           R == Restrict(e.reqs, DOMAIN e.reqs \ {q})
           f == [d EXCEPT !.inflight[n] = @ - 1, !.reqs = Restrict(@, DOMAIN @ \ {q})]
<1>1. /\ d \in Bases /\ Same(d, e) /\ d.reqs = e.reqs /\ d.up = e.up /\ d.good = e.good
      /\ d.inflight = e.inflight /\ d.timers = e.timers \ {q} /\ d.fresh = e.fresh \ {q}
  BY DisarmFields
<1>2. Finished(e, q) = f
  BY DEF Finished
<1>3. n \in Servers /\ e.inflight \in [Servers -> Int]
  BY ReqFacts, Fields
<1>4. DOMAIN R = DOMAIN e.reqs \ {q} /\ \A p \in DOMAIN e.reqs \ {q} : R[p] = e.reqs[p]
  BY DEF Restrict
<1>5. R \in UNION {[D -> Req] : D \in SUBSET Queries}
  <2>1. R \in [DOMAIN e.reqs \ {q} -> Req] /\ DOMAIN e.reqs \ {q} \in SUBSET Queries
    BY Fields DEF Restrict
  <2> QED
    BY <2>1
<1> HIDE DEF d, n, R
<1>6. f.reqs = R
  BY <1>1 DEF Bases, R
<1>7. f.inflight = [e.inflight EXCEPT ![n] = @ - 1]
  BY <1>1 DEF Bases
<1>8. f.inflight \in [Servers -> Int]
  <2>1. [e.inflight EXCEPT ![n] = @ - 1] \in [Servers -> Int]
    BY <1>3
  <2> HIDE DEF f
  <2> QED
    BY <1>7, <2>1
<1>9. f \in Bases
  BY <1>1, <1>5, <1>6, <1>8 DEF Bases
<1>10. Same(f, d)
  BY <1>1 DEF Bases, Same
<1>11. f.timers = d.timers /\ f.fresh = d.fresh /\ f.up = d.up /\ f.good = d.good
  BY <1>1 DEF Bases
<1> HIDE DEF f
<1>12. \A s \in Servers : f.inflight[s] = e.inflight[s] - (IF s = n THEN 1 ELSE 0)
  BY <1>3, <1>7
<1>13. Same(f, e)
  BY <1>1, <1>10 DEF Same
<1> QED
  BY <1>1, <1>2, <1>4, <1>6, <1>9, <1>11, <1>12, <1>13 DEF n

LEMMA FinishedGoes ==
    ASSUME NEW e \in Bases, NEW q \in DOMAIN e.reqs
    PROVE  Goes(Finished(e, q), e, {q}, DOMAIN e.reqs \ {q}) /\ Finished(e, q).up = e.up
<1> DEFINE n == e.reqs[q].ns
<1>1. n \in Servers /\ e.inflight \in [Servers -> Int]
  BY ReqFacts, Fields
<1>2. ASSUME Counted(e), NEW s \in Servers
      PROVE  Finished(e, q).inflight[s] = Cardinality(At(Finished(e, q), s))
  <2>1. e.inflight[s] = Cardinality(At(e, s)) /\ Cardinality(At(e, s)) \in Nat
    BY <1>2, AtFinite DEF Counted
  <2>2. Finished(e, q).inflight[s] = e.inflight[s] - (IF s = n THEN 1 ELSE 0)
    BY FinishedFields
  <2>3. CASE s # n
    <3>1. At(Finished(e, q), s) = At(e, s)
      BY <2>3, FinishedFields DEF At
    <3> QED
      BY <2>1, <2>2, <2>3, <3>1
  <2>4. CASE s = n
    <3>1. At(Finished(e, q), s) = At(e, s) \ {q} /\ q \in At(e, s)
      BY <2>4, FinishedFields DEF At
    <3>2. Cardinality(At(Finished(e, q), s)) = Cardinality(At(e, s)) - 1
      BY <3>1, AtCount
    <3> QED
      BY <2>1, <2>2, <2>4, <3>2
  <2> QED
    BY <2>3, <2>4
<1>3. Counted(e) => Counted(Finished(e, q))
  BY <1>2, FinishedFields DEF Counted
<1>4. Due(e) => Due(Finished(e, q))
  BY FinishedFields DEF Due
<1> QED
  BY <1>3, <1>4, FinishedFields DEF Goes

Placed(e, q, s, new) == [e EXCEPT !.inflight[s] = @ + 1, !.reqs = Put(@, q, new)]

\* A query that is not out yet is put among those that are.
LEMMA PutGoes ==
    ASSUME NEW e \in Bases, NEW q \in Queries \ DOMAIN e.reqs, NEW s \in Servers, NEW new \in Req, new.ns = s
    PROVE  /\ Goes(Placed(e, q, s, new), e, {}, DOMAIN e.reqs \union {q})
           /\ Placed(e, q, s, new).up = e.up
<1> DEFINE R == Put(e.reqs, q, new)
           d == Placed(e, q, s, new)
<1> USE DEF Placed
<1>1. /\ DOMAIN R = DOMAIN e.reqs \union {q} /\ R[q] = new
      /\ \A p \in DOMAIN e.reqs : R[p] = e.reqs[p]
  BY DEF Put
<1>2. R \in UNION {[D -> Req] : D \in SUBSET Queries}
  <2>1. R \in [DOMAIN e.reqs \union {q} -> Req]
    BY Fields DEF Put
  <2>2. DOMAIN e.reqs \union {q} \in SUBSET Queries
    BY Fields
  <2> QED
    BY <2>1, <2>2
<1>3. d.reqs = R
  BY DEF Bases
<1> HIDE DEF R
<1>4. d.inflight = [e.inflight EXCEPT ![s] = @ + 1]
  BY DEF Bases
<1>5. e.inflight \in [Servers -> Int]
  BY Fields
<1>6. d.inflight \in [Servers -> Int]
  BY <1>4, <1>5
<1>7. d \in Bases
  BY <1>2, <1>3, <1>6 DEF Bases
<1>8. Same(d, e)
  BY DEF Bases, Same
<1>9. d.timers = e.timers /\ d.fresh = e.fresh /\ d.up = e.up /\ d.good = e.good
  BY DEF Bases
<1> HIDE DEF d
<1>10. ASSUME Counted(e), NEW r \in Servers PROVE d.inflight[r] = Cardinality(At(d, r))
  <2>1. e.inflight[r] = Cardinality(At(e, r)) /\ Cardinality(At(e, r)) \in Nat
    BY <1>10, AtFinite DEF Counted
  <2>2. CASE r # s
    <3>1. At(d, r) = At(e, r)
      BY <1>1, <1>3, <2>2 DEF At
    <3> QED
      BY <1>4, <1>5, <2>1, <2>2, <3>1
  <2>3. CASE r = s
    <3>1. At(d, r) = At(e, r) \union {q} /\ q \notin At(e, r)
      BY <1>1, <1>3, <2>3 DEF At
    <3>2. Cardinality(At(d, r)) = Cardinality(At(e, r)) + 1
      BY <3>1, AtCount
    <3> QED
      BY <1>4, <1>5, <2>1, <2>3, <3>2
  <2> QED
    BY <2>2, <2>3
<1>11. Counted(e) => Counted(d)
  BY <1>9, <1>10 DEF Counted
<1>12. Due(e) => Due(d)
  BY <1>1, <1>3, <1>9 DEF Due
<1>13. Goes(d, e, {}, DOMAIN e.reqs \union {q}) /\ d.up = e.up
  BY <1>1, <1>3, <1>7, <1>8, <1>9, <1>11, <1>12 DEF Goes
<1> QED
  BY <1>13 DEF d

LEMMA SubmitGoes ==
    ASSUME NEW e \in Bases, NEW q \in Queries \ DOMAIN e.reqs, NEW s \in Servers, NEW names \in Nat \ {0}
    PROVE  /\ Goes(Submit(e, q, s, names), e, {}, DOMAIN e.reqs \union {q})
           /\ q \in Submit(e, q, s, names).timers
           /\ e.broken = {} => Submit(e, q, s, names).up = e.up
<1> DEFINE new == [ns |-> s, tx |-> 0, reissues |-> 0, names |-> names, sent |-> {}]
           d == [e EXCEPT !.inflight[s] = @ + 1, !.reqs = Put(@, q, new)]
<1>1. Submit(e, q, s, names) = Transmit(d, q)
  <2>1. Submit(e, q, s, names) = Then(d, LAMBDA x : Transmit(x, q))
    BY DEF Submit
  <2> HIDE DEF d
  <2> QED
    BY <2>1 DEF Then
<1>2. new \in Req /\ new.ns = s
  BY DEF Req
<1>3. Goes(d, e, {}, DOMAIN e.reqs \union {q}) /\ d.up = e.up
  <2> HIDE DEF new
  <2>1. d = Placed(e, q, s, new)
    BY DEF Placed
  <2> HIDE DEF d
  <2> QED
    BY <1>2, <2>1, PutGoes
<1> HIDE DEF d
<1>4. d \in Bases /\ q \in DOMAIN d.reqs /\ DOMAIN d.reqs = DOMAIN e.reqs \union {q} /\ d.broken = e.broken
  BY <1>3 DEF Goes, Same
<1>5. /\ Goes(Transmit(d, q), d, {}, DOMAIN e.reqs \union {q}) /\ q \in Transmit(d, q).timers
      /\ d.broken = {} => Transmit(d, q).up = d.up
  BY <1>4, TransmitGoes
<1>6. Goes(Transmit(d, q), e, {}, DOMAIN e.reqs \union {q})
  BY <1>3, <1>5, GoesOn
<1> QED
  BY <1>1, <1>3, <1>4, <1>5, <1>6

LEMMA HeadGoes ==
    ASSUME NEW e \in Bases, NEW h \in Servers
    PROVE  /\ Goes([e EXCEPT !.head = h], e, {}, DOMAIN e.reqs)
           /\ [e EXCEPT !.head = h].reqs = e.reqs /\ [e EXCEPT !.head = h].up = e.up
<1> DEFINE d == [e EXCEPT !.head = h]
<1>1. d \in Bases
  BY DEF Bases
<1>2. /\ d.timers = e.timers /\ d.fresh = e.fresh /\ d.reqs = e.reqs
      /\ d.up = e.up /\ d.good = e.good /\ d.inflight = e.inflight
  BY DEF Bases
<1>3. Same(d, e)
  BY DEF Same, Bases
<1> HIDE DEF d
<1>4. Goes(d, e, {}, DOMAIN e.reqs)
  BY <1>1, <1>2, <1>3, GoesOnly
<1> QED
  BY <1>2, <1>4 DEF d

LEMMA AskGoes ==
    ASSUME NEW e \in Bases, NEW q \in Queries \ DOMAIN e.reqs, NEW names \in Nat \ {0}
    PROVE  /\ Goes(Ask(e, q, names), e, {}, DOMAIN e.reqs \union {q}) /\ q \in Ask(e, q, names).timers
           /\ e.broken = {} => Ask(e, q, names).up = e.up
<1> DEFINE to == Pick(e)
           d == [e EXCEPT !.head = to.head]
<1>1. to.ns \in Servers /\ to.head \in Servers
  BY PickFacts
<1>2. Ask(e, q, names) = Submit(d, q, to.ns, names)
  <2>1. Ask(e, q, names) = Then(d, LAMBDA x : Submit(x, q, to.ns, names))
    BY DEF Ask
  <2> HIDE DEF d, to
  <2> QED
    BY <2>1 DEF Then
<1> HIDE DEF to
<1>3. Goes(d, e, {}, DOMAIN e.reqs) /\ d.reqs = e.reqs /\ d.up = e.up
  BY <1>1, HeadGoes
<1> HIDE DEF d
<1>4. d \in Bases /\ q \in Queries \ DOMAIN d.reqs /\ d.broken = e.broken
  BY <1>3 DEF Goes, Same
<1>5. /\ Goes(Submit(d, q, to.ns, names), d, {}, DOMAIN e.reqs \union {q})
      /\ q \in Submit(d, q, to.ns, names).timers
      /\ d.broken = {} => Submit(d, q, to.ns, names).up = d.up
  BY <1>1, <1>3, <1>4, SubmitGoes, SMTT(40)
<1>6. Goes(Submit(d, q, to.ns, names), e, {}, DOMAIN e.reqs \union {q})
  BY <1>3, <1>5, GoesOn
<1> QED
  BY <1>2, <1>3, <1>4, <1>5, <1>6

LEMMA TryNextGoes ==
    ASSUME NEW e \in Bases, NEW q \in DOMAIN e.reqs, e.reqs[q].names > 1
    PROVE  /\ Goes(TryNext(e, q), e, {q}, DOMAIN e.reqs) /\ q \in TryNext(e, q).timers
           /\ e.broken = {} => TryNext(e, q).up = e.up
<1> DEFINE to == Pick(e)
           d == [e EXCEPT !.head = to.head]
           f == Finished(d, q)
           names == e.reqs[q].names - 1
<1>1. to.ns \in Servers /\ to.head \in Servers
  BY PickFacts
<1>2. q \in Queries /\ {q} \in SUBSET Queries /\ names \in Nat \ {0}
  BY ReqFacts
<1>3. TryNext(e, q) = Submit(f, q, to.ns, names)
  <2>1. TryNext(e, q) = Then(f, LAMBDA x : Submit(x, q, to.ns, names))
    BY DEF TryNext
  <2> HIDE DEF f, to, names
  <2> QED
    BY <2>1 DEF Then
<1> HIDE DEF to, names
<1>4. Goes(d, e, {}, DOMAIN e.reqs) /\ d.reqs = e.reqs /\ d.up = e.up
  BY <1>1, HeadGoes
<1> HIDE DEF d
<1>5. d \in Bases /\ d.broken = e.broken
  BY <1>4 DEF Goes, Same
<1>6. Goes(f, d, {q}, DOMAIN e.reqs \ {q}) /\ f.up = d.up
  BY <1>4, <1>5, FinishedGoes
<1> HIDE DEF f
<1>7. f \in Bases /\ f.broken = e.broken /\ DOMAIN f.reqs = DOMAIN e.reqs \ {q}
  BY <1>5, <1>6 DEF Goes, Same
<1> DEFINE g == Submit(f, q, to.ns, names)
<1>8. /\ Goes(g, f, {}, (DOMAIN e.reqs \ {q}) \union {q}) /\ q \in g.timers
      /\ f.broken = {} => g.up = f.up
  BY <1>1, <1>2, <1>7, SubmitGoes
<1> HIDE DEF g
<1>9. (DOMAIN e.reqs \ {q}) \union {q} = DOMAIN e.reqs
  OBVIOUS
<1>10. Goes(g, d, {q}, DOMAIN e.reqs)
  BY <1>6, <1>8, <1>9, GoesOn
<1>11. Goes(g, e, {q}, DOMAIN e.reqs)
  BY <1>2, <1>4, <1>10, GoesOver
<1> QED
  BY <1>3, <1>4, <1>6, <1>7, <1>8, <1>11 DEF g

-----------------------------------------------------------------------------
(* Queries end. *)

LEMMA ScheduleFields ==
    ASSUME NEW e \in Bases, NEW q \in Queries, NEW res \in Ends
    PROVE  LET d == Schedule(e, q, res)
               n == Len(e.queue) + 1
           IN  /\ d \in Bases /\ Kin(d, e) /\ d.probing = e.probing /\ d.reqs = e.reqs /\ d.timers = e.timers
               /\ d.fresh = e.fresh /\ d.up = e.up /\ d.good = e.good /\ d.inflight = e.inflight
               /\ Len(e.queue) \in Nat /\ Len(d.queue) = n
               /\ \A i \in 1..Len(e.queue) : d.queue[i] = e.queue[i]
               /\ d.queue[n].base = e.base /\ d.queue[n].q = q /\ d.queue[n].res = res
<1> DEFINE d == Schedule(e, q, res)
           c == [base |-> e.base, q |-> q, res |-> res]
<1>1. c \in Call /\ e.queue \in Seq(Call)
  BY Fields DEF Call
<1>2. d.queue = Append(e.queue, c)
  BY DEF Schedule, Bases
<1>3. Append(e.queue, c) \in Seq(Call)
  BY <1>1
<1>4. d \in Bases
  BY <1>3 DEF Schedule, Bases
<1>5. /\ d.base = e.base /\ d.lookups = e.lookups /\ d.broken = e.broken
      /\ d.probing = e.probing /\ d.reqs = e.reqs /\ d.timers = e.timers
      /\ d.fresh = e.fresh /\ d.up = e.up /\ d.good = e.good /\ d.inflight = e.inflight
  BY DEF Schedule, Bases
<1>6. c.base = e.base /\ c.q = q /\ c.res = res
  OBVIOUS
<1> HIDE DEF d, c
<1>7. Len(e.queue) \in Nat
  BY <1>1
<1>8. /\ Len(d.queue) = Len(e.queue) + 1 /\ d.queue[Len(e.queue) + 1] = c
      /\ \A i \in 1..Len(e.queue) : d.queue[i] = e.queue[i]
  BY <1>1, <1>2, AppendFacts
<1> QED
  BY <1>4, <1>5, <1>6, <1>7, <1>8 DEF d, Kin

LEMMA ScheduleKeeps ==
    ASSUME NEW e, NEW X, NEW Y, DnsInv(e, X, Y), NEW q \in DOMAIN e.reqs \ X, NEW res \in Ends
    PROVE  DnsInv(Schedule(e, q, res), X \union {q}, Y)
<1> DEFINE d == Schedule(e, q, res)
           n == Len(e.queue) + 1
<1>1. e \in Bases /\ q \in Queries
  BY ReqFacts DEF DnsInv
<1>2. /\ d \in Bases /\ Kin(d, e) /\ d.probing = e.probing /\ d.reqs = e.reqs /\ d.timers = e.timers
      /\ d.fresh = e.fresh /\ d.up = e.up /\ d.good = e.good /\ d.inflight = e.inflight
      /\ Len(e.queue) \in Nat /\ Len(d.queue) = n
      /\ \A i \in 1..Len(e.queue) : d.queue[i] = e.queue[i]
      /\ d.queue[n].base = e.base /\ d.queue[n].q = q /\ d.queue[n].res = res
  BY <1>1, ScheduleFields
<1> HIDE DEF d
<1>3. d.base = e.base /\ d.lookups = e.lookups
  BY <1>2 DEF Kin
<1>4. \A i \in 1..Len(d.queue) : i \in 1..Len(e.queue) \/ i = n
  BY <1>2
<1>5. \A i \in 1..Len(e.queue) : i \in 1..Len(d.queue) /\ i # n
  BY <1>2
<1>6. n \in 1..Len(d.queue)
  BY <1>2
<1> HIDE DEF n
<1>7. Counted(d)
  <2>1. \A s : At(d, s) = At(e, s)
    BY <1>2 DEF At
  <2> QED
    BY <1>2, <2>1 DEF Counted, DnsInv
<1>8. Timed(d)
  BY <1>2 DEF Timed, Due, DnsInv
<1>9. Watched(d, Y)
  <2> SUFFICES ASSUME NEW s \in Servers \ (d.up \union Y) PROVE Returning(d, s)
    BY DEF Watched
  <2>1. Returning(e, s)
    BY <1>2 DEF DnsInv, Watched
  <2>2. ASSUME NEW i \in 1..Len(e.queue), Sees(e, i, s) PROVE i \in 1..Len(d.queue) /\ Sees(d, i, s)
    BY <1>2, <1>3, <1>5, <2>2 DEF Sees
  <2> QED
    BY <1>2, <2>1, <2>2 DEF Returning
<1>10. Probed(d, X \union {q})
  <2>1. ASSUME NEW s \in Servers, Probe(s) \in DOMAIN d.reqs \ (X \union {q})
        PROVE  s \notin d.up /\ s \in d.probing /\ Prod(s) \notin d.timers
    BY <1>2, <2>1 DEF DnsInv, Probed
  <2>2. ASSUME NEW s \in Servers, NEW i \in 1..Len(d.queue), Sees(d, i, s)
        PROVE  /\ Probe(s) \notin DOMAIN d.reqs \ (X \union {q})
               /\ Prod(s) \in d.timers => Prod(s) \in d.fresh
    <3>1. CASE i \in 1..Len(e.queue)
      <4>1. Sees(e, i, s)
        BY <1>2, <1>3, <2>2, <3>1 DEF Sees
      <4> QED
        BY <1>2, <3>1, <4>1 DEF DnsInv, Probed
    <3>2. CASE i = n
      <4>1. Probe(s) = q
        BY <1>2, <2>2, <3>2 DEF Sees
      <4>2. Prod(s) \notin e.timers
        BY <4>1 DEF DnsInv, Probed
      <4> QED
        BY <1>2, <4>1, <4>2
    <3> QED
      BY <1>4, <3>1, <3>2
  <2>3. \A s \in Servers : Prod(s) \in d.timers => s \notin d.up
    BY <1>2 DEF DnsInv, Probed
  <2> QED
    BY <2>1, <2>2, <2>3 DEF Probed
<1>11. Calls(d, X \union {q})
  <2>1. Calls(e, X)
    BY DEF DnsInv
  <2>2. ASSUME NEW i \in 1..Len(e.queue), e.queue[i].q \in Asked
        PROVE  CallOk(e, i, X) /\ ~(e.queue[i].base = e.base /\ e.queue[i].q = q)
    <3>1. CallOk(e, i, X)
      BY <2>1, <2>2 DEF Calls
    <3> QED
      BY <3>1 DEF CallOk
  <2>3. ASSUME NEW i \in 1..Len(d.queue), d.queue[i].q \in Asked PROVE CallOk(d, i, X \union {q})
    <3>1. CASE i \in 1..Len(e.queue)
      <4>1. CallOk(e, i, X) /\ ~(e.queue[i].base = e.base /\ e.queue[i].q = q) /\ d.queue[i] = e.queue[i]
        BY <1>2, <2>2, <2>3, <3>1
      <4>2. ASSUME NEW j \in 1..Len(d.queue), d.queue[j].base = d.queue[i].base, d.queue[j].q = d.queue[i].q
            PROVE  j = i
        <5>1. j # n
          BY <1>2, <4>1, <4>2
        <5> QED
          BY <1>2, <1>4, <4>1, <4>2, <5>1 DEF CallOk
      <4> QED
        BY <1>2, <1>3, <4>1, <4>2 DEF CallOk
    <3>2. CASE i = n
      <4>1. q \in Asked /\ e.base \in DOMAIN e.lookups /\ q \in e.lookups[e.base].out
        BY <1>2, <2>1, <2>3, <3>2 DEF Calls
      <4>2. ASSUME NEW j \in 1..Len(d.queue), d.queue[j].base = e.base, d.queue[j].q = q
            PROVE  j = n
        BY <1>2, <1>4, <2>2, <4>1, <4>2
      <4> QED
        BY <1>2, <1>3, <3>2, <4>1, <4>2 DEF CallOk
    <3> QED
      BY <1>4, <3>1, <3>2
  <2>4. \A p \in Asked \cap DOMAIN d.reqs : d.base \in DOMAIN d.lookups /\ p \in d.lookups[d.base].out
    BY <1>2, <1>3, <2>1 DEF Calls
  <2> QED
    BY <2>3, <2>4 DEF Calls
<1>12. Cut(d)
  BY <1>2, <1>3 DEF Cut, DnsInv
<1> QED
  BY <1>2, <1>7, <1>8, <1>9, <1>10, <1>11, <1>12 DEF DnsInv, d

\* The query that was answered goes.
LEMMA FinishedKeeps ==
    ASSUME NEW e, NEW X, NEW Y, DnsInv(e, X, Y), NEW q \in DOMAIN e.reqs, q \in X,
           \A s \in Servers \ (e.up \union Y) : q = Probe(s) => \E i \in 1..Len(e.queue) : Sees(e, i, s)
    PROVE  DnsInv(Finished(e, q), X \ {q}, Y)
<1> DEFINE d == Finished(e, q)
<1>1. e \in Bases /\ q \in Queries
  BY ReqFacts DEF DnsInv
<1>2. Goes(d, e, {q}, DOMAIN e.reqs \ {q}) /\ d.up = e.up
  BY <1>1, FinishedGoes
<1>3. d.timers = e.timers \ {q} /\ d.fresh = e.fresh \ {q}
  BY <1>1, FinishedFields
<1> HIDE DEF d
<1>4. /\ d \in Bases /\ Counted(d) /\ DOMAIN d.reqs = DOMAIN e.reqs \ {q}
      /\ d.base = e.base /\ d.lookups = e.lookups /\ d.queue = e.queue /\ d.probing = e.probing
  BY <1>2 DEF Goes, Same, DnsInv
<1>5. Timed(d)
  BY <1>3, <1>4 DEF Timed, Due, DnsInv
<1>6. \A s \in Servers : Prod(s) # q
  BY <1>1, NamesDiffer
<1>7. Watched(d, Y)
  <2> SUFFICES ASSUME NEW s \in Servers \ (d.up \union Y) PROVE Returning(d, s)
    BY DEF Watched
  <2>1. Returning(e, s)
    BY <1>2 DEF DnsInv, Watched
  <2>2. \A i \in 1..Len(e.queue) : Sees(e, i, s) => Sees(d, i, s)
    BY <1>4 DEF Sees
  <2>3. q = Probe(s) => \E i \in 1..Len(e.queue) : Sees(e, i, s)
    BY <1>2
  <2> QED
    BY <1>3, <1>4, <1>6, <2>1, <2>2, <2>3 DEF Returning
<1>8. Probed(d, X \ {q})
  <2>1. \A s : Probe(s) \in DOMAIN d.reqs \ (X \ {q}) => Probe(s) \in DOMAIN e.reqs \ X
    BY <1>4
  <2>2. \A s \in Servers : \A i \in 1..Len(d.queue) : Sees(d, i, s) => i \in 1..Len(e.queue) /\ Sees(e, i, s)
    BY <1>4 DEF Sees
  <2>3. Probed(e, X)
    BY DEF DnsInv
  <2> QED
    BY <1>2, <1>3, <1>4, <1>6, <2>1, <2>2, <2>3 DEF Probed
<1>9. Calls(d, X \ {q})
  <2>1. Calls(e, X)
    BY DEF DnsInv
  <2>2. ASSUME NEW i \in 1..Len(d.queue), d.queue[i].q \in Asked PROVE CallOk(d, i, X \ {q})
    <3>1. CallOk(e, i, X)
      BY <1>4, <2>1, <2>2 DEF Calls
    <3> QED
      BY <1>4, <3>1 DEF CallOk
  <2> QED
    BY <1>4, <2>1, <2>2 DEF Calls
<1>10. Cut(d)
  <2>1. Cut(e)
    BY DEF DnsInv
  <2> QED
    BY <1>3, <1>4, <2>1 DEF Cut
<1> QED
  BY <1>4, <1>5, <1>7, <1>8, <1>9, <1>10 DEF DnsInv, d

LEMMA EndedFacts ==
    ASSUME NEW e \in Bases, NEW q \in DOMAIN e.reqs, NEW res \in Ends
    PROVE  LET d == Ended(e, q, res)
               n == Len(e.queue) + 1
           IN  /\ d = Finished(Schedule(e, q, res), q)
               /\ d \in Bases /\ Kin(d, e) /\ d.probing = e.probing /\ d.up = e.up
               /\ DOMAIN d.reqs = DOMAIN e.reqs \ {q} /\ d.timers = e.timers \ {q}
               /\ Len(e.queue) \in Nat /\ Len(d.queue) = n
               /\ \A i \in 1..Len(e.queue) : d.queue[i] = e.queue[i]
               /\ d.queue[n].base = e.base /\ d.queue[n].q = q /\ d.queue[n].res = res
<1> DEFINE c == Schedule(e, q, res)
           d == Finished(c, q)
           n == Len(e.queue) + 1
<1>1. Ended(e, q, res) = d
  <2>1. Ended(e, q, res) = Then(c, LAMBDA x : Finished(x, q))
    BY DEF Ended
  <2> HIDE DEF c
  <2> QED
    BY <2>1 DEF Then
<1>2. q \in Queries
  BY ReqFacts
<1>3. /\ c \in Bases /\ Kin(c, e) /\ c.probing = e.probing /\ c.reqs = e.reqs /\ c.timers = e.timers
      /\ c.up = e.up
      /\ Len(e.queue) \in Nat /\ Len(c.queue) = n
      /\ \A i \in 1..Len(e.queue) : c.queue[i] = e.queue[i]
      /\ c.queue[n].base = e.base /\ c.queue[n].q = q /\ c.queue[n].res = res
  BY <1>2, ScheduleFields
<1> HIDE DEF c
<1>4. /\ d \in Bases /\ Same(d, c) /\ DOMAIN d.reqs = DOMAIN e.reqs \ {q}
      /\ d.timers = e.timers \ {q} /\ d.up = e.up
  BY <1>3, FinishedFields
<1> HIDE DEF d
<1>5. Kin(d, e) /\ d.probing = e.probing /\ d.queue = c.queue
  BY <1>3, <1>4 DEF Same, Kin
<1> QED
  BY <1>1, <1>3, <1>4, <1>5 DEF c, d

\* A cancelled probe leaves its server unwatched, unless it is up.
LEMMA EndedKeeps ==
    ASSUME NEW e, NEW X, NEW Y, DnsInv(e, X, Y), NEW q \in DOMAIN e.reqs \ X, NEW res \in Ends,
           res = "cancel" => \A s \in Servers : q = Probe(s) => s \in e.up \union Y
    PROVE  DnsInv(Ended(e, q, res), X, Y)
<1> DEFINE c == Schedule(e, q, res)
           n == Len(e.queue) + 1
<1>1. e \in Bases /\ q \in Queries
  BY ReqFacts DEF DnsInv
<1>2. DnsInv(c, X \union {q}, Y)
  BY ScheduleKeeps
<1>3. /\ c \in Bases /\ Kin(c, e) /\ c.reqs = e.reqs /\ c.up = e.up
      /\ Len(e.queue) \in Nat /\ Len(c.queue) = n
      /\ c.queue[n].base = e.base /\ c.queue[n].q = q /\ c.queue[n].res = res
  BY <1>1, ScheduleFields
<1> HIDE DEF c
<1>4. ASSUME NEW s \in Servers \ (c.up \union Y), q = Probe(s)
      PROVE  \E i \in 1..Len(c.queue) : Sees(c, i, s)
  <2>1. n \in 1..Len(c.queue)
    BY <1>3
  <2>2. res # "cancel" /\ c.base = e.base
    BY <1>3, <1>4 DEF Kin
  <2>3. Sees(c, n, s)
    BY <1>3, <1>4, <2>2 DEF Sees
  <2> QED
    BY <2>1, <2>3
<1>5. DnsInv(Finished(c, q), (X \union {q}) \ {q}, Y)
  BY <1>2, <1>3, <1>4, FinishedKeeps
<1>6. (X \union {q}) \ {q} = X
  OBVIOUS
<1>7. Ended(e, q, res) = Finished(c, q)
  BY <1>1, EndedFacts DEF c
<1> QED
  BY <1>5, <1>6, <1>7

LEMMA TimerGoes ==
    ASSUME NEW e, NEW X, NEW Y, DnsInv(e, X, Y), NEW s \in Servers
    PROVE  DnsInv(Disarm(e, Prod(s)), X, Y \union {s})
<1> DEFINE d == Disarm(e, Prod(s))
<1>1. e \in Bases
  BY DEF DnsInv
<1>2. /\ d \in Bases /\ Same(d, e) /\ d.reqs = e.reqs /\ d.up = e.up /\ d.good = e.good
      /\ d.inflight = e.inflight /\ d.timers = e.timers \ {Prod(s)} /\ d.fresh = e.fresh \ {Prod(s)}
  BY <1>1, DisarmFields
<1> HIDE DEF d
<1>3. d.base = e.base /\ d.lookups = e.lookups /\ d.queue = e.queue /\ d.probing = e.probing
  BY <1>2 DEF Same
<1>4. Counted(d)
  <2>1. \A r : At(d, r) = At(e, r)
    BY <1>2 DEF At
  <2> QED
    BY <1>2, <2>1 DEF Counted, DnsInv
<1>5. Timed(d)
  <2>1. DOMAIN e.reqs \subseteq e.timers /\ DOMAIN e.reqs \subseteq Queries
    BY <1>1, Fields DEF DnsInv, Timed, Due
  <2>2. Prod(s) \notin Queries
    BY NamesDiffer
  <2> QED
    BY <1>2, <2>1, <2>2 DEF DnsInv, Timed, Due
<1>6. \A r \in Servers : Sees(d, 1, r) = Sees(e, 1, r) /\ \A i : Sees(d, i, r) = Sees(e, i, r)
  BY <1>3 DEF Sees
<1>7. Watched(d, Y \union {s})
  <2> SUFFICES ASSUME NEW r \in Servers \ (d.up \union (Y \union {s})) PROVE Returning(d, r)
    BY DEF Watched
  <2>1. Returning(e, r) /\ r # s
    BY <1>2 DEF DnsInv, Watched
  <2>2. Prod(r) # Prod(s)
    BY <2>1, NamesDiffer
  <2> QED
    BY <1>2, <1>3, <1>6, <2>1, <2>2 DEF Returning
<1>8. Probed(d, X)
  <2>1. Probed(e, X)
    BY DEF DnsInv
  <2> QED
    BY <1>2, <1>3, <1>6, <2>1 DEF Probed
<1>9. Calls(d, X)
  BY <1>2, <1>3 DEF Calls, CallOk, DnsInv
<1>10. Cut(d)
  <2>1. Cut(e)
    BY DEF DnsInv
  <2> QED
    BY <1>2, <1>3, <2>1 DEF Cut
<1> QED
  BY <1>2, <1>4, <1>5, <1>7, <1>8, <1>9, <1>10 DEF DnsInv, d

\* A server that is up needs nobody to see to it.
LEMMA UpIsWatched ==
    ASSUME NEW e, NEW X, NEW Y, NEW Z, DnsInv(e, X, Z), NEW s \in e.up, Z \subseteq Y \union {s}
    PROVE  DnsInv(e, X, Y)
  BY DEF DnsInv, Watched

\* A query is cancelled.
LEMMA CancelKeeps ==
    ASSUME NEW e, NEW X, NEW Y, DnsInv(e, X, Y), NEW q \in Queries, q \notin X \/ q \notin DOMAIN e.reqs,
           \A s \in Servers : q = Probe(s) => s \in e.up \union Y
    PROVE  LET d == Cancel(e, q)
           IN  /\ DnsInv(d, X, Y) /\ Kin(d, e) /\ d.up = e.up /\ d.probing = e.probing
               /\ DOMAIN d.reqs = DOMAIN e.reqs \ {q} /\ d.timers \subseteq e.timers
               /\ Len(e.queue) \in Nat /\ Len(d.queue) >= Len(e.queue)
               /\ \A i \in 1..Len(e.queue) : d.queue[i] = e.queue[i]
<1>1. e \in Bases /\ e.queue \in Seq(Call)
  BY Fields DEF DnsInv
<1>2. CASE q \notin DOMAIN e.reqs
  <2>1. Cancel(e, q) = e
    BY <1>2 DEF Cancel
  <2>2. Len(e.queue) \in Nat
    BY <1>1
  <2> QED
    BY <1>2, <2>1, <2>2 DEF Kin
<1>3. CASE q \in DOMAIN e.reqs
  <2> DEFINE d == Ended(e, q, "cancel")
  <2>1. Cancel(e, q) = d
    BY <1>3 DEF Cancel
  <2>2. "cancel" \in Ends
    BY DEF Ends
  <2>3. DnsInv(d, X, Y)
    BY <1>3, <2>2, EndedKeeps
  <2>4. /\ Kin(d, e) /\ d.probing = e.probing /\ d.up = e.up
        /\ DOMAIN d.reqs = DOMAIN e.reqs \ {q} /\ d.timers = e.timers \ {q}
        /\ Len(e.queue) \in Nat /\ Len(d.queue) = Len(e.queue) + 1
        /\ \A i \in 1..Len(e.queue) : d.queue[i] = e.queue[i]
    BY <1>1, <1>3, <2>2, EndedFacts
  <2> HIDE DEF d
  <2> QED
    BY <2>1, <2>3, <2>4
<1> QED
  BY <1>2, <1>3

Raised(e, s) == [e EXCEPT !.probing = @ \ {s}, !.up = @ \union {s}, !.timedout[s] = 0, !.good = @ + 1]

\* A server that nobody probes any more comes back.
LEMMA RaisedKeeps ==
    ASSUME NEW e, NEW X, NEW Y, NEW Z, DnsInv(e, X, Z), NEW s \in Servers, s \notin e.up, Z \subseteq Y \union {s},
           Probe(s) \notin DOMAIN e.reqs \ X, Prod(s) \notin e.timers
    PROVE  LET d == Raised(e, s)
           IN  /\ DnsInv(d, X, Y) /\ Kin(d, e) /\ d.reqs = e.reqs /\ d.queue = e.queue
               /\ d.up = e.up \union {s} /\ d.timers = e.timers
<1> DEFINE d == Raised(e, s)
<1>1. e \in Bases
  BY DEF DnsInv
<1>2. /\ e.up \in SUBSET Servers /\ e.good \in Int /\ e.probing \in SUBSET Servers
      /\ e.timedout \in [Servers -> Nat]
  BY <1>1, Fields
<1>3. /\ e.probing \ {s} \in SUBSET Servers /\ e.up \union {s} \in SUBSET Servers
      /\ e.good + 1 \in Int
  BY <1>2
<1>4. [e.timedout EXCEPT ![s] = 0] \in [Servers -> Nat]
  BY <1>2
<1>5. d \in Bases
  BY <1>1, <1>3, <1>4 DEF Raised, Bases
<1>6. /\ d.base = e.base /\ d.lookups = e.lookups /\ d.broken = e.broken /\ d.queue = e.queue
      /\ d.probing = e.probing \ {s} /\ d.reqs = e.reqs /\ d.timers = e.timers
      /\ d.fresh = e.fresh /\ d.up = e.up \union {s} /\ d.good = e.good + 1 /\ d.inflight = e.inflight
  BY <1>1 DEF Raised, Bases
<1> HIDE DEF d
<1>7. Counted(d)
  <2>1. Counted(e)
    BY DEF DnsInv
  <2>2. IsFiniteSet(e.up)
    BY <1>2, ServersFinite, FS_Subset
  <2>3. Cardinality(e.up \union {s}) = Cardinality(e.up) + 1
    BY <2>2, FS_AddElement
  <2>4. \A r : At(d, r) = At(e, r)
    BY <1>6 DEF At
  <2> QED
    BY <1>6, <2>1, <2>3, <2>4 DEF Counted
<1>8. Timed(d)
  BY <1>6 DEF Timed, Due, DnsInv
<1>9. \A i, r : Sees(d, i, r) = Sees(e, i, r)
  BY <1>6 DEF Sees
<1>10. Watched(d, Y)
  <2> SUFFICES ASSUME NEW r \in Servers \ (d.up \union Y) PROVE Returning(d, r)
    BY DEF Watched
  <2>1. Returning(e, r)
    BY <1>6 DEF DnsInv, Watched
  <2> QED
    BY <1>6, <1>9, <2>1 DEF Returning
<1>11. Probed(d, X)
  <2>1. Probed(e, X)
    BY DEF DnsInv
  <2>2. ASSUME NEW r \in Servers, Probe(r) \in DOMAIN d.reqs \ X
        PROVE  r \notin d.up /\ r \in d.probing /\ Prod(r) \notin d.timers
    <3>1. r # s
      BY <1>6, <2>2
    <3> QED
      BY <1>6, <2>1, <2>2, <3>1 DEF Probed
  <2>3. ASSUME NEW r \in Servers, NEW i \in 1..Len(d.queue), Sees(d, i, r)
        PROVE  Probe(r) \notin DOMAIN d.reqs \ X /\ (Prod(r) \in d.timers => Prod(r) \in d.fresh)
    BY <1>6, <1>9, <2>1, <2>3 DEF Probed
  <2>4. \A r \in Servers : Prod(r) \in d.timers => r \notin d.up
    BY <1>6, <2>1 DEF Probed
  <2> QED
    BY <2>2, <2>3, <2>4 DEF Probed
<1>12. Calls(d, X)
  BY <1>6 DEF Calls, CallOk, DnsInv
<1>13. Cut(d)
  <2>1. Cut(e)
    BY DEF DnsInv
  <2> QED
    BY <1>6, <2>1 DEF Cut
<1> QED
  BY <1>5, <1>6, <1>7, <1>8, <1>10, <1>11, <1>12, <1>13 DEF DnsInv, Kin, d

LEMMA UpKeeps ==
    ASSUME NEW e, NEW X, NEW Y, DnsInv(e, X, Y), NEW s \in Servers,
           Probe(s) \in X \intersect DOMAIN e.reqs => s \notin e.probing
    PROVE  LET d == Up(e, s)
           IN  /\ DnsInv(d, X, Y) /\ Kin(d, e) /\ s \in d.up /\ e.up \subseteq d.up
               /\ \A q \in DOMAIN e.reqs : q # Probe(s) \/ q \in X => q \in DOMAIN d.reqs
               /\ Len(e.queue) \in Nat /\ Len(d.queue) >= Len(e.queue)
               /\ \A i \in 1..Len(e.queue) : d.queue[i] = e.queue[i]
<1>1. e \in Bases /\ e.queue \in Seq(Call)
  BY Fields DEF DnsInv
<1>2. Len(e.queue) \in Nat
  BY <1>1
<1>3. CASE s \in e.up
  <2>1. Up(e, s) = e
    BY <1>3 DEF Up
  <2> QED
    BY <1>2, <1>3, <2>1 DEF Kin
<1>4. CASE s \notin e.up
  <2> DEFINE a == Disarm(e, Prod(s))
             b == IF s \in a.probing THEN Cancel(a, Probe(s)) ELSE a
  <2>1. Up(e, s) = Raised(b, s)
    <3>1. Up(e, s) = [Then(a, LAMBDA x : IF s \in x.probing THEN Cancel(x, Probe(s)) ELSE x) EXCEPT
                        !.probing = @ \ {s}, !.up = @ \union {s}, !.timedout[s] = 0, !.good = @ + 1]
      BY <1>4 DEF Up
    <3> HIDE DEF a
    <3> QED
      BY <3>1, ZenonT(60) DEF Then, Raised
  <2>2. DnsInv(a, X, Y \union {s})
    BY TimerGoes
  <2>3. /\ Same(a, e) /\ a.reqs = e.reqs /\ a.up = e.up /\ a.timers = e.timers \ {Prod(s)}
    BY <1>1, DisarmFields
  <2> HIDE DEF a
  <2>4. /\ a.base = e.base /\ a.lookups = e.lookups /\ a.queue = e.queue
        /\ a.probing = e.probing /\ a.broken = e.broken
    BY <2>3 DEF Same
  <2>5. Probe(s) \in Queries
    BY NamesDiffer
  <2>6. /\ DnsInv(b, X, Y \union {s}) /\ Kin(b, a) /\ b.up = a.up /\ b.timers \subseteq a.timers
        /\ DOMAIN b.reqs \subseteq DOMAIN a.reqs /\ Probe(s) \notin DOMAIN b.reqs \ X
        /\ \A q \in DOMAIN a.reqs : q # Probe(s) \/ q \in X => q \in DOMAIN b.reqs
        /\ Len(b.queue) >= Len(a.queue)
        /\ \A i \in 1..Len(a.queue) : b.queue[i] = a.queue[i]
    <3>1. CASE s \notin e.probing
      <4>1. b = a
        BY <2>4, <3>1
      <4>2. Probe(s) \notin DOMAIN a.reqs \ X
        BY <2>2, <2>4, <3>1 DEF DnsInv, Probed
      <4> HIDE DEF b
      <4> QED
        BY <1>2, <2>2, <2>4, <4>1, <4>2 DEF Kin
    <3>2. CASE s \in e.probing
      <4> DEFINE c == Cancel(a, Probe(s))
      <4>1. b = c
        BY <2>4, <3>2
      <4> HIDE DEF b
      <4>2. Probe(s) \notin X \/ Probe(s) \notin DOMAIN a.reqs
        BY <2>3, <3>2
      <4>3. \A r \in Servers : Probe(s) = Probe(r) => r \in a.up \union (Y \union {s})
        BY DEF Probe
      <4>4. /\ DnsInv(c, X, Y \union {s}) /\ Kin(c, a) /\ c.up = a.up
            /\ DOMAIN c.reqs = DOMAIN a.reqs \ {Probe(s)} /\ c.timers \subseteq a.timers
            /\ Len(c.queue) >= Len(a.queue)
            /\ \A i \in 1..Len(a.queue) : c.queue[i] = a.queue[i]
        BY <2>2, <2>5, <4>2, <4>3, CancelKeeps
      <4> HIDE DEF c
      <4> QED
        BY <4>1, <4>2, <4>4
    <3> QED
      BY <3>1, <3>2
  <2> HIDE DEF b
  <2>7. /\ s \notin b.up /\ Prod(s) \notin b.timers /\ Probe(s) \notin DOMAIN b.reqs \ X
        /\ DnsInv(b, X, Y \union {s})
    BY <1>4, <2>3, <2>6
  <2> DEFINE d == Raised(b, s)
  <2> HIDE DEF d
  <2>8. DnsInv(d, X, Y) /\ Kin(d, b) /\ d.reqs = b.reqs /\ d.queue = b.queue /\ d.up = b.up \union {s}
    <3>1. LET u == Raised(b, s)
          IN  /\ DnsInv(u, X, Y) /\ Kin(u, b) /\ u.reqs = b.reqs /\ u.queue = b.queue
              /\ u.up = b.up \union {s}
      BY <2>7, RaisedKeeps
    <3> QED
      BY <3>1 DEF d
  <2>9. Kin(d, e)
    BY <2>4, <2>6, <2>8 DEF Kin
  <2> QED
    BY <1>2, <2>1, <2>3, <2>4, <2>6, <2>8, <2>9 DEF d
<1> QED
  BY <1>3, <1>4

\* A resolver between two callbacks, and one that came from it.
Sound(e)    == DnsInv(e, {}, {})
Keeps(d, e) == Sound(d) /\ Kin(d, e)

LEMMA KeepsOn == ASSUME NEW a, NEW b, NEW d, Kin(b, a), Keeps(d, b) PROVE Keeps(d, a)
  BY DEF Keeps, Kin

LEMMA GoesIsKept ==
    ASSUME NEW e, NEW d, Sound(e), NEW T \in SUBSET Queries, Goes(d, e, T, DOMAIN e.reqs), T \subseteq d.timers
    PROVE  Keeps(d, e)
<1>1. DnsInv(d, {}, {})
  BY GoesKeeps DEF Sound
<1> QED
  BY <1>1 DEF Keeps, Sound, Goes, Same, Kin

LEMMA SoundBase == ASSUME NEW e, Sound(e) PROVE e \in Bases
  BY DEF Sound, DnsInv

LEMMA GiveUpKeeps ==
    ASSUME NEW e, Sound(e), NEW q \in DOMAIN e.reqs, NEW res \in Ends \ {"cancel"}
    PROVE  Keeps(GiveUp(e, q, res), e)
<1>1. e \in Bases
  BY SoundBase
<1>2. CASE e.reqs[q].names > 1
  <2>1. Goes(TryNext(e, q), e, {q}, DOMAIN e.reqs) /\ {q} \subseteq TryNext(e, q).timers
    BY <1>1, <1>2, TryNextGoes
  <2>2. {q} \in SUBSET Queries
    BY <1>1, ReqFacts
  <2>3. Keeps(TryNext(e, q), e)
    BY <2>1, <2>2, GoesIsKept
  <2> QED
    BY <1>2, <2>3 DEF GiveUp
<1>3. CASE ~(e.reqs[q].names > 1)
  <2>1. DnsInv(Ended(e, q, res), {}, {})
    BY EndedKeeps DEF Sound
  <2>2. Kin(Ended(e, q, res), e)
    BY <1>1, EndedFacts
  <2>3. Keeps(Ended(e, q, res), e)
    BY <2>1, <2>2 DEF Keeps, Sound
  <2> QED
    BY <1>3, <2>3 DEF GiveUp
<1> QED
  BY <1>2, <1>3

LEMMA FailedKeeps == ASSUME NEW e, Sound(e), NEW s \in Servers PROVE Keeps(Failed(e, s), e)
<1>1. Goes(Failed(e, s), e, {}, DOMAIN e.reqs)
  BY SoundBase, FailedGoes
<1>2. {} \in SUBSET Queries /\ {} \subseteq Failed(e, s).timers
  OBVIOUS
<1> QED
  BY <1>1, <1>2, GoesIsKept

LEMMA TimedOutKeeps ==
    ASSUME NEW e, Sound(e), NEW q \in DOMAIN e.reqs PROVE Keeps(TimedOut(e, q), e)
<1> DEFINE s == e.reqs[q].ns
           end == Ended(e, q, "error")
           a == Disarm(e, q)
           b == Swap(a, q)
           c == Transmit(b, q)
           d == Blamed(c, q)
<1>1. TimedOut(e, q) = IF e.reqs[q].tx >= MaxRetransmits THEN Failed(end, s) ELSE d
  BY DEF TimedOut, Then
<1>2. e \in Bases /\ s \in Servers /\ q \in Queries
  BY SoundBase, ReqFacts
<1>3. Keeps(Failed(end, s), e)
  <2>1. "error" \in Ends /\ "error" # "cancel"
    BY DEF Ends
  <2>2. Sound(end) /\ Kin(end, e)
    BY <1>2, <2>1, EndedKeeps, EndedFacts DEF Sound
  <2> HIDE DEF end, s
  <2>3. Keeps(Failed(end, s), end)
    BY <1>2, <2>2, FailedKeeps
  <2> QED
    BY <2>2, <2>3, KeepsOn
<1>4. Keeps(d, e)
  <2>1. Goes(a, e, {q}, DOMAIN e.reqs)
    BY <1>2, DisarmGoes
  <2> HIDE DEF a
  <2>2. a \in Bases /\ q \in DOMAIN a.reqs /\ DOMAIN a.reqs = DOMAIN e.reqs
    BY <2>1 DEF Goes
  <2>3. Goes(b, a, {}, DOMAIN e.reqs)
    BY <2>2, SwapGoes
  <2> HIDE DEF b
  <2>4. b \in Bases /\ q \in DOMAIN b.reqs /\ DOMAIN b.reqs = DOMAIN e.reqs
    BY <2>2, <2>3 DEF Goes
  <2>5. Goes(c, b, {}, DOMAIN e.reqs) /\ q \in c.timers
    BY <2>4, TransmitGoes
  <2> HIDE DEF c
  <2>6. c \in Bases /\ q \in DOMAIN c.reqs /\ DOMAIN c.reqs = DOMAIN e.reqs
    BY <2>2, <2>5 DEF Goes
  <2>7. Goes(d, c, {}, DOMAIN e.reqs)
    BY <2>6, BlamedGoes
  <2> HIDE DEF d
  <2>8. {q} \in SUBSET Queries /\ {q} \subseteq d.timers
    BY <1>2, <2>5, <2>7 DEF Goes
  <2>9. Goes(b, e, {q}, DOMAIN e.reqs)
    BY <2>1, <2>3, GoesOn
  <2>10. Goes(c, e, {q}, DOMAIN e.reqs)
    BY <2>5, <2>9, GoesOn
  <2>11. Goes(d, e, {q}, DOMAIN e.reqs)
    BY <2>7, <2>10, GoesOn
  <2> QED
    BY <2>8, <2>11, GoesIsKept
<1> HIDE DEF end, s, d
<1> QED
  BY <1>1, <1>3, <1>4

\* The query starts over at another server.
LEMMA OverGoes ==
    ASSUME NEW e \in Bases, NEW q \in DOMAIN e.reqs
    PROVE  Goes([e EXCEPT !.reqs[q].reissues = @ + 1, !.reqs[q].tx = 0], e, {}, DOMAIN e.reqs)
<1> DEFINE v == [e.reqs[q] EXCEPT !.reissues = @ + 1, !.tx = 0]
           d == [e EXCEPT !.reqs[q].reissues = @ + 1, !.reqs[q].tx = 0]
           f == [e EXCEPT !.reqs = [e.reqs EXCEPT ![q] = v]]
<1>1. v \in Req /\ v.ns = e.reqs[q].ns
  <2> DEFINE r == e.reqs[q]
  <2>1. r \in Req /\ r.reissues + 1 \in Nat
    BY ReqFacts
  <2> HIDE DEF r
  <2>2. [r EXCEPT !.reissues = @ + 1, !.tx = 0] \in Req
    BY <2>1 DEF Req
  <2>3. [r EXCEPT !.reissues = @ + 1, !.tx = 0].ns = r.ns
    BY <2>1 DEF Req
  <2> QED
    BY <2>2, <2>3 DEF r
<1>2. [e.reqs EXCEPT ![q] = v] \in UNION {[D -> Req] : D \in SUBSET Queries}
  BY <1>1, ReqsType
<1>3. d = f
  BY Fields DEF Bases
<1> HIDE DEF d
<1>4. f \in Bases
  BY <1>2 DEF Bases
<1>5. /\ f.timers = e.timers /\ f.fresh = e.fresh
      /\ f.up = e.up /\ f.good = e.good /\ f.inflight = e.inflight
  BY DEF Bases
<1>6. Same(f, e)
  BY DEF Same, Bases
<1>7. f.reqs = [e.reqs EXCEPT ![q] = v]
  BY DEF Bases
<1> HIDE DEF f, v
<1>8. DOMAIN f.reqs = DOMAIN e.reqs /\ \A p \in DOMAIN e.reqs : f.reqs[p].ns = e.reqs[p].ns
  BY <1>1, <1>7
<1>9. Goes(f, e, {}, DOMAIN e.reqs)
  BY <1>4, <1>5, <1>6, <1>8, GoesOnly
<1> QED
  BY <1>3, <1>9 DEF d

LEMMA ReissuedKeeps ==
    ASSUME NEW e, Sound(e), NEW q \in DOMAIN e.reqs PROVE Keeps(Reissued(e, q), e)
<1> DEFINE d == Swap(e, q)
           give == GiveUp(d, q, "error")
           over == [d EXCEPT !.reqs[q].reissues = @ + 1, !.reqs[q].tx = 0]
<1>1. Reissued(e, q) = IF d.reqs[q].ns = e.reqs[q].ns THEN give ELSE over
  BY DEF Reissued, Then
<1>2. "error" \in Ends \ {"cancel"}
  BY DEF Ends
<1>3. {} \in SUBSET Queries /\ \A S : {} \subseteq S
  OBVIOUS
<1>4. Goes(d, e, {}, DOMAIN e.reqs)
  BY SoundBase, SwapGoes
<1> HIDE DEF d
<1>5. Keeps(d, e)
  BY <1>3, <1>4, GoesIsKept
<1>6. Sound(d) /\ d \in Bases /\ q \in DOMAIN d.reqs /\ Kin(d, e)
  BY <1>4, <1>5 DEF Keeps, Goes
<1>7. Keeps(give, d)
  BY <1>2, <1>6, GiveUpKeeps
<1>8. Goes(over, d, {}, DOMAIN d.reqs)
  BY <1>6, OverGoes
<1> HIDE DEF over, give
<1>9. Keeps(over, d)
  BY <1>3, <1>6, <1>8, GoesIsKept
<1>10. Keeps(give, e) /\ Keeps(over, e)
  BY <1>6, <1>7, <1>9, KeepsOn
<1> QED
  BY <1>1, <1>10

LEMMA RefusedKeeps ==
    ASSUME NEW e, Sound(e), NEW q \in DOMAIN e.reqs PROVE Keeps(Refused(e, q), e)
<1> DEFINE s == e.reqs[q].ns
           d == Failed(e, s)
<1>1. Refused(e, q) = IF e.reqs[q].reissues >= MaxReissues THEN GiveUp(e, q, "error") ELSE Reissued(d, q)
  BY DEF Refused, Then
<1>2. "error" \in Ends \ {"cancel"}
  BY DEF Ends
<1>3. e \in Bases /\ s \in Servers
  BY SoundBase, ReqFacts
<1>4. Keeps(d, e) /\ Goes(d, e, {}, DOMAIN e.reqs)
  BY <1>3, FailedKeeps, FailedGoes
<1> HIDE DEF d
<1>5. Sound(d) /\ q \in DOMAIN d.reqs /\ Kin(d, e)
  BY <1>4 DEF Keeps, Goes
<1>6. Keeps(Reissued(d, q), d)
  BY <1>5, ReissuedKeeps
<1>7. Keeps(Reissued(d, q), e)
  BY <1>5, <1>6, KeepsOn
<1>8. Keeps(GiveUp(e, q, "error"), e)
  BY <1>2, GiveUpKeeps
<1> QED
  BY <1>1, <1>7, <1>8

\* A server was heard of.
LEMMA HeardKeeps ==
    ASSUME NEW e, NEW X, NEW Y, DnsInv(e, X, Y), NEW s \in Servers, Probe(s) \notin DOMAIN e.reqs \ X
    PROVE  LET d == [e EXCEPT !.probing = @ \ {s}]
           IN  DnsInv(d, X, Y) /\ Kin(d, e) /\ d.reqs = e.reqs /\ d.queue = e.queue /\ s \notin d.probing
<1> DEFINE d == [e EXCEPT !.probing = @ \ {s}]
<1>1. e \in Bases
  BY DEF DnsInv
<1>2. d \in Bases
  BY <1>1 DEF Bases
<1>3. /\ d.base = e.base /\ d.lookups = e.lookups /\ d.broken = e.broken /\ d.queue = e.queue
      /\ d.probing = e.probing \ {s} /\ d.reqs = e.reqs /\ d.timers = e.timers
      /\ d.fresh = e.fresh /\ d.up = e.up /\ d.good = e.good /\ d.inflight = e.inflight
  BY <1>1 DEF Bases
<1> HIDE DEF d
<1>4. Counted(d) /\ Timed(d)
  <2>1. \A r : At(d, r) = At(e, r)
    BY <1>3 DEF At
  <2> QED
    BY <1>3, <2>1 DEF Counted, Timed, Due, DnsInv
<1>5. \A i, r : Sees(d, i, r) = Sees(e, i, r)
  BY <1>3 DEF Sees
<1>6. Watched(d, Y)
  BY <1>3, <1>5 DEF DnsInv, Watched, Returning
<1>7. Probed(d, X)
  <2>1. Probed(e, X)
    BY DEF DnsInv
  <2>2. ASSUME NEW r \in Servers, Probe(r) \in DOMAIN d.reqs \ X
        PROVE  r \notin d.up /\ r \in d.probing /\ Prod(r) \notin d.timers
    <3>1. r # s
      BY <1>3, <2>2
    <3> QED
      BY <1>3, <2>1, <2>2, <3>1 DEF Probed
  <2> QED
    BY <1>3, <1>5, <2>1, <2>2 DEF Probed
<1>8. Calls(d, X)
  BY <1>3 DEF Calls, CallOk, DnsInv
<1>9. Cut(d)
  <2>1. Cut(e)
    BY DEF DnsInv
  <2> QED
    BY <1>3, <2>1 DEF Cut
<1> QED
  BY <1>2, <1>3, <1>4, <1>6, <1>7, <1>8, <1>9 DEF DnsInv, Kin, d

LEMMA PraisedKeeps ==
    ASSUME NEW e, NEW X, DnsInv(e, X, {}), NEW q \in DOMAIN e.reqs, q \in X \union Asked, X \subseteq {q}
    PROVE  LET d == Praised(e, q)
           IN  /\ DnsInv(d, X, {}) /\ Kin(d, e) /\ q \in DOMAIN d.reqs
               /\ Len(e.queue) \in Nat /\ Len(d.queue) >= Len(e.queue)
               /\ \A i \in 1..Len(e.queue) : d.queue[i] = e.queue[i]
<1> DEFINE s == e.reqs[q].ns
           heard == IF q = Probe(s) THEN [e EXCEPT !.probing = @ \ {s}] ELSE e
           d == Up(heard, s)
<1>1. Praised(e, q) = d
  BY DEF Praised, Then
<1>2. e \in Bases
  BY DEF DnsInv
<1>3. s \in Servers /\ q \in Queries
  BY <1>2, ReqFacts
<1> HIDE DEF s
<1>4. q = Probe(s) => q \in X
  BY NamesDiffer
<1>5. /\ DnsInv(heard, X, {}) /\ Kin(heard, e) /\ heard.reqs = e.reqs /\ heard.queue = e.queue
      /\ q = Probe(s) => s \notin heard.probing
  <2>1. CASE q = Probe(s)
    <3> DEFINE h == [e EXCEPT !.probing = @ \ {s}]
    <3>1. DnsInv(h, X, {}) /\ Kin(h, e) /\ h.reqs = e.reqs /\ h.queue = e.queue /\ s \notin h.probing
      BY <1>3, <1>4, <2>1, HeardKeeps
    <3>2. heard = h
      BY <2>1
    <3> HIDE DEF h, heard
    <3> QED
      BY <3>1, <3>2
  <2>2. CASE q # Probe(s)
    BY <2>2 DEF Kin
  <2> QED
    BY <2>1, <2>2
<1> HIDE DEF heard
<1>6. Probe(s) \in X \intersect DOMAIN heard.reqs => s \notin heard.probing
  BY <1>5
<1>7. /\ DnsInv(d, X, {}) /\ Kin(d, heard)
      /\ \A p \in DOMAIN heard.reqs : p # Probe(s) \/ p \in X => p \in DOMAIN d.reqs
      /\ Len(heard.queue) \in Nat /\ Len(d.queue) >= Len(heard.queue)
      /\ \A i \in 1..Len(heard.queue) : d.queue[i] = heard.queue[i]
  BY <1>3, <1>5, <1>6, UpKeeps
<1> HIDE DEF d
<1>8. q \in DOMAIN d.reqs
  BY <1>4, <1>5, <1>7
<1>9. Kin(d, e)
  BY <1>5, <1>7 DEF Kin
<1> QED
  BY <1>1, <1>5, <1>7, <1>8, <1>9

\* A server answers.
Answers == {"ok", "notexist", "refused", "servfail"}

LEMMA HandleKeeps ==
    ASSUME NEW e, Sound(e), NEW q \in DOMAIN e.reqs, NEW kind \in Answers, kind = "notexist" => q \in Asked
    PROVE  Keeps(Handle(e, q, kind), e)
<1>1. CASE kind = "ok"
  <2> DEFINE a == Schedule(e, q, "ok")
             b == Praised(a, q)
             d == Finished(b, q)
             n == Len(e.queue) + 1
  <2>1. Handle(e, q, kind) = d
    BY <1>1 DEF Handle, Then
  <2>2. e \in Bases /\ q \in Queries /\ "ok" \in Ends /\ "ok" # "cancel"
    BY SoundBase, ReqFacts DEF Ends
  <2>3. DnsInv(a, {} \union {q}, {}) /\ {} \union {q} = {q}
    BY <2>2, ScheduleKeeps DEF Sound
  <2>4. /\ Kin(a, e) /\ a.reqs = e.reqs /\ Len(e.queue) \in Nat /\ Len(a.queue) = n
        /\ a.queue[n].base = e.base /\ a.queue[n].q = q /\ a.queue[n].res = "ok"
    BY <2>2, ScheduleFields
  <2> HIDE DEF a
  <2>5. DnsInv(a, {q}, {}) /\ q \in DOMAIN a.reqs /\ q \in {q} \union Asked /\ {q} \subseteq {q}
    BY <2>3, <2>4
  <2>6. /\ DnsInv(b, {q}, {}) /\ Kin(b, a) /\ q \in DOMAIN b.reqs
        /\ Len(b.queue) >= Len(a.queue)
        /\ \A i \in 1..Len(a.queue) : b.queue[i] = a.queue[i]
    BY <2>5, PraisedKeeps
  <2> HIDE DEF b
  <2>7. n \in 1..Len(a.queue) /\ b.base = e.base
    BY <2>4, <2>6 DEF Kin
  <2>8. b.queue[n] = a.queue[n] /\ Len(b.queue) \in Nat
    <3>1. b \in Bases
      BY <2>6 DEF DnsInv
    <3>2. b.queue \in Seq(Call)
      BY <3>1, Fields
    <3> QED
      BY <2>6, <2>7, <3>2
  <2>9. n \in 1..Len(b.queue)
    BY <2>4, <2>6, <2>7, <2>8
  <2>10. \A s \in Servers \ (b.up \union {}) : q = Probe(s) => \E i \in 1..Len(b.queue) : Sees(b, i, s)
    BY <2>4, <2>7, <2>8, <2>9 DEF Sees
  <2>11. DnsInv(d, {q} \ {q}, {}) /\ {q} \ {q} = {}
    BY <2>6, <2>10, FinishedKeeps
  <2>12. Same(d, b)
    BY <2>6, FinishedFields DEF DnsInv
  <2> HIDE DEF d
  <2>13. Kin(d, e)
    BY <2>4, <2>6, <2>12 DEF Kin, Same
  <2> QED
    BY <2>1, <2>11, <2>13 DEF Keeps, Sound
<1>2. CASE kind = "notexist"
  <2> DEFINE a == Praised(e, q)
  <2>1. Handle(e, q, kind) = GiveUp(a, q, "notexist")
    BY <1>2 DEF Handle, Then
  <2>2. q \in {} \union Asked /\ {} \subseteq {q} /\ DnsInv(e, {}, {})
    BY <1>2 DEF Sound
  <2>3. DnsInv(a, {}, {}) /\ Kin(a, e) /\ q \in DOMAIN a.reqs
    BY <2>2, PraisedKeeps
  <2> HIDE DEF a
  <2>4. Sound(a) /\ "notexist" \in Ends \ {"cancel"}
    BY <2>3 DEF Sound, Ends
  <2>5. Keeps(GiveUp(a, q, "notexist"), a)
    BY <2>3, <2>4, GiveUpKeeps
  <2> QED
    BY <2>1, <2>3, <2>5, KeepsOn
<1>3. CASE kind = "refused"
  BY <1>3, RefusedKeeps DEF Handle
<1>4. CASE kind = "servfail"
  BY <1>4, TimedOutKeeps DEF Handle
<1> QED
  BY <1>1, <1>2, <1>3, <1>4 DEF Answers

\* The packet was read.
Read(e, q, s) == [e EXCEPT !.timedout[s] = 0, !.reqs[q].sent = @ \ {s}]

LEMMA ReadGoes ==
    ASSUME NEW e \in Bases, NEW q \in DOMAIN e.reqs, NEW s \in Servers
    PROVE  /\ Goes(Read(e, q, s), e, {}, DOMAIN e.reqs) /\ Read(e, q, s).up = e.up
           /\ Read(e, q, s).reqs[q].names = e.reqs[q].names
<1> DEFINE a == [e EXCEPT !.timedout[s] = 0]
           S == a.reqs[q].sent \ {s}
           d == [a EXCEPT !.reqs[q].sent = S]
<1>1. Read(e, q, s) = d
  BY DEF Read, Bases
<1>2. Goes(a, e, {}, DOMAIN e.reqs) /\ a.reqs = e.reqs /\ a.up = e.up
  BY CountGoes
<1> HIDE DEF a
<1>3. a \in Bases /\ q \in DOMAIN a.reqs
  BY <1>2 DEF Goes
<1>4. S \in SUBSET Servers
  BY <1>3, ReqFacts
<1> HIDE DEF S
<1>5. Goes(d, a, {}, DOMAIN a.reqs) /\ d.up = a.up
  BY <1>3, <1>4, SentGoes
<1>6. d.reqs[q].names = a.reqs[q].names
  BY <1>3, ReqFacts DEF Bases, Req
<1> HIDE DEF d
<1>7. Goes(d, e, {}, DOMAIN e.reqs)
  BY <1>2, <1>5, GoesOn
<1> QED
  BY <1>1, <1>2, <1>5, <1>6, <1>7

LEMMA ReplyKeeps ==
    ASSUME NEW e, Sound(e), NEW q \in DOMAIN e.reqs, NEW s \in Servers, NEW kind \in Answers,
           kind = "notexist" => q \in Asked
    PROVE  Keeps(Reply(e, q, s, kind), e)
<1> DEFINE d == Read(e, q, s)
<1>1. Reply(e, q, s, kind) = Handle(d, q, kind)
  BY DEF Reply, Then, Read
<1>2. Goes(d, e, {}, DOMAIN e.reqs) /\ {} \in SUBSET Queries /\ {} \subseteq d.timers
  BY SoundBase, ReadGoes
<1>3. Keeps(d, e)
  BY <1>2, GoesIsKept
<1> HIDE DEF d
<1>4. Sound(d) /\ Kin(d, e) /\ q \in DOMAIN d.reqs
  BY <1>2, <1>3 DEF Keeps, Goes
<1>5. Keeps(Handle(d, q, kind), d)
  BY <1>4, HandleKeeps
<1> QED
  BY <1>1, <1>4, <1>5, KeepsOn

-----------------------------------------------------------------------------
(* Probes. *)

\* The servers, after queries were added.
LEMMA GoesParts ==
    ASSUME NEW e, NEW d, NEW D, Goes(d, e, {}, D), DOMAIN e.reqs \subseteq D, NEW X, NEW Y, DnsInv(e, X, Y)
    PROVE  /\ Watched(d, Y)
           /\ \A s \in Servers : Prod(s) \in d.timers => s \notin d.up
           /\ \A s \in Servers : \A i \in 1..Len(d.queue) : Sees(d, i, s) =>
                /\ i \in 1..Len(e.queue) /\ Sees(e, i, s)
                /\ Probe(s) \notin DOMAIN e.reqs \ X /\ (Prod(s) \in d.timers => Prod(s) \in d.fresh)
<1>1. d.base = e.base /\ d.lookups = e.lookups /\ d.queue = e.queue /\ d.probing = e.probing
  BY DEF Goes, Same
<1>2. DOMAIN e.reqs \subseteq DOMAIN d.reqs /\ e.timers \subseteq d.timers /\ e.fresh \subseteq d.fresh
  BY DEF Goes
<1>3. Watched(d, Y)
  <2> SUFFICES ASSUME NEW s \in Servers \ (d.up \union Y) PROVE Returning(d, s)
    BY DEF Watched
  <2>1. CASE s \in e.up
    BY <2>1 DEF Goes, Returning
  <2>2. CASE s \notin e.up
    <3>1. Returning(e, s)
      BY <2>2 DEF Watched, DnsInv
    <3> QED
      BY <1>1, <1>2, <3>1 DEF Returning, Sees
  <2> QED
    BY <2>1, <2>2
<1>4. ASSUME NEW s \in Servers, NEW i \in 1..Len(d.queue), Sees(d, i, s)
      PROVE  /\ i \in 1..Len(e.queue) /\ Sees(e, i, s)
             /\ Probe(s) \notin DOMAIN e.reqs \ X /\ (Prod(s) \in d.timers => Prod(s) \in d.fresh)
  <2>1. Sees(e, i, s) /\ i \in 1..Len(e.queue)
    BY <1>1, <1>4 DEF Sees
  <2>2. Probe(s) \notin DOMAIN e.reqs \ X /\ (Prod(s) \in e.timers => Prod(s) \in e.fresh)
    BY <2>1 DEF DnsInv, Probed
  <2>3. e.queue # <<>>
    <3>1. Len(<<>>) = 0
      OBVIOUS
    <3> QED
      BY <2>1, <3>1
  <2> QED
    BY <1>2, <2>1, <2>2, <2>3 DEF Goes
<1>5. ASSUME NEW s \in Servers, Prod(s) \in d.timers PROVE s \notin d.up
  <2>1. Prod(s) \in e.timers => s \notin e.up
    BY DEF DnsInv, Probed
  <2> QED
    BY <1>5, <2>1 DEF Goes
<1> QED
  BY <1>3, <1>4, <1>5

\* A probe is on its way.
LEMMA ProbeGoes ==
    ASSUME NEW e, NEW s \in Servers, DnsInv(e, {}, {s}), s \notin e.up, s \in e.probing, Prod(s) \notin e.timers,
           \A i \in 1..Len(e.queue) : ~Sees(e, i, s),
           NEW d, Goes(d, e, {}, DOMAIN e.reqs \union {Probe(s)}), Probe(s) \in d.timers
    PROVE  Keeps(d, e)
<1> DEFINE D == DOMAIN e.reqs \union {Probe(s)}
<1>1. /\ d.base = e.base /\ d.lookups = e.lookups /\ d.queue = e.queue /\ d.probing = e.probing
      /\ d.broken = e.broken
  BY DEF Goes, Same
<1>2. /\ d \in Bases /\ Counted(d) /\ DOMAIN d.reqs = D /\ e.timers \subseteq d.timers /\ d.up \subseteq e.up
      /\ Due(d)
  BY DEF Goes, DnsInv, Timed
<1>3. Timed(d)
  BY <1>2 DEF Timed, DnsInv
<1>4. /\ Watched(d, {s})
      /\ \A r \in Servers : Prod(r) \in d.timers => r \notin d.up
      /\ \A r \in Servers : \A i \in 1..Len(d.queue) : Sees(d, i, r) =>
           /\ i \in 1..Len(e.queue) /\ Sees(e, i, r)
           /\ Probe(r) \notin DOMAIN e.reqs \ {} /\ (Prod(r) \in d.timers => Prod(r) \in d.fresh)
  <2>1. DOMAIN e.reqs \subseteq D
    OBVIOUS
  <2> HIDE DEF D
  <2> QED
    BY <2>1, GoesParts DEF D
<1>5. Watched(d, {})
  <2>1. Returning(d, s)
    BY <1>2 DEF Returning
  <2> QED
    BY <1>4, <2>1 DEF Watched
<1>6. Probed(d, {})
  <2>1. ASSUME NEW r \in Servers, Probe(r) \in DOMAIN d.reqs
        PROVE  r \notin d.up /\ r \in d.probing /\ Prod(r) \notin d.timers
    <3>1. r \notin e.up /\ r \in e.probing /\ Prod(r) \notin e.timers
      <4>1. CASE Probe(r) \in DOMAIN e.reqs
        BY <4>1 DEF DnsInv, Probed
      <4>2. CASE Probe(r) \notin DOMAIN e.reqs
        <5>1. r = s
          BY <1>2, <2>1, <4>2, NamesDiffer
        <5> QED
          BY <5>1
      <4> QED
        BY <4>1, <4>2
    <3> QED
      BY <1>1, <1>2, <3>1 DEF Goes
  <2>2. ASSUME NEW r \in Servers, NEW i \in 1..Len(d.queue), Sees(d, i, r)
        PROVE  Probe(r) \notin DOMAIN d.reqs /\ (Prod(r) \in d.timers => Prod(r) \in d.fresh)
    <3>1. i \in 1..Len(e.queue) /\ Sees(e, i, r) /\ Probe(r) \notin DOMAIN e.reqs
      BY <1>4, <2>2
    <3>2. Probe(r) # Probe(s)
      BY <3>1, NamesDiffer
    <3> QED
      BY <1>2, <1>4, <2>2, <3>1, <3>2
  <2> QED
    BY <1>4, <2>1, <2>2 DEF Probed
<1>7. Calls(d, {})
  <2>1. Calls(e, {})
    BY DEF DnsInv
  <2>2. Probe(s) \notin Asked
    BY NamesDiffer
  <2>3. \A q \in Asked : q \in DOMAIN d.reqs => q \in DOMAIN e.reqs
    BY <1>2, <2>2
  <2> QED
    BY <1>1, <2>1, <2>3 DEF Calls, CallOk
<1>8. Cut(d)
  <2>1. Cut(e) /\ \A r \in Nat : Skew(r) \in d.timers => Skew(r) \in e.timers
    BY DEF DnsInv, Goes
  <2> QED
    BY <1>1, <2>1 DEF Cut
<1> QED
  BY <1>1, <1>2, <1>3, <1>5, <1>6, <1>7, <1>8 DEF DnsInv, Keeps, Sound, Kin

Tried(e, s, h) == [e EXCEPT !.head = h, !.probing = @ \union {s}]

LEMMA TriedKeeps ==
    ASSUME NEW e, NEW X, NEW Y, DnsInv(e, X, Y), NEW s \in Servers, NEW h \in Servers
    PROVE  LET d == Tried(e, s, h)
           IN  /\ DnsInv(d, X, Y) /\ Kin(d, e) /\ d.reqs = e.reqs /\ d.queue = e.queue /\ s \in d.probing
               /\ d.up = e.up /\ d.timers = e.timers
<1> DEFINE d == Tried(e, s, h)
<1>1. e \in Bases
  BY DEF DnsInv
<1>2. d \in Bases
  BY <1>1 DEF Bases, Tried
<1>3. /\ d.base = e.base /\ d.lookups = e.lookups /\ d.broken = e.broken /\ d.queue = e.queue
      /\ d.probing = e.probing \union {s} /\ d.reqs = e.reqs /\ d.timers = e.timers
      /\ d.fresh = e.fresh /\ d.up = e.up /\ d.good = e.good /\ d.inflight = e.inflight
  BY <1>1 DEF Bases, Tried
<1> HIDE DEF d
<1>4. Counted(d) /\ Timed(d)
  <2>1. \A r : At(d, r) = At(e, r)
    BY <1>3 DEF At
  <2> QED
    BY <1>3, <2>1 DEF Counted, Timed, Due, DnsInv
<1>5. \A i, r : Sees(d, i, r) = Sees(e, i, r)
  BY <1>3 DEF Sees
<1>6. Watched(d, Y)
  BY <1>3, <1>5 DEF DnsInv, Watched, Returning
<1>7. Probed(d, X)
  BY <1>3, <1>5 DEF DnsInv, Probed
<1>8. Calls(d, X)
  BY <1>3 DEF Calls, CallOk, DnsInv
<1>9. Cut(d)
  <2>1. Cut(e)
    BY DEF DnsInv
  <2> QED
    BY <1>3, <2>1 DEF Cut
<1> QED
  BY <1>2, <1>3, <1>4, <1>6, <1>7, <1>8, <1>9 DEF DnsInv, Kin, d

LEMMA SendProbeKeeps ==
    ASSUME NEW e, Sound(e), NEW s \in Servers, Prod(s) \in e.timers \ e.fresh
    PROVE  Keeps(SendProbe(e, s), e)
<1> DEFINE a == Disarm(e, Prod(s))
           h == Pick(e).head
           b == Tried(a, s, h)
           d == Submit(b, Probe(s), s, 1)
<1>1. SendProbe(e, s) = d
  BY DEF SendProbe, Then, Tried
<1>2. e \in Bases /\ h \in Servers /\ DnsInv(e, {}, {})
  BY SoundBase, PickFacts DEF Sound
<1>3. DnsInv(a, {}, {} \union {s}) /\ {} \union {s} = {s}
  BY <1>2, TimerGoes
<1>4. Same(a, e) /\ a.reqs = e.reqs /\ a.up = e.up /\ a.timers = e.timers \ {Prod(s)}
  BY <1>2, DisarmFields
<1>5. /\ a.base = e.base /\ a.lookups = e.lookups /\ a.queue = e.queue
      /\ a.probing = e.probing /\ a.broken = e.broken
  BY <1>4 DEF Same
<1> HIDE DEF a, h
<1>6. /\ DnsInv(b, {}, {s}) /\ Kin(b, a) /\ b.reqs = a.reqs /\ b.queue = a.queue /\ s \in b.probing
      /\ b.up = a.up /\ b.timers = a.timers
  <2>1. DnsInv(a, {}, {s})
    BY <1>3
  <2> QED
    BY <1>2, <2>1, TriedKeeps
<1> HIDE DEF b
<1>7. b \in Bases /\ Kin(b, e)
  BY <1>5, <1>6 DEF DnsInv, Kin
<1>8. /\ Probe(s) \notin DOMAIN e.reqs /\ s \notin e.up
      /\ \A i \in 1..Len(e.queue) : ~Sees(e, i, s)
  BY <1>2 DEF DnsInv, Probed
<1>9. \A i \in 1..Len(b.queue) : ~Sees(b, i, s)
  BY <1>5, <1>6, <1>7, <1>8 DEF Sees, Kin
<1>10. Probe(s) \in Queries \ DOMAIN b.reqs /\ 1 \in Nat \ {0}
  BY <1>4, <1>6, <1>8, NamesDiffer
<1>11. Goes(d, b, {}, DOMAIN b.reqs \union {Probe(s)}) /\ Probe(s) \in d.timers
  BY <1>7, <1>10, SubmitGoes
<1> HIDE DEF d
<1>12. s \notin b.up /\ Prod(s) \notin b.timers
  BY <1>4, <1>6, <1>8
<1>13. Keeps(d, b)
  BY <1>6, <1>9, <1>11, <1>12, ProbeGoes
<1> QED
  BY <1>1, <1>7, <1>13, KeepsOn

-----------------------------------------------------------------------------
(* Callbacks. *)

LEMMA DequeuedFields ==
    ASSUME NEW e \in Bases, e.queue # <<>>
    PROVE  LET d == Dequeued(e)
           IN  /\ d \in Bases /\ Kin(d, e) /\ d.probing = e.probing /\ d.reqs = e.reqs /\ d.timers = e.timers
               /\ d.up = e.up /\ d.good = e.good /\ d.inflight = e.inflight
               /\ d.queue # <<>> => d.fresh = e.fresh
               /\ Head(e.queue) = e.queue[1] /\ 1 \in 1..Len(e.queue) /\ e.queue[1] \in Call
               /\ \A i \in 1..Len(d.queue) :
                    d.queue # <<>> /\ i + 1 # 1 /\ i + 1 \in 1..Len(e.queue) /\ d.queue[i] = e.queue[i + 1]
               /\ \A i \in 1..Len(e.queue) : i # 1 =>
                    i - 1 \in 1..Len(d.queue) /\ d.queue[i - 1] = e.queue[i]
<1> DEFINE rest == Tail(e.queue)
           f == IF rest = <<>> THEN {} ELSE e.fresh
           d == [e EXCEPT !.queue = rest, !.fresh = f]
<1>1. Dequeued(e) = d
  BY DEF Dequeued, Bases
<1>2. e.queue \in Seq(Call) /\ e.queue # <<>> /\ e.fresh \in SUBSET TimerId
  BY Fields
<1>3. rest \in Seq(Call) /\ f \in SUBSET TimerId
  BY <1>2
<1>4. /\ Head(e.queue) = e.queue[1] /\ 1 \in 1..Len(e.queue) /\ e.queue[1] \in Call
      /\ Len(rest) = Len(e.queue) - 1 /\ Len(e.queue) \in Nat
      /\ \A i \in 1..Len(rest) : rest[i] = e.queue[i + 1]
      /\ Len(<<>>) = 0
  BY <1>2
<1> HIDE DEF rest, f
<1>5. d \in Bases
  BY <1>3 DEF Bases
<1>6. /\ d.base = e.base /\ d.lookups = e.lookups /\ d.broken = e.broken
      /\ d.probing = e.probing /\ d.reqs = e.reqs /\ d.timers = e.timers
      /\ d.up = e.up /\ d.good = e.good /\ d.inflight = e.inflight
      /\ d.queue = rest /\ d.fresh = f
  BY DEF Bases
<1> HIDE DEF d
<1>7. d.queue # <<>> => d.fresh = e.fresh
  BY <1>6 DEF f
<1>8. \A i \in 1..Len(rest) : rest # <<>> /\ i + 1 # 1 /\ i + 1 \in 1..Len(e.queue)
  BY <1>4
<1>9. \A i \in 1..Len(e.queue) : i # 1 => i - 1 \in 1..Len(rest) /\ rest[i - 1] = e.queue[i]
  <2> SUFFICES ASSUME NEW i \in 1..Len(e.queue), i # 1
               PROVE  i - 1 \in 1..Len(rest) /\ rest[i - 1] = e.queue[i]
    OBVIOUS
  <2>1. i - 1 \in 1..Len(rest) /\ (i - 1) + 1 = i
    BY <1>4
  <2> QED
    BY <1>4, <2>1
<1> QED
  BY <1>1, <1>4, <1>5, <1>6, <1>7, <1>8, <1>9 DEF Kin

\* The first callback runs: nobody sees to its server for the moment.
LEMMA DequeuedKeeps ==
    ASSUME NEW e, Sound(e), e.queue # <<>>, NEW Y, \A s \in Servers : Sees(e, 1, s) => s \in Y
    PROVE  /\ DnsInv(Dequeued(e), {}, Y) /\ Kin(Dequeued(e), e)
           /\ e.queue[1].q \in Asked =>
                LET c == e.queue[1]
                    d == Dequeued(e)
                IN  c.base \in DOMAIN d.lookups /\ c.q \in d.lookups[c.base].out /\ Gone(d, c.base, c.q)
<1> DEFINE d == Dequeued(e)
<1>1. e \in Bases /\ DnsInv(e, {}, {})
  BY SoundBase DEF Sound
<1>2. /\ d \in Bases /\ Kin(d, e) /\ d.probing = e.probing /\ d.reqs = e.reqs /\ d.timers = e.timers
      /\ d.up = e.up /\ d.good = e.good /\ d.inflight = e.inflight
      /\ d.queue # <<>> => d.fresh = e.fresh
      /\ 1 \in 1..Len(e.queue)
      /\ \A i \in 1..Len(d.queue) :
           d.queue # <<>> /\ i + 1 # 1 /\ i + 1 \in 1..Len(e.queue) /\ d.queue[i] = e.queue[i + 1]
      /\ \A i \in 1..Len(e.queue) : i # 1 =>
           i - 1 \in 1..Len(d.queue) /\ d.queue[i - 1] = e.queue[i]
  BY <1>1, DequeuedFields
<1> HIDE DEF d
<1>3. d.base = e.base /\ d.lookups = e.lookups
  BY <1>2 DEF Kin
<1>4. Counted(d) /\ Timed(d)
  <2>1. \A r : At(d, r) = At(e, r)
    BY <1>2 DEF At
  <2> QED
    BY <1>1, <1>2, <2>1 DEF Counted, Timed, Due, DnsInv
<1>5. \A i \in 1..Len(d.queue), s \in Servers : Sees(d, i, s) => Sees(e, i + 1, s)
  BY <1>2, <1>3 DEF Sees
<1>6. Watched(d, Y)
  <2> SUFFICES ASSUME NEW s \in Servers \ (d.up \union Y) PROVE Returning(d, s)
    BY DEF Watched
  <2>1. Returning(e, s)
    BY <1>1, <1>2 DEF DnsInv, Watched
  <2>2. ASSUME NEW i \in 1..Len(e.queue), Sees(e, i, s) PROVE Returning(d, s)
    <3>1. i # 1
      BY <2>2
    <3>2. Sees(d, i - 1, s) /\ i - 1 \in 1..Len(d.queue)
      BY <1>2, <1>3, <2>2, <3>1 DEF Sees
    <3> QED
      BY <3>2 DEF Returning
  <2> QED
    BY <1>2, <2>1, <2>2 DEF Returning
<1>7. Probed(d, {})
  <2>1. Probed(e, {})
    BY <1>1 DEF DnsInv
  <2>2. ASSUME NEW s \in Servers, NEW i \in 1..Len(d.queue), Sees(d, i, s)
        PROVE  Probe(s) \notin DOMAIN d.reqs /\ (Prod(s) \in d.timers => Prod(s) \in d.fresh)
    <3>1. i + 1 \in 1..Len(e.queue) /\ Sees(e, i + 1, s) /\ d.fresh = e.fresh
      BY <1>2, <1>5, <2>2
    <3> QED
      BY <1>2, <2>1, <3>1 DEF Probed
  <2> QED
    BY <1>2, <2>1, <2>2 DEF Probed
<1>8. \A i \in 1..Len(e.queue) : e.queue[i].q \in Asked => CallOk(e, i, {})
  BY <1>1 DEF DnsInv, Calls
<1>9. Calls(d, {})
  <2>1. ASSUME NEW i \in 1..Len(d.queue), d.queue[i].q \in Asked PROVE CallOk(d, i, {})
    <3>1. i + 1 \in 1..Len(e.queue) /\ d.queue[i] = e.queue[i + 1]
      BY <1>2
    <3>2. CallOk(e, i + 1, {})
      BY <1>8, <2>1, <3>1
    <3>3. ASSUME NEW j \in 1..Len(d.queue), d.queue[j].base = d.queue[i].base, d.queue[j].q = d.queue[i].q
          PROVE  j = i
      <4>1. j + 1 \in 1..Len(e.queue) /\ d.queue[j] = e.queue[j + 1]
        BY <1>2
      <4>2. j + 1 = i + 1
        BY <3>1, <3>2, <3>3, <4>1 DEF CallOk
      <4> QED
        BY <4>2
    <3> QED
      BY <1>2, <1>3, <3>1, <3>2, <3>3 DEF CallOk
  <2>2. Calls(e, {})
    BY <1>1 DEF DnsInv
  <2> QED
    BY <1>2, <1>3, <2>1, <2>2 DEF Calls
<1>10. Cut(d)
  <2>1. Cut(e)
    BY <1>1 DEF DnsInv
  <2> QED
    BY <1>2, <1>3, <2>1 DEF Cut
<1>11. ASSUME e.queue[1].q \in Asked
       PROVE  LET c == e.queue[1]
              IN  c.base \in DOMAIN d.lookups /\ c.q \in d.lookups[c.base].out /\ Gone(d, c.base, c.q)
  <2>1. CallOk(e, 1, {})
    BY <1>2, <1>8, <1>11
  <2>2. ASSUME NEW j \in 1..Len(d.queue), d.queue[j].base = e.queue[1].base, d.queue[j].q = e.queue[1].q
        PROVE  FALSE
    <3>1. j + 1 # 1 /\ j + 1 \in 1..Len(e.queue) /\ d.queue[j] = e.queue[j + 1]
      BY <1>2
    <3> QED
      BY <2>1, <2>2, <3>1 DEF CallOk
  <2> QED
    BY <1>2, <1>3, <2>1, <2>2 DEF CallOk, Gone
<1> QED
  BY <1>2, <1>4, <1>6, <1>7, <1>9, <1>10, <1>11 DEF DnsInv, d

LEMMA ProbeCallbackKeeps ==
    ASSUME NEW e, NEW s \in Servers, NEW res \in Ends, DnsInv(e, {}, {s}),
           Probe(s) \notin DOMAIN e.reqs, res = "cancel" => Sound(e)
    PROVE  Keeps(ProbeCallback(e, s, res), e)
<1> DEFINE d == [e EXCEPT !.probing = @ \ {s}]
<1>1. /\ DnsInv(d, {}, {s}) /\ Kin(d, e) /\ d.reqs = e.reqs /\ d.queue = e.queue
      /\ d.up = e.up
  <2>1. d.up = e.up
    BY DEF DnsInv, Bases
  <2> QED
    BY <2>1, HeardKeeps
<1>2. ProbeCallback(e, s, res) =
        CASE res = "cancel" -> e
          [] res \in {"ok", "notexist"} -> Up(d, s)
          [] res \in {"error", "shutdown"} -> IF s \in e.up THEN Disarm(d, Prod(s)) ELSE Arm(d, Prod(s))
  BY DEF ProbeCallback
<1> HIDE DEF d
<1>3. d \in Bases
  BY <1>1 DEF DnsInv
<1>4. CASE res = "cancel"
  BY <1>2, <1>4 DEF Keeps, Kin
<1>5. CASE res \in {"ok", "notexist"}
  <2>1. DnsInv(Up(d, s), {}, {s}) /\ Kin(Up(d, s), d) /\ s \in Up(d, s).up
    BY <1>1, UpKeeps
  <2>2. DnsInv(Up(d, s), {}, {})
    BY <2>1, UpIsWatched
  <2>3. Keeps(Up(d, s), e)
    BY <1>1, <2>1, <2>2 DEF Keeps, Sound, Kin
  <2> QED
    BY <1>2, <1>5, <2>3
<1>6. CASE res \in {"error", "shutdown"} /\ s \in e.up
  <2> DEFINE f == Disarm(d, Prod(s))
  <2>1. DnsInv(f, {}, {s} \union {s}) /\ {s} \union {s} \subseteq {} \union {s}
    BY <1>1, TimerGoes
  <2>2. Same(f, d) /\ f.up = d.up
    BY <1>3, DisarmFields
  <2>3. ProbeCallback(e, s, res) = f
    BY <1>2, <1>6
  <2> HIDE DEF f
  <2>4. DnsInv(f, {}, {})
    BY <1>1, <1>6, <2>1, <2>2, UpIsWatched
  <2> QED
    BY <1>1, <2>2, <2>3, <2>4 DEF Keeps, Sound, Kin, Same
<1>7. CASE res \in {"error", "shutdown"} /\ s \notin e.up
  <2> DEFINE f == Arm(d, Prod(s))
  <2>1. /\ f \in Bases /\ Same(f, d) /\ f.reqs = d.reqs /\ f.up = d.up /\ f.good = d.good
        /\ f.inflight = d.inflight /\ f.timers = d.timers \union {Prod(s)}
        /\ f.fresh = IF d.queue = <<>> THEN d.fresh ELSE d.fresh \union {Prod(s)}
    BY <1>3, Timers, ArmFields
  <2>2. ProbeCallback(e, s, res) = f
    BY <1>2, <1>7
  <2> HIDE DEF f
  <2>3. f.base = d.base /\ f.lookups = d.lookups /\ f.queue = d.queue /\ f.probing = d.probing
    BY <2>1 DEF Same
  <2>4. Counted(f) /\ Timed(f)
    <3>1. \A r : At(f, r) = At(d, r)
      BY <2>1 DEF At
    <3>2. Due(f)
      BY <1>1, <2>1, NamesDiffer DEF Timed, Due, DnsInv
    <3> QED
      BY <1>1, <2>1, <3>1, <3>2 DEF Counted, Timed, DnsInv
  <2>5. \A i, r : Sees(f, i, r) = Sees(d, i, r)
    BY <2>3 DEF Sees
  <2>6. Watched(f, {})
    <3> SUFFICES ASSUME NEW r \in Servers \ f.up PROVE Returning(f, r)
      BY DEF Watched
    <3>1. r # s => Returning(d, r)
      BY <1>1, <2>1 DEF DnsInv, Watched
    <3> QED
      BY <2>1, <2>3, <2>5, <3>1 DEF Returning
  <2>7. Probed(f, {})
    <3>1. Probed(d, {}) /\ \A r \in Servers : Prod(r) = Prod(s) => r = s
      BY <1>1, NamesDiffer DEF DnsInv
    <3>2. ASSUME NEW r \in Servers, Probe(r) \in DOMAIN f.reqs
          PROVE  r \notin f.up /\ r \in f.probing /\ Prod(r) \notin f.timers
      <4>1. r # s /\ Probe(r) \in DOMAIN d.reqs
        BY <1>1, <2>1, <3>2
      <4> QED
        BY <2>1, <2>3, <3>1, <4>1 DEF Probed
    <3>3. ASSUME NEW r \in Servers, NEW i \in 1..Len(f.queue), Sees(f, i, r)
          PROVE  Probe(r) \notin DOMAIN f.reqs /\ (Prod(r) \in f.timers => Prod(r) \in f.fresh)
      <4>1. i \in 1..Len(d.queue) /\ Sees(d, i, r)
        BY <2>3, <2>5, <3>3
      <4>2. d.queue # <<>>
        <5>1. Len(<<>>) = 0
          OBVIOUS
        <5> QED
          BY <4>1, <5>1
      <4>3. Probe(r) \notin DOMAIN d.reqs /\ (Prod(r) \in d.timers => Prod(r) \in d.fresh)
        BY <3>1, <4>1 DEF Probed
      <4> QED
        BY <2>1, <4>2, <4>3
    <3>4. \A r \in Servers : Prod(r) \in f.timers => r \notin f.up
      BY <1>1, <1>7, <2>1, <3>1 DEF Probed
    <3> QED
      BY <3>2, <3>3, <3>4 DEF Probed
  <2>8. Calls(f, {})
    BY <1>1, <2>1, <2>3 DEF Calls, CallOk, DnsInv
  <2>9. Cut(f)
    <3>1. Cut(d) /\ \A r \in Nat : Prod(s) # Skew(r)
      BY <1>1 DEF DnsInv, Prod, Skew
    <3> QED
      BY <2>1, <2>3, <3>1 DEF Cut
  <2> QED
    BY <1>1, <2>1, <2>2, <2>4, <2>6, <2>7, <2>8, <2>9 DEF DnsInv, Keeps, Sound, Kin, Same
<1> QED
  BY <1>4, <1>5, <1>6, <1>7 DEF Ends

-----------------------------------------------------------------------------
(* Lookups. *)

\* Only the lookups change, and their timers.
LEMMA LookupKeeps ==
    ASSUME NEW e, Sound(e), NEW d \in Bases, d.base = e.base, d.queue = e.queue, d.reqs = e.reqs,
           d.up = e.up, d.good = e.good, d.inflight = e.inflight, d.probing = e.probing,
           \A t \in Queries : t \in e.timers <=> t \in d.timers,
           \A s \in Servers : Prod(s) \in d.timers <=> Prod(s) \in e.timers,
           \A s \in Servers : Prod(s) \in e.fresh => Prod(s) \in d.fresh,
           Calls(d, {}), Cut(d)
    PROVE  Sound(d)
<1>1. e \in Bases /\ DnsInv(e, {}, {})
  BY SoundBase DEF Sound
<1>2. Counted(d)
  <2>1. \A r : At(d, r) = At(e, r)
    BY DEF At
  <2> QED
    BY <1>1, <2>1 DEF Counted, DnsInv
<1>3. Timed(d)
  BY <1>1, Fields DEF Timed, Due, DnsInv
<1>4. \A i, r : Sees(d, i, r) = Sees(e, i, r)
  BY DEF Sees
<1>5. Watched(d, {})
  BY <1>1, <1>4 DEF DnsInv, Watched, Returning
<1>6. Probed(d, {})
  BY <1>1, <1>4 DEF DnsInv, Probed
<1> QED
  BY <1>2, <1>3, <1>5, <1>6 DEF DnsInv, Sound

LEMMA LookupFields ==
    ASSUME NEW e \in Bases, NEW r \in DOMAIN e.lookups
    PROVE  /\ r \in Nat /\ e.lookups[r].out \in SUBSET Asked /\ e.lookups[r].result \in {"none", "ok", "error"}
           /\ e.lookups[r].cb \in {"set", "null"} /\ e.lookups[r] \in Lookup
<1>1. e.lookups[r] \in Lookup /\ r \in Nat
  BY Fields
<1> QED
  BY <1>1 DEF Lookup

\* The lookups after one of them changed.
Revised(e, r, data) == [e EXCEPT !.lookups = [@ EXCEPT ![r] = data]]

LEMMA RevisedFields ==
    ASSUME NEW e \in Bases, NEW r \in DOMAIN e.lookups, NEW data \in Lookup
    PROVE  LET d == Revised(e, r, data)
           IN  /\ d \in Bases /\ d.base = e.base /\ d.queue = e.queue /\ d.reqs = e.reqs
               /\ d.up = e.up /\ d.good = e.good /\ d.inflight = e.inflight /\ d.probing = e.probing
               /\ d.broken = e.broken /\ d.timers = e.timers /\ d.fresh = e.fresh
               /\ DOMAIN d.lookups = DOMAIN e.lookups /\ d.lookups[r] = data
               /\ \A p \in DOMAIN e.lookups : p # r => d.lookups[p] = e.lookups[p]
<1> DEFINE L == [e.lookups EXCEPT ![r] = data]
           d == [e EXCEPT !.lookups = L]
<1>1. Revised(e, r, data) = d
  BY DEF Revised
<1>2. /\ DOMAIN L = DOMAIN e.lookups /\ L[r] = data
      /\ \A p \in DOMAIN e.lookups : p # r => L[p] = e.lookups[p]
  OBVIOUS
<1>3. L \in UNION {[D -> Lookup] : D \in SUBSET Nat}
  <2>1. L \in [DOMAIN e.lookups -> Lookup] /\ DOMAIN e.lookups \in SUBSET Nat
    BY Fields
  <2> QED
    BY <2>1
<1> HIDE DEF L
<1>4. d \in Bases
  BY <1>3 DEF Bases
<1>5. /\ d.base = e.base /\ d.queue = e.queue /\ d.reqs = e.reqs
      /\ d.up = e.up /\ d.good = e.good /\ d.inflight = e.inflight /\ d.probing = e.probing
      /\ d.broken = e.broken /\ d.timers = e.timers /\ d.fresh = e.fresh /\ d.lookups = L
  BY DEF Bases
<1> HIDE DEF d
<1> QED
  BY <1>1, <1>2, <1>4, <1>5

\* The lookups after one of them is gone.
LEMMA FreeFields ==
    ASSUME NEW e \in Bases, NEW r
    PROVE  LET d == FreeLookup(e, r)
           IN  /\ d \in Bases /\ d.base = e.base /\ d.queue = e.queue /\ d.reqs = e.reqs
               /\ d.up = e.up /\ d.good = e.good /\ d.inflight = e.inflight /\ d.probing = e.probing
               /\ d.broken = e.broken /\ d.timers = e.timers \ {Skew(r)} /\ d.fresh = e.fresh \ {Skew(r)}
               /\ DOMAIN d.lookups = DOMAIN e.lookups \ {r}
               /\ \A p \in DOMAIN e.lookups : p # r => d.lookups[p] = e.lookups[p]
<1> DEFINE a == Disarm(e, Skew(r))
           L == Restrict(a.lookups, DOMAIN a.lookups \ {r})
           d == [a EXCEPT !.lookups = L]
<1>1. FreeLookup(e, r) = d
  BY DEF FreeLookup
<1>2. /\ a \in Bases /\ Same(a, e) /\ a.reqs = e.reqs /\ a.up = e.up /\ a.good = e.good
      /\ a.inflight = e.inflight /\ a.timers = e.timers \ {Skew(r)} /\ a.fresh = e.fresh \ {Skew(r)}
  BY DisarmFields
<1> HIDE DEF a
<1>3. DOMAIN L = DOMAIN a.lookups \ {r} /\ \A p \in DOMAIN a.lookups : p # r => L[p] = a.lookups[p]
  BY DEF Restrict
<1>4. L \in UNION {[D -> Lookup] : D \in SUBSET Nat}
  <2>1. L \in [DOMAIN a.lookups \ {r} -> Lookup] /\ DOMAIN a.lookups \ {r} \in SUBSET Nat
    BY <1>2, Fields DEF Restrict
  <2> QED
    BY <2>1
<1> HIDE DEF L
<1>5. d \in Bases
  BY <1>2, <1>4 DEF Bases
<1>6. /\ d.base = a.base /\ d.queue = a.queue /\ d.reqs = a.reqs
      /\ d.up = a.up /\ d.good = a.good /\ d.inflight = a.inflight /\ d.probing = a.probing
      /\ d.broken = a.broken /\ d.timers = a.timers /\ d.fresh = a.fresh /\ d.lookups = L
  BY <1>2 DEF Bases
<1> HIDE DEF d
<1> QED
  BY <1>1, <1>2, <1>3, <1>5, <1>6 DEF Same

\* Lookup r waits for nothing else.
LEMMA FreeKeeps ==
    ASSUME NEW e, Sound(e), NEW r \in DOMAIN e.lookups, NEW q, LastOut(e, r, q)
    PROVE  LET d == FreeLookup(e, r)
           IN  /\ Sound(d) /\ d.base = e.base /\ d.broken = e.broken /\ d.reqs = e.reqs /\ d.queue = e.queue
               /\ d.up = e.up /\ DOMAIN d.lookups = DOMAIN e.lookups \ {r}
               /\ \A p \in DOMAIN e.lookups : p # r => d.lookups[p] = e.lookups[p]
<1> DEFINE d == FreeLookup(e, r)
<1>1. e \in Bases /\ DnsInv(e, {}, {})
  BY SoundBase DEF Sound
<1>2. /\ d \in Bases /\ d.base = e.base /\ d.queue = e.queue /\ d.reqs = e.reqs
      /\ d.up = e.up /\ d.good = e.good /\ d.inflight = e.inflight /\ d.probing = e.probing
      /\ d.broken = e.broken /\ d.timers = e.timers \ {Skew(r)} /\ d.fresh = e.fresh \ {Skew(r)}
      /\ DOMAIN d.lookups = DOMAIN e.lookups \ {r}
      /\ \A p \in DOMAIN e.lookups : p # r => d.lookups[p] = e.lookups[p]
  BY <1>1, FreeFields
<1> HIDE DEF d
<1>3. Calls(d, {})
  <2>1. Calls(e, {})
    BY <1>1 DEF DnsInv
  <2>2. ASSUME NEW i \in 1..Len(d.queue), d.queue[i].q \in Asked PROVE CallOk(d, i, {})
    <3>1. CallOk(e, i, {})
      BY <1>2, <2>1, <2>2 DEF Calls
    <3>2. e.queue[i].base # r
      BY <1>2, <3>1 DEF CallOk, LastOut, Gone
    <3> QED
      BY <1>2, <3>1, <3>2 DEF CallOk
  <2>3. ASSUME NEW p \in Asked \cap DOMAIN d.reqs
        PROVE  d.base \in DOMAIN d.lookups /\ p \in d.lookups[d.base].out
    <3>1. e.base \in DOMAIN e.lookups /\ p \in e.lookups[e.base].out
      BY <1>2, <2>1 DEF Calls
    <3>2. e.base # r
      BY <1>2, <3>1 DEF LastOut, Gone
    <3> QED
      BY <1>2, <3>1, <3>2
  <2> QED
    BY <2>2, <2>3 DEF Calls
<1>4. Cut(d)
  <2>1. Cut(e)
    BY <1>1 DEF DnsInv
  <2>2. \A p \in Nat : Skew(p) \in d.timers => p # r /\ Skew(p) \in e.timers
    BY <1>2
  <2> QED
    BY <1>2, <2>1, <2>2 DEF Cut
<1>5. /\ \A t \in Queries : t # Skew(r)
      /\ \A s \in Servers : Prod(s) # Skew(r)
  BY NamesDiffer DEF Prod, Skew
<1>6. Sound(d)
  BY <1>2, <1>3, <1>4, <1>5, LookupKeeps
<1> QED
  BY <1>2, <1>6 DEF d

\* Lookup r waits for less, or has told the outcome.
LEMMA RevisedKeeps ==
    ASSUME NEW e, Sound(e), NEW r \in DOMAIN e.lookups, NEW data \in Lookup,
           data.out \subseteq e.lookups[r].out,
           \A q \in e.lookups[r].out \ data.out : Gone(e, r, q),
           data.cb = e.lookups[r].cb \/ (data.out # Asked /\ Skew(r) \notin e.timers)
    PROVE  LET d == Revised(e, r, data)
           IN  /\ Sound(d) /\ d.base = e.base /\ d.broken = e.broken /\ d.reqs = e.reqs /\ d.queue = e.queue
               /\ d.up = e.up /\ DOMAIN d.lookups = DOMAIN e.lookups /\ d.lookups[r] = data
               /\ \A p \in DOMAIN e.lookups : p # r => d.lookups[p] = e.lookups[p]
<1> DEFINE d == Revised(e, r, data)
<1>1. e \in Bases /\ DnsInv(e, {}, {})
  BY SoundBase DEF Sound
<1>2. /\ d \in Bases /\ d.base = e.base /\ d.queue = e.queue /\ d.reqs = e.reqs
      /\ d.up = e.up /\ d.good = e.good /\ d.inflight = e.inflight /\ d.probing = e.probing
      /\ d.broken = e.broken /\ d.timers = e.timers /\ d.fresh = e.fresh
      /\ DOMAIN d.lookups = DOMAIN e.lookups /\ d.lookups[r] = data
      /\ \A p \in DOMAIN e.lookups : p # r => d.lookups[p] = e.lookups[p]
  BY <1>1, RevisedFields
<1> HIDE DEF d
<1>3. Calls(d, {})
  <2>1. Calls(e, {})
    BY <1>1 DEF DnsInv
  <2>2. ASSUME NEW i \in 1..Len(d.queue), d.queue[i].q \in Asked PROVE CallOk(d, i, {})
    <3>1. CallOk(e, i, {})
      BY <1>2, <2>1, <2>2 DEF Calls
    <3>2. d.queue[i].q \in d.lookups[d.queue[i].base].out
      <4>1. CASE d.queue[i].base = r
        BY <1>2, <3>1, <4>1 DEF CallOk, Gone
      <4>2. CASE d.queue[i].base # r
        BY <1>2, <3>1, <4>2 DEF CallOk
      <4> QED
        BY <4>1, <4>2
    <3> QED
      BY <1>2, <3>1, <3>2 DEF CallOk
  <2>3. ASSUME NEW p \in Asked \cap DOMAIN d.reqs
        PROVE  d.base \in DOMAIN d.lookups /\ p \in d.lookups[d.base].out
    <3>1. e.base \in DOMAIN e.lookups /\ p \in e.lookups[e.base].out
      BY <1>2, <2>1 DEF Calls
    <3>2. CASE e.base = r
      BY <1>2, <3>1, <3>2 DEF Gone
    <3>3. CASE e.base # r
      BY <1>2, <3>1, <3>3
    <3> QED
      BY <3>2, <3>3
  <2> QED
    BY <2>2, <2>3 DEF Calls
<1>4. Cut(d)
  <2>1. Cut(e) /\ (data.out = Asked => e.lookups[r].out = Asked)
    <3>1. e.lookups[r].out \in SUBSET Asked
      BY <1>1, LookupFields
    <3> QED
      BY <1>1, <3>1 DEF DnsInv
  <2>2. \A p \in DOMAIN d.lookups : d.lookups[p].cb = "null" => d.lookups[p].out # Asked
    BY <1>2, <2>1 DEF Cut
  <2>3. ASSUME NEW p \in Nat, Skew(p) \in d.timers
        PROVE  p \in DOMAIN d.lookups /\ d.lookups[p].cb = "set" /\ d.lookups[p].out # Asked
    <3>1. p \in DOMAIN e.lookups /\ e.lookups[p].cb = "set" /\ e.lookups[p].out # Asked
      BY <1>2, <2>1, <2>3 DEF Cut
    <3>2. CASE p = r
      BY <1>2, <2>1, <2>3, <3>1, <3>2
    <3>3. CASE p # r
      BY <1>2, <3>1, <3>3
    <3> QED
      BY <3>2, <3>3
  <2> QED
    BY <2>2, <2>3 DEF Cut
<1>5. Sound(d)
  BY <1>2, <1>3, <1>4, LookupKeeps
<1> QED
  BY <1>2, <1>5 DEF d

\* The timer of a lookup that waits for one query.
LEMMA ArmSkewKeeps ==
    ASSUME NEW e, Sound(e), NEW r \in DOMAIN e.lookups, e.lookups[r].cb = "set", e.lookups[r].out # Asked
    PROVE  LET d == Arm(e, Skew(r))
           IN  /\ Sound(d) /\ d.base = e.base /\ d.broken = e.broken /\ d.reqs = e.reqs /\ d.queue = e.queue
               /\ d.up = e.up /\ d.lookups = e.lookups
<1> DEFINE d == Arm(e, Skew(r))
<1>1. e \in Bases /\ DnsInv(e, {}, {}) /\ r \in Nat
  BY SoundBase, LookupFields DEF Sound
<1>2. /\ d \in Bases /\ Same(d, e) /\ d.reqs = e.reqs /\ d.up = e.up /\ d.good = e.good
      /\ d.inflight = e.inflight /\ d.timers = e.timers \union {Skew(r)}
      /\ d.fresh = IF e.queue = <<>> THEN e.fresh ELSE e.fresh \union {Skew(r)}
  BY <1>1, ArmFields, Timers
<1> HIDE DEF d
<1>3. /\ d.base = e.base /\ d.lookups = e.lookups /\ d.queue = e.queue /\ d.probing = e.probing
      /\ d.broken = e.broken
  BY <1>2 DEF Same
<1>4. Calls(d, {})
  BY <1>1, <1>2, <1>3 DEF Calls, CallOk, DnsInv
<1>5. Cut(d)
  <2>1. Cut(e)
    BY <1>1 DEF DnsInv
  <2>2. \A p \in Nat : Skew(p) \in d.timers => p = r \/ Skew(p) \in e.timers
    BY <1>2, NamesDiffer
  <2> QED
    BY <1>3, <2>1, <2>2 DEF Cut
<1>6. /\ \A t \in Queries : t # Skew(r)
      /\ \A s \in Servers : Prod(s) # Skew(r)
  BY NamesDiffer DEF Prod, Skew
<1>7. Sound(d)
  BY <1>2, <1>3, <1>4, <1>5, <1>6, LookupKeeps
<1> QED
  BY <1>2, <1>3, <1>7 DEF d

\* From e to d lookup r went on, and had an outcome or not.
WentOn(d, e, r, outcome) ==
    /\ Sound(d) /\ d.base = e.base /\ d.broken = e.broken
    /\ DOMAIN d.lookups \subseteq DOMAIN e.lookups /\ outcome \in {"none", "ok", "error"}
    /\ \A p \in DOMAIN d.lookups : d.lookups[p].cb = "set" => e.lookups[p].cb = "set"
    /\ outcome # "none" =>
         e.lookups[r].cb = "set" /\ (r \in DOMAIN d.lookups => d.lookups[r].cb = "null")

\* Lookup r has an A record, unless it still waits for it.
Well(e, r) == r \in DOMAIN e.lookups /\ A \notin e.lookups[r].out => e.lookups[r].result = "ok"
Hit(e, r, q, res) == Well(e, r) /\ (q = A => res = "ok")

LEMMA GotResolveKeeps ==
    ASSUME NEW e, Sound(e), NEW r \in DOMAIN e.lookups, NEW q \in e.lookups[r].out, NEW res \in Ends, Gone(e, r, q)
    PROVE  LET g == GotResolve(e, r, q, res)
           IN  /\ WentOn(g.e, e, r, g.outcome)
               /\ g.e.up = e.up /\ g.e.reqs = e.reqs /\ g.e.queue = e.queue
               /\ g.outcome # "none" => r \notin DOMAIN g.e.lookups
               /\ \A p \in DOMAIN g.e.lookups : p # r => g.e.lookups[p] = e.lookups[p]
               /\ Hit(e, r, q, res) => g.outcome # "error" /\ Well(g.e, r)
<1> DEFINE data == e.lookups[r]
           out == data.out \ {q}
           result == IF res = "ok" \/ data.result = "ok" THEN "ok" ELSE "error"
           new == IF res = "ok" THEN "ok" ELSE "error"
           waits == [e EXCEPT !.lookups[r].out = out]
           keeps == [waits EXCEPT !.lookups[r].result = new]
           freed == FreeLookup(e, r)
           none(d) == [e |-> d, outcome |-> "none"]
           W == [data EXCEPT !.out = out]
           K == [data EXCEPT !.out = out, !.result = new]
<1>1. e \in Bases /\ r \in Nat /\ data \in Lookup /\ data.out \in SUBSET Asked
      /\ data.cb \in {"set", "null"} /\ DnsInv(e, {}, {})
  BY SoundBase, LookupFields DEF Sound
<1>2. GotResolve(e, r, q, res) =
        CASE res = "cancel" -> none(IF out = {} THEN freed ELSE waits)
          [] res # "cancel" /\ data.cb = "null" -> none(freed)
          [] res # "cancel" /\ data.cb = "set" /\ out # {} ->
                none(IF res = "shutdown" THEN keeps ELSE Arm(keeps, Skew(r)))
          [] res # "cancel" /\ data.cb = "set" /\ out = {} -> [e |-> freed, outcome |-> result]
  BY DEF GotResolve
<1>3. data.cb = "null" => out = {}
  <2>1. data.cb = "null" => data.out # Asked
    BY <1>1 DEF DnsInv, Cut
  <2> QED
    BY <1>1, <2>1 DEF Asked
<1> DEFINE Like(d) == /\ Sound(d) /\ d.base = e.base /\ d.broken = e.broken
                       /\ d.reqs = e.reqs /\ d.queue = e.queue /\ d.up = e.up
<1>4. ASSUME out = {}
      PROVE  /\ Like(freed) /\ DOMAIN freed.lookups = DOMAIN e.lookups \ {r}
             /\ \A p \in DOMAIN e.lookups : p # r => freed.lookups[p] = e.lookups[p]
  <2>1. LastOut(e, r, q)
    BY <1>4 DEF LastOut
  <2> HIDE DEF data, out
  <2>2. LET d == FreeLookup(e, r)
        IN  /\ Sound(d) /\ d.base = e.base /\ d.broken = e.broken /\ d.reqs = e.reqs /\ d.queue = e.queue
            /\ d.up = e.up /\ DOMAIN d.lookups = DOMAIN e.lookups \ {r}
            /\ \A p \in DOMAIN e.lookups : p # r => d.lookups[p] = e.lookups[p]
    BY <2>1, FreeKeeps
  <2> QED
    BY <2>2
<1>5. /\ W \in Lookup /\ W.out = out /\ W.cb = data.cb /\ W.result = data.result
      /\ K \in Lookup /\ K.out = out /\ K.cb = data.cb /\ K.result = new
  <2>1. out \in SUBSET Asked /\ new \in {"none", "ok", "error"}
    BY <1>1
  <2> HIDE DEF data, out, new
  <2> QED
    BY <1>1, <2>1 DEF Lookup
<1>6. waits = Revised(e, r, W) /\ keeps = Revised(e, r, K)
  <2>1. waits = Revised(e, r, W)
    BY <1>1 DEF Revised, Bases
  <2>2. keeps = Revised(e, r, K)
    <3> DEFINE L == [e.lookups EXCEPT ![r] = W]
               M == [e.lookups EXCEPT ![r] = K]
    <3>1. [W EXCEPT !.result = new] = K
      <4> HIDE DEF data, out, new
      <4> QED
        BY <1>1 DEF Lookup
    <3>2. L[r] = W /\ [L EXCEPT ![r] = K] = M
      OBVIOUS
    <3>3. waits = [e EXCEPT !.lookups = L]
      BY <1>1 DEF Bases
    <3> HIDE DEF W, K, L, M, waits, new
    <3>4. waits.lookups = L
      BY <1>1, <3>3 DEF Bases
    <3>5. keeps = [waits EXCEPT !.lookups = [L EXCEPT ![r] = [L[r] EXCEPT !.result = new]]]
      BY <3>4
    <3>6. keeps = [waits EXCEPT !.lookups = M]
      BY <3>1, <3>2, <3>5
    <3>7. [[e EXCEPT !.lookups = L] EXCEPT !.lookups = M] = [e EXCEPT !.lookups = M]
      BY <1>1 DEF Bases
    <3> QED
      BY <3>3, <3>6, <3>7 DEF Revised, M
  <2> QED
    BY <2>1, <2>2
<1>7. /\ Hit(e, r, q, res) /\ res = "cancel" /\ A \notin out => data.result = "ok"
      /\ Hit(e, r, q, res) /\ out # {} /\ A \notin out => new = "ok"
      /\ Hit(e, r, q, res) /\ out = {} => result = "ok"
  BY <1>1 DEF Hit, Well, Asked
<1>8. result \in {"ok", "error"}
  OBVIOUS
<1> HIDE DEF W, K, waits, keeps, freed, result, new
<1>9. /\ Like(waits) /\ DOMAIN waits.lookups = DOMAIN e.lookups /\ waits.lookups[r] = W
      /\ \A p \in DOMAIN e.lookups : p # r => waits.lookups[p] = e.lookups[p]
  <2>1. W.out \subseteq e.lookups[r].out /\ \A p \in e.lookups[r].out \ W.out : p = q
    BY <1>5
  <2> QED
    BY <1>5, <1>6, <2>1, RevisedKeeps
<1>10. /\ Like(keeps) /\ DOMAIN keeps.lookups = DOMAIN e.lookups /\ keeps.lookups[r] = K
       /\ \A p \in DOMAIN e.lookups : p # r => keeps.lookups[p] = e.lookups[p]
  <2>1. K.out \subseteq e.lookups[r].out /\ \A p \in e.lookups[r].out \ K.out : p = q
    BY <1>5
  <2> QED
    BY <1>5, <1>6, <2>1, RevisedKeeps
<1> DEFINE Fine(g) == /\ WentOn(g.e, e, r, g.outcome)
                      /\ g.e.up = e.up /\ g.e.reqs = e.reqs /\ g.e.queue = e.queue
                      /\ g.outcome # "none" => r \notin DOMAIN g.e.lookups
                      /\ \A p \in DOMAIN g.e.lookups : p # r => g.e.lookups[p] = e.lookups[p]
                      /\ Hit(e, r, q, res) => g.outcome # "error" /\ Well(g.e, r)
<1>11. res = "cancel" => Fine(none(waits))
  <2>1. waits.lookups[r].out = out /\ waits.lookups[r].result = data.result
    BY <1>5, <1>9
  <2>2. ASSUME Hit(e, r, q, res), res = "cancel" PROVE Well(waits, r)
    <3>1. A \notin out => data.result = "ok"
      BY <1>7, <2>2
    <3> QED
      BY <2>1, <3>1 DEF Well
  <2>3. WentOn(waits, e, r, "none")
    BY <1>5, <1>9 DEF WentOn
  <2> QED
    BY <1>9, <2>2, <2>3
<1>12. Hit(e, r, q, res) /\ out # {} => Well(keeps, r)
  <2>1. keeps.lookups[r].out = out /\ keeps.lookups[r].result = new
    BY <1>5, <1>10
  <2>2. ASSUME Hit(e, r, q, res), out # {} PROVE Well(keeps, r)
    <3>1. A \notin out => new = "ok"
      BY <1>7, <2>2
    <3> QED
      BY <2>1, <3>1 DEF Well
  <2> QED
    BY <2>2
<1>13. out # {} => Fine(none(keeps))
  <2>1. WentOn(keeps, e, r, "none")
    BY <1>5, <1>10 DEF WentOn
  <2> QED
    BY <1>10, <1>12, <2>1
<1>14. out = {} => Fine(none(freed))
  <2>1. out = {} => WentOn(freed, e, r, "none")
    BY <1>4 DEF WentOn
  <2> QED
    BY <1>4, <2>1 DEF Well
<1>15. out = {} /\ data.cb = "set" => Fine([e |-> freed, outcome |-> result])
  <2>1. out = {} /\ data.cb = "set" => WentOn(freed, e, r, result)
    BY <1>4, <1>8 DEF WentOn
  <2>2. out = {} => Well(freed, r)
    BY <1>4 DEF Well
  <2>3. Hit(e, r, q, res) /\ out = {} => result # "error"
    BY <1>7
  <2> QED
    BY <1>4, <1>8, <2>1, <2>2, <2>3
<1>16. ASSUME data.cb = "set", out # {} PROVE Fine(none(Arm(keeps, Skew(r))))
  <2> DEFINE d == Arm(keeps, Skew(r))
  <2>1. r \in DOMAIN keeps.lookups /\ keeps.lookups[r].cb = "set" /\ keeps.lookups[r].out # Asked
    BY <1>1, <1>5, <1>10, <1>16
  <2>2. /\ Sound(d) /\ d.base = keeps.base /\ d.broken = keeps.broken /\ d.reqs = keeps.reqs
        /\ d.queue = keeps.queue /\ d.up = keeps.up /\ d.lookups = keeps.lookups
    BY <1>10, <2>1, ArmSkewKeeps
  <2> HIDE DEF d
  <2>3. \A p \in DOMAIN d.lookups : d.lookups[p].cb = "set" => e.lookups[p].cb = "set"
    BY <1>5, <1>10, <2>2
  <2>4. WentOn(d, e, r, "none")
    BY <1>10, <2>2, <2>3 DEF WentOn
  <2>5. Hit(e, r, q, res) => Well(d, r)
    BY <1>16, <1>12, <2>2 DEF Well
  <2>6. Fine(none(d))
    BY <1>10, <2>2, <2>4, <2>5
  <2> QED
    BY <2>6 DEF d
<1> HIDE DEF Fine
<1>17. Fine(GotResolve(e, r, q, res))
  BY <1>1, <1>2, <1>3, <1>11, <1>13, <1>14, <1>15, <1>16
<1> QED
  BY <1>17 DEF Fine

\* Queries of a lookup are cancelled.
LEMMA CancelFold ==
    ASSUME NEW e, Sound(e), NEW S \in SUBSET Asked
    PROVE  Keeps(CancelAll(e, S), e) /\ CancelAll(e, S).up = e.up
<1> DEFINE Is(x) == Keeps(x, e) /\ x.up = e.up
           op(x, i) == Cancel(x, i)
           pick(T) == CHOOSE s \in T : TRUE
           J == [T \in SUBSET S |-> {x \in Bases : Is(x)}]
           c == [T \in SUBSET S |-> pick(T)]
           F == [p \in S \X Bases |-> op(p[2], p[1])]
           it == CHOOSE f : f =
                     [T \in SUBSET S |-> IF T = {} THEN e ELSE op(f[T \ {pick(T)}], pick(T))]
<1>1. CancelAll(e, S) = it[S]
  BY DEF CancelAll, FoldSet, MapThenFoldSet
<1>2. IsFiniteSet(S)
  <2>1. S \in SUBSET Queries
    BY NamesDiffer
  <2> QED
    BY <2>1, QueriesFinite, FS_Subset
<1>3. \A T \in SUBSET S : T # {} => c[T] \in T /\ c[T] = pick(T)
  OBVIOUS
<1>4. \A T \in SUBSET S : J[T] \subseteq Bases
  OBVIOUS
<1>5. \A i \in S, x \in Bases : F[<<i, x>>] = op(x, i)
  OBVIOUS
<1>6. e \in J[{}]
  BY SoundBase DEF Keeps, Kin
<1>7. \A T \in SUBSET S : \A i \in S \ T : \A x \in J[T] : F[<<i, x>>] \in J[T \union {i}]
  <2> SUFFICES ASSUME NEW T \in SUBSET S, NEW i \in S \ T, NEW x \in J[T]
               PROVE  F[<<i, x>>] \in J[T \union {i}]
    OBVIOUS
  <2> HIDE DEF F
  <2>1. Keeps(x, e) /\ x.up = e.up /\ x \in Bases
    OBVIOUS
  <2>2. F[<<i, x>>] = op(x, i)
    BY <1>5, <2>1
  <2>3. Sound(x) /\ Kin(x, e) /\ DnsInv(x, {}, {})
    BY <2>1 DEF Keeps, Sound
  <2>4. i \in Queries /\ i \notin {} /\ \A s \in Servers : i # Probe(s)
    BY NamesDiffer
  <2>5. DnsInv(Cancel(x, i), {}, {}) /\ Kin(Cancel(x, i), x) /\ Cancel(x, i).up = x.up
    BY <2>3, <2>4, CancelKeeps
  <2>6. Keeps(Cancel(x, i), x)
    BY <2>5 DEF Keeps, Sound
  <2>7. Keeps(Cancel(x, i), e)
    BY <2>3, <2>6, KeepsOn
  <2>8. Is(op(x, i)) /\ op(x, i) \in Bases
    <3>1. Cancel(x, i) \in Bases
      BY <2>5 DEF DnsInv
    <3> QED
      BY <2>1, <2>5, <2>7, <3>1
  <2>9. T \union {i} \in SUBSET S
    OBVIOUS
  <2> QED
    BY <2>2, <2>8, <2>9
<1>8. \A x : x \in J[S] => Is(x)
  OBVIOUS
<1> HIDE DEF op, pick, J, c, F, it, Is
<1>9. \A T \in SUBSET S : T # {} => c[T] \in T
  BY <1>3
<1>10. PICK g : FoldGraph(S, c, Bases, F, e, g)
  <2>1. FoldStep(S, c, Bases, J, F, e)
    BY <1>4, <1>6, <1>7, <1>9, Zenon DEF FoldStep
  <2> QED
    BY <1>2, <2>1, FoldExists, Zenon
<1>11. g \in [SUBSET S -> Bases] /\ \A T \in SUBSET S :
          g[T] = IF T = {} THEN e ELSE F[<<c[T], g[T \ {c[T]}]>>]
  BY <1>10, Zenon DEF FoldGraph
<1>12. it = [T \in SUBSET S |-> IF T = {} THEN e ELSE op(it[T \ {pick(T)}], pick(T))]
  <2>1. ASSUME NEW T \in SUBSET S, T # {}
        PROVE  g[T] = op(g[T \ {pick(T)}], pick(T))
    <3>1. c[T] \in S /\ T \ {c[T]} \in SUBSET S /\ c[T] = pick(T)
      BY <1>3, <2>1
    <3>2. g[T \ {c[T]}] \in Bases
      BY <1>11, <3>1
    <3>3. g[T] = F[<<c[T], g[T \ {c[T]}]>>]
      BY <1>11, <2>1
    <3>4. g[T] = op(g[T \ {c[T]}], c[T])
      BY <1>5, <3>1, <3>2, <3>3
    <3> QED
      BY <3>1, <3>4
  <2>2. g = [T \in SUBSET S |-> IF T = {} THEN e ELSE op(g[T \ {pick(T)}], pick(T))]
    <3>1. g[{}] = e
      BY <1>11
    <3>2. g = [T \in SUBSET S |-> g[T]]
      BY <1>11
    <3>3. \A T \in SUBSET S : g[T] = IF T = {} THEN e ELSE op(g[T \ {pick(T)}], pick(T))
      BY <3>1, <2>1
    <3> DEFINE R == [T \in SUBSET S |-> IF T = {} THEN e ELSE op(g[T \ {pick(T)}], pick(T))]
    <3>4. \A T \in SUBSET S : R[T] = g[T]
      BY <3>3
    <3>5. R = [T \in SUBSET S |-> R[T]]
      OBVIOUS
    <3> HIDE DEF R
    <3>6. g = R
      BY <3>2, <3>4, <3>5
    <3> QED
      BY <3>6 DEF R
  <2> DEFINE Q(f) == f = [T \in SUBSET S |-> IF T = {} THEN e ELSE op(f[T \ {pick(T)}], pick(T))]
  <2>3. Q(g)
    BY <2>2
  <2>4. it = CHOOSE f : Q(f)
    BY DEF it
  <2> HIDE DEF Q
  <2>5. Q(it)
    BY <2>3, <2>4, Zenon
  <2> QED
    BY <2>5 DEF Q
<1>13. it[{}] \in J[{}]
  <2>1. it[{}] = e
    BY <1>12
  <2> QED
    BY <1>6, <2>1
<1>14. ASSUME NEW T \in SUBSET S, T # {}, it[T \ {c[T]}] \in J[T \ {c[T]}]
       PROVE  it[T] \in J[T]
  <2>1. /\ c[T] \in S \ (T \ {c[T]}) /\ T \ {c[T]} \in SUBSET S
        /\ (T \ {c[T]}) \union {c[T]} = T /\ c[T] = pick(T)
    BY <1>3, <1>14
  <2>2. it[T \ {c[T]}] \in Bases
    BY <1>4, <1>14, <2>1
  <2>3. F[<<c[T], it[T \ {c[T]}]>>] \in J[T]
    BY <1>7, <1>14, <2>1
  <2>4. it[T] = op(it[T \ {c[T]}], c[T])
    BY <1>12, <1>14, <2>1
  <2>5. it[T] = F[<<c[T], it[T \ {c[T]}]>>]
    BY <1>5, <2>1, <2>2, <2>4
  <2> QED
    BY <2>3, <2>5
<1>15. it[S] \in J[S]
  BY <1>2, <1>9, <1>13, <1>14, FoldInduct
<1> QED
  BY <1>1, <1>8, <1>15 DEF Is

LEMMA GotSkewKeeps ==
    ASSUME NEW e, Sound(e), NEW r \in Nat, Skew(r) \in e.timers
    PROVE  LET g == GotSkew(e, r)
           IN  r \in DOMAIN e.lookups /\ WentOn(g.e, e, r, g.outcome)
<1> DEFINE data == e.lookups[r]
           a == Disarm(e, Skew(r))
           K == [data EXCEPT !.cb = "null"]
           done == [a EXCEPT !.lookups[r].cb = "null"]
           d == CancelAll(done, data.out)
<1>1. GotSkew(e, r) = [e |-> d, outcome |-> data.result]
  BY DEF GotSkew
<1>2. /\ e \in Bases /\ r \in DOMAIN e.lookups /\ data.cb = "set" /\ data.out # Asked
      /\ DnsInv(e, {}, {})
  BY SoundBase DEF Sound, DnsInv, Cut
<1>3. data.out \in SUBSET Asked /\ data.result \in {"none", "ok", "error"} /\ data \in Lookup
  BY <1>2, LookupFields
<1>4. /\ a \in Bases /\ Same(a, e) /\ a.reqs = e.reqs /\ a.up = e.up /\ a.good = e.good
      /\ a.inflight = e.inflight /\ a.timers = e.timers \ {Skew(r)} /\ a.fresh = e.fresh \ {Skew(r)}
  BY <1>2, DisarmFields
<1> HIDE DEF a
<1>5. /\ a.base = e.base /\ a.lookups = e.lookups /\ a.queue = e.queue /\ a.probing = e.probing
      /\ a.broken = e.broken
  BY <1>4 DEF Same
<1>6. Sound(a)
  <2>1. Calls(a, {})
    BY <1>2, <1>4, <1>5 DEF Calls, CallOk, DnsInv
  <2>2. Cut(a)
    <3>1. Cut(e)
      BY <1>2 DEF DnsInv
    <3> QED
      BY <1>4, <1>5, <3>1 DEF Cut
  <2>3. /\ \A t \in Queries : t # Skew(r)
        /\ \A s \in Servers : Prod(s) # Skew(r)
    BY NamesDiffer DEF Prod, Skew
  <2> QED
    BY <1>4, <1>5, <2>1, <2>2, <2>3, LookupKeeps
<1>7. K \in Lookup /\ K.out = data.out /\ K.cb = "null" /\ K.result = data.result
  <2> HIDE DEF data
  <2> QED
    BY <1>3 DEF Lookup
<1>8. done = Revised(a, r, K)
  BY <1>4, <1>5 DEF Revised, Bases
<1> HIDE DEF K, done
<1>9. /\ Sound(done) /\ done.base = a.base /\ done.broken = a.broken
      /\ DOMAIN done.lookups = DOMAIN a.lookups /\ done.lookups[r] = K
      /\ \A p \in DOMAIN a.lookups : p # r => done.lookups[p] = a.lookups[p]
  <2>1. r \in DOMAIN a.lookups /\ K.out \subseteq a.lookups[r].out
    BY <1>2, <1>5, <1>7
  <2>2. \A q \in a.lookups[r].out \ K.out : Gone(a, r, q)
    BY <1>5, <1>7
  <2>3. K.out # Asked /\ Skew(r) \notin a.timers
    BY <1>2, <1>4, <1>7
  <2> QED
    BY <1>6, <1>7, <1>8, <2>1, <2>2, <2>3, RevisedKeeps
<1> HIDE DEF data
<1>10. Keeps(d, done)
  BY <1>3, <1>9, CancelFold
<1> HIDE DEF d
<1>11. Sound(d) /\ d.base = e.base /\ d.broken = e.broken /\ d.lookups = done.lookups
  BY <1>5, <1>9, <1>10 DEF Keeps, Kin
<1>12. \A p \in DOMAIN d.lookups : d.lookups[p].cb = "set" => e.lookups[p].cb = "set"
  BY <1>5, <1>7, <1>9, <1>11
<1>13. WentOn(d, e, r, data.result)
  BY <1>2, <1>3, <1>5, <1>7, <1>9, <1>11, <1>12 DEF WentOn, data
<1> QED
  BY <1>1, <1>2, <1>13

-----------------------------------------------------------------------------
(* Bases come and go. *)

\* What is left of a resolver whose queries all ended.
Left(x, e, S) ==
    /\ Sound(x) /\ x.lookups = e.lookups /\ x.base = e.base
    /\ DOMAIN x.reqs = DOMAIN e.reqs \ S /\ x.timers \subseteq e.timers
    /\ \A i \in 1..Len(x.queue) :
         \/ x.queue[i].res = "shutdown" /\ x.queue[i].q \in S
         \/ \E j \in 1..Len(e.queue) : x.queue[i] = e.queue[j]

\* All queries end.
LEMMA FailFold ==
    ASSUME NEW e, Sound(e)
    PROVE  Left(FailAll(e, DOMAIN e.reqs), e, DOMAIN e.reqs)
<1> DEFINE S == DOMAIN e.reqs
           Is(x) == Left(x, e, S)
           op(x, i) == Ended(x, i, "shutdown")
           pick(T) == CHOOSE s \in T : TRUE
           J == [T \in SUBSET S |-> {x \in Bases : Left(x, e, T)}]
           c == [T \in SUBSET S |-> pick(T)]
           F == [p \in S \X Bases |-> op(p[2], p[1])]
           it == CHOOSE f : f =
                     [T \in SUBSET S |-> IF T = {} THEN e ELSE op(f[T \ {pick(T)}], pick(T))]
<1>1. FailAll(e, DOMAIN e.reqs) = it[S]
  BY DEF FailAll, FoldSet, MapThenFoldSet
<1>2. IsFiniteSet(S) /\ e \in Bases /\ S \in SUBSET Queries
  <2>1. e \in Bases /\ S \in SUBSET Queries
    BY SoundBase, Fields
  <2> QED
    BY <2>1, QueriesFinite, FS_Subset
<1> HIDE DEF S
<1>3. \A T \in SUBSET S : T # {} => c[T] \in T /\ c[T] = pick(T)
  OBVIOUS
<1>4. \A T \in SUBSET S : J[T] \subseteq Bases
  OBVIOUS
<1>5. \A i \in S, x \in Bases : F[<<i, x>>] = op(x, i)
  OBVIOUS
<1>6. e \in J[{}]
  <2>1. Left(e, e, {})
    BY <1>2 DEF Left
  <2> QED
    BY <1>2, <2>1
<1>7. \A T \in SUBSET S : \A i \in S \ T : \A x \in J[T] : F[<<i, x>>] \in J[T \union {i}]
  <2> SUFFICES ASSUME NEW T \in SUBSET S, NEW i \in S \ T, NEW x \in J[T]
               PROVE  F[<<i, x>>] \in J[T \union {i}]
    OBVIOUS
  <2> HIDE DEF F
  <2> DEFINE d == Ended(x, i, "shutdown")
  <2>1. Left(x, e, T) /\ x \in Bases
    OBVIOUS
  <2>2. F[<<i, x>>] = d
    BY <1>5, <2>1
  <2>3. Sound(x) /\ DnsInv(x, {}, {}) /\ i \in DOMAIN x.reqs \ {} /\ i \in DOMAIN x.reqs
    BY <2>1 DEF Left, Sound, S
  <2>4. "shutdown" \in Ends /\ "shutdown" # "cancel"
    BY DEF Ends
  <2>5. DnsInv(d, {}, {})
    BY <2>3, <2>4, EndedKeeps
  <2>6. /\ d \in Bases /\ Kin(d, x) /\ DOMAIN d.reqs = DOMAIN x.reqs \ {i}
        /\ Len(x.queue) \in Nat /\ Len(d.queue) = Len(x.queue) + 1
        /\ \A j \in 1..Len(x.queue) : d.queue[j] = x.queue[j]
        /\ d.queue[Len(x.queue) + 1].res = "shutdown" /\ d.queue[Len(x.queue) + 1].q = i
        /\ d.timers = x.timers \ {i}
    BY <2>1, <2>3, <2>4, EndedFacts
  <2> HIDE DEF d
  <2>7. ASSUME NEW j \in 1..Len(d.queue)
        PROVE  \/ d.queue[j].res = "shutdown" /\ d.queue[j].q \in T \union {i}
               \/ \E k \in 1..Len(e.queue) : d.queue[j] = e.queue[k]
    <3>1. CASE j = Len(x.queue) + 1
      BY <2>6, <3>1
    <3>2. CASE j # Len(x.queue) + 1
      <4>1. j \in 1..Len(x.queue) /\ d.queue[j] = x.queue[j]
        BY <2>6, <3>2
      <4> QED
        BY <2>1, <4>1 DEF Left
    <3> QED
      BY <3>1, <3>2
  <2>8. DOMAIN d.reqs = DOMAIN e.reqs \ (T \union {i}) /\ d.timers \subseteq e.timers
    BY <2>1, <2>6 DEF Left
  <2>9. d.lookups = e.lookups /\ d.base = e.base
    BY <2>1, <2>6 DEF Left, Kin
  <2>10. Left(d, e, T \union {i})
    BY <2>5, <2>7, <2>8, <2>9 DEF Left, Sound
  <2>11. T \union {i} \in SUBSET S
    OBVIOUS
  <2> QED
    BY <2>2, <2>6, <2>10, <2>11
<1>8. \A x : x \in J[S] => Is(x)
  OBVIOUS
<1> HIDE DEF op, pick, J, c, F, it, Is
<1>9. \A T \in SUBSET S : T # {} => c[T] \in T
  BY <1>3
<1>10. PICK g : FoldGraph(S, c, Bases, F, e, g)
  <2>1. FoldStep(S, c, Bases, J, F, e)
    BY <1>4, <1>6, <1>7, <1>9, Zenon DEF FoldStep
  <2> QED
    BY <1>2, <2>1, FoldExists, Zenon
<1>11. g \in [SUBSET S -> Bases] /\ \A T \in SUBSET S :
          g[T] = IF T = {} THEN e ELSE F[<<c[T], g[T \ {c[T]}]>>]
  BY <1>10, Zenon DEF FoldGraph
<1>12. it = [T \in SUBSET S |-> IF T = {} THEN e ELSE op(it[T \ {pick(T)}], pick(T))]
  <2>1. ASSUME NEW T \in SUBSET S, T # {}
        PROVE  g[T] = op(g[T \ {pick(T)}], pick(T))
    <3>1. c[T] \in S /\ T \ {c[T]} \in SUBSET S /\ c[T] = pick(T)
      BY <1>3, <2>1
    <3>2. g[T \ {c[T]}] \in Bases
      BY <1>11, <3>1
    <3>3. g[T] = F[<<c[T], g[T \ {c[T]}]>>]
      BY <1>11, <2>1
    <3>4. g[T] = op(g[T \ {c[T]}], c[T])
      BY <1>5, <3>1, <3>2, <3>3
    <3> QED
      BY <3>1, <3>4
  <2>2. g = [T \in SUBSET S |-> IF T = {} THEN e ELSE op(g[T \ {pick(T)}], pick(T))]
    <3>1. g[{}] = e
      BY <1>11
    <3>2. g = [T \in SUBSET S |-> g[T]]
      BY <1>11
    <3>3. \A T \in SUBSET S : g[T] = IF T = {} THEN e ELSE op(g[T \ {pick(T)}], pick(T))
      BY <3>1, <2>1
    <3> DEFINE R == [T \in SUBSET S |-> IF T = {} THEN e ELSE op(g[T \ {pick(T)}], pick(T))]
    <3>4. \A T \in SUBSET S : R[T] = g[T]
      BY <3>3
    <3>5. R = [T \in SUBSET S |-> R[T]]
      OBVIOUS
    <3> HIDE DEF R
    <3>6. g = R
      BY <3>2, <3>4, <3>5
    <3> QED
      BY <3>6 DEF R
  <2> DEFINE Q(f) == f = [T \in SUBSET S |-> IF T = {} THEN e ELSE op(f[T \ {pick(T)}], pick(T))]
  <2>3. Q(g)
    BY <2>2
  <2>4. it = CHOOSE f : Q(f)
    BY DEF it
  <2> HIDE DEF Q
  <2>5. Q(it)
    BY <2>3, <2>4, Zenon
  <2> QED
    BY <2>5 DEF Q
<1>13. it[{}] \in J[{}]
  <2>1. it[{}] = e
    BY <1>12
  <2> QED
    BY <1>6, <2>1
<1>14. ASSUME NEW T \in SUBSET S, T # {}, it[T \ {c[T]}] \in J[T \ {c[T]}]
       PROVE  it[T] \in J[T]
  <2>1. /\ c[T] \in S \ (T \ {c[T]}) /\ T \ {c[T]} \in SUBSET S
        /\ (T \ {c[T]}) \union {c[T]} = T /\ c[T] = pick(T)
    BY <1>3, <1>14
  <2>2. it[T \ {c[T]}] \in Bases
    BY <1>4, <1>14, <2>1
  <2>3. F[<<c[T], it[T \ {c[T]}]>>] \in J[T]
    BY <1>7, <1>14, <2>1
  <2>4. it[T] = op(it[T \ {c[T]}], c[T])
    BY <1>12, <1>14, <2>1
  <2>5. it[T] = F[<<c[T], it[T \ {c[T]}]>>]
    BY <1>5, <2>1, <2>2, <2>4
  <2> QED
    BY <2>3, <2>5
<1>15. it[S] \in J[S]
  BY <1>2, <1>9, <1>13, <1>14, FoldInduct
<1> QED
  BY <1>1, <1>8, <1>15 DEF Is, S

\* A resolver without queries, which keeps the callbacks and lookups of another.
LEMMA BlankKeeps ==
    ASSUME NEW e, Sound(e), NEW d \in Bases, d.reqs = <<>>, d.up = Servers, d.good = NServers,
           d.inflight = [s \in Servers |-> 0], d.timers = {t \in e.timers : t[1] = "skew"},
           d.queue = e.queue, d.lookups = e.lookups
    PROVE  Sound(d)
<1>1. e \in Bases /\ DnsInv(e, {}, {}) /\ DOMAIN d.reqs = {}
  BY SoundBase DEF Sound
<1>2. Counted(d)
  <2>1. \A s : At(d, s) = {}
    BY <1>1 DEF At
  <2> QED
    BY <2>1, ServersFinite, FS_EmptySet, ZenonT(60) DEF Counted
<1>3. Timed(d) /\ Watched(d, {})
  <2>1. \A q \in Queries : q[1] # "skew"
    BY DEF Queries, A, AAAA, Probe
  <2> QED
    BY <1>1, <2>1 DEF Timed, Due, Watched
<1>4. Probed(d, {})
  <2>1. \A s \in Servers : Prod(s) \notin d.timers
    BY DEF Prod
  <2> QED
    BY <1>1, <2>1 DEF Probed
<1>5. Calls(d, {})
  <2>1. ASSUME NEW i \in 1..Len(d.queue), d.queue[i].q \in Asked PROVE CallOk(d, i, {})
    <3>1. CallOk(e, i, {})
      BY <1>1, <2>1 DEF DnsInv, Calls
    <3> QED
      BY <1>1, <3>1 DEF CallOk
  <2> QED
    BY <1>1, <2>1 DEF Calls
<1>6. Cut(d)
  <2>1. Cut(e)
    BY <1>1 DEF DnsInv
  <2> QED
    BY <2>1 DEF Cut
<1> QED
  BY <1>2, <1>3, <1>4, <1>5, <1>6 DEF DnsInv, Sound

LEMMA NoBaseFields ==
    NoBase \in Bases /\ DOMAIN NoBase.reqs = {} /\ DOMAIN NoBase.lookups = {} /\ Len(NoBase.queue) = 0
<1>1. <<>> \in [{} -> Req] /\ <<>> \in [{} -> Lookup] /\ {} \in SUBSET Queries /\ {} \in SUBSET Nat
  OBVIOUS
<1>2. <<>> \in UNION {[D -> Req] : D \in SUBSET Queries} /\ <<>> \in UNION {[D -> Lookup] : D \in SUBSET Nat}
  BY <1>1
<1>3. 1 \in Servers /\ NServers \in Int
  BY EvdnsAssumption DEF Servers
<1>4. NoBase \in Bases
  BY <1>2, <1>3 DEF NoBase, Bases
<1>5. DOMAIN <<>> = {}
  OBVIOUS
<1> QED
  BY <1>4, <1>5 DEF NoBase

LEMMA NoBaseKeeps == Sound(NoBase)
<1>1. NoBase \in Bases /\ DOMAIN NoBase.reqs = {} /\ DOMAIN NoBase.lookups = {} /\ Len(NoBase.queue) = 0
  BY NoBaseFields
<1>2. /\ NoBase.good = NServers /\ NoBase.up = Servers /\ NoBase.timers = {}
      /\ NoBase.inflight = [s \in Servers |-> 0]
  BY DEF NoBase
<1>3. Counted(NoBase)
  <2>1. \A s : At(NoBase, s) = {}
    BY <1>1 DEF At
  <2> QED
    BY <1>2, <2>1, ServersFinite, FS_EmptySet DEF Counted
<1>4. 1..Len(NoBase.queue) = {}
  BY <1>1
<1> QED
  BY <1>1, <1>2, <1>3, <1>4 DEF DnsInv, Sound, Timed, Due, Watched, Probed, Calls, Cut

LEMMA BlankFields ==
    ASSUME NEW e, Sound(e)
    PROVE  LET d == Blank(e)
           IN  /\ Sound(d) /\ d.base = 0 /\ d.reqs = <<>> /\ d.up = Servers /\ d.good = NServers
               /\ d.inflight = [s \in Servers |-> 0] /\ d.timers = {t \in e.timers : t[1] = "skew"}
               /\ d.timers \subseteq e.timers /\ d.broken = {} /\ d.queue = e.queue /\ d.lookups = e.lookups
<1> DEFINE skews == {t \in e.timers : t[1] = "skew"}
           n == NoBase
           d == [n EXCEPT !.timers = skews, !.fresh = e.fresh \cap skews,
                          !.queue = e.queue, !.lookups = e.lookups]
<1>1. Blank(e) = d
  BY DEF Blank
<1>2. e \in Bases /\ n \in Bases
  BY SoundBase, NoBaseFields
<1>3. /\ n.base = 0 /\ n.reqs = <<>> /\ n.good = NServers /\ n.up = Servers
      /\ n.inflight = [s \in Servers |-> 0] /\ n.broken = {}
  BY DEF NoBase
<1>4. /\ skews \in SUBSET TimerId /\ e.fresh \cap skews \in SUBSET TimerId /\ skews \subseteq e.timers
      /\ e.queue \in Seq(Call) /\ e.lookups \in UNION {[D -> Lookup] : D \in SUBSET Nat}
  <2>1. e.lookups \in UNION {[D -> Lookup] : D \in SUBSET Nat}
    BY <1>2 DEF Bases
  <2> QED
    BY <1>2, <2>1, Fields
<1> HIDE DEF n
<1>5. d \in Bases
  <2> HIDE DEF skews
  <2> QED
    BY <1>2, <1>4 DEF Bases
<1>6. /\ d.base = 0 /\ d.reqs = <<>> /\ d.up = Servers /\ d.good = NServers
      /\ d.inflight = [s \in Servers |-> 0] /\ d.timers = skews
      /\ d.broken = {} /\ d.queue = e.queue /\ d.lookups = e.lookups
  <2> HIDE DEF skews
  <2> QED
    BY <1>2, <1>3 DEF Bases
<1> HIDE DEF d
<1>7. Sound(d)
  BY <1>5, <1>6, BlankKeeps
<1> QED
  BY <1>1, <1>4, <1>6, <1>7

LEMMA FreeBaseKeeps ==
    ASSUME NEW e, Sound(e)
    PROVE  LET d == FreeBase(e)
           IN  /\ Sound(d) /\ d.base = 0 /\ d.reqs = <<>> /\ d.up = Servers /\ d.broken = {}
               /\ d.lookups = e.lookups /\ d.timers \subseteq e.timers
               /\ \A i \in 1..Len(d.queue) :
                    \/ d.queue[i].res = "shutdown" /\ d.queue[i].q \in DOMAIN e.reqs
                    \/ \E j \in 1..Len(e.queue) : d.queue[i] = e.queue[j]
<1> DEFINE x == FailAll(e, DOMAIN e.reqs)
           d == Blank(x)
<1>1. FreeBase(e) = d
  BY DEF FreeBase, Then
<1>2. Left(x, e, DOMAIN e.reqs)
  BY FailFold
<1> HIDE DEF x
<1>3. Sound(x) /\ x.lookups = e.lookups /\ x.timers \subseteq e.timers
  BY <1>2 DEF Left
<1>4. /\ Sound(d) /\ d.base = 0 /\ d.reqs = <<>> /\ d.up = Servers /\ d.timers \subseteq x.timers
      /\ d.broken = {} /\ d.queue = x.queue /\ d.lookups = x.lookups
  BY <1>3, BlankFields
<1> HIDE DEF d
<1> QED
  BY <1>1, <1>2, <1>3, <1>4 DEF Left

LEMMA NewBaseKeeps ==
    ASSUME NEW e, Sound(e), NEW r \in Nat, NEW broken \in SUBSET Servers
    PROVE  LET d == NewBase(e, r, broken)
           IN  /\ Sound(d) /\ d.base = r /\ d.reqs = <<>> /\ d.up = Servers /\ d.broken = broken
               /\ d.queue = e.queue /\ d.lookups = e.lookups /\ d.timers \subseteq e.timers
<1> DEFINE b == Blank(e)
           d == [b EXCEPT !.base = r, !.broken = broken]
<1>1. NewBase(e, r, broken) = d
  BY DEF NewBase
<1>2. /\ Sound(b) /\ b.base = 0 /\ b.reqs = <<>> /\ b.up = Servers /\ b.good = NServers
      /\ b.inflight = [s \in Servers |-> 0] /\ b.timers = {t \in e.timers : t[1] = "skew"}
      /\ b.timers \subseteq e.timers /\ b.queue = e.queue /\ b.lookups = e.lookups
  BY BlankFields
<1> HIDE DEF b
<1>3. b \in Bases
  BY <1>2, SoundBase
<1>4. d \in Bases
  BY <1>3 DEF Bases
<1>5. /\ d.base = r /\ d.broken = broken /\ d.reqs = b.reqs /\ d.up = b.up /\ d.good = b.good
      /\ d.inflight = b.inflight /\ d.timers = b.timers /\ d.queue = b.queue /\ d.lookups = b.lookups
  BY <1>3 DEF Bases
<1> HIDE DEF d
<1>6. Sound(d)
  BY <1>2, <1>4, <1>5, BlankKeeps
<1> QED
  BY <1>1, <1>2, <1>5, <1>6

\* A lookup starts: its two queries are out.
LEMMA LaunchKeeps ==
    ASSUME NEW e, Sound(e), DOMAIN e.reqs = {}, NEW r \in Nat, e.base = r, r \notin DOMAIN e.lookups,
           NEW names \in Nat \ {0}
    PROVE  LET d == Launch(e, r, names)
           IN  /\ Sound(d) /\ d.base = e.base /\ d.broken = e.broken /\ d.queue = e.queue
               /\ DOMAIN d.lookups = DOMAIN e.lookups \union {r}
               /\ d.lookups[r] = [out |-> Asked, result |-> "none", cb |-> "set"]
               /\ \A p \in DOMAIN e.lookups : d.lookups[p] = e.lookups[p]
               /\ DOMAIN d.reqs = Asked /\ (e.broken = {} => d.up = e.up)
<1> DEFINE data == [out |-> {A, AAAA}, result |-> "none", cb |-> "set"]
           a == Ask(e, A, names)
           b == Ask(a, AAAA, names)
           L == Put(b.lookups, r, data)
           d == [b EXCEPT !.lookups = L]
<1>1. Launch(e, r, names) = d
  BY DEF Launch, Then
<1>2. e \in Bases /\ DnsInv(e, {}, {})
  BY SoundBase DEF Sound
<1>3. A \in Queries /\ AAAA \in Queries /\ A # AAAA /\ Asked = {A, AAAA}
  BY NamesDiffer DEF Asked
<1>4. Goes(a, e, {}, DOMAIN e.reqs \union {A}) /\ A \in a.timers /\ (e.broken = {} => a.up = e.up)
  BY <1>2, <1>3, AskGoes
<1> HIDE DEF a
<1>5. a \in Bases /\ DOMAIN a.reqs = {A} /\ a.broken = e.broken /\ AAAA \in Queries \ DOMAIN a.reqs
  BY <1>3, <1>4 DEF Goes, Same
<1>6. /\ Goes(b, a, {}, DOMAIN a.reqs \union {AAAA}) /\ AAAA \in b.timers
      /\ a.broken = {} => b.up = a.up
  BY <1>5, AskGoes
<1> HIDE DEF b
<1>7. Goes(b, e, {}, DOMAIN a.reqs \union {AAAA})
  BY <1>4, <1>6, GoesOn
<1>8. /\ b \in Bases /\ Counted(b) /\ DOMAIN b.reqs = Asked /\ Asked \subseteq b.timers /\ Due(b)
      /\ b.base = e.base /\ b.lookups = e.lookups /\ b.queue = e.queue /\ b.broken = e.broken
      /\ \A p \in Nat : Skew(p) \in b.timers => Skew(p) \in e.timers
  BY <1>2, <1>3, <1>4, <1>5, <1>6, <1>7 DEF Goes, Same, DnsInv, Timed
<1>9. /\ Watched(b, {})
      /\ \A s \in Servers : Prod(s) \in b.timers => s \notin b.up
      /\ \A s \in Servers : \A i \in 1..Len(b.queue) : Sees(b, i, s) =>
           /\ i \in 1..Len(e.queue) /\ Sees(e, i, s)
           /\ Probe(s) \notin DOMAIN e.reqs \ {} /\ (Prod(s) \in b.timers => Prod(s) \in b.fresh)
  BY <1>2, <1>7, GoesParts
<1>10. data \in Lookup /\ data.out = Asked /\ data.cb = "set" /\ data = [out |-> Asked, result |-> "none", cb |-> "set"]
  BY <1>3 DEF Lookup
<1> HIDE DEF data
<1>11. /\ DOMAIN L = DOMAIN e.lookups \union {r} /\ L[r] = data
       /\ \A p \in DOMAIN e.lookups : L[p] = e.lookups[p]
  BY <1>8 DEF Put
<1>12. L \in UNION {[D -> Lookup] : D \in SUBSET Nat}
  <2>1. L \in [DOMAIN e.lookups \union {r} -> Lookup]
    BY <1>2, <1>8, <1>10, Fields DEF Put
  <2>2. DOMAIN e.lookups \union {r} \in SUBSET Nat
    BY <1>2, Fields
  <2> QED
    BY <2>1, <2>2
<1> HIDE DEF L
<1>13. d \in Bases
  BY <1>8, <1>12 DEF Bases
<1>14. /\ d.base = b.base /\ d.queue = b.queue /\ d.reqs = b.reqs
       /\ d.up = b.up /\ d.good = b.good /\ d.inflight = b.inflight /\ d.probing = b.probing
       /\ d.broken = b.broken /\ d.timers = b.timers /\ d.fresh = b.fresh /\ d.lookups = L
  BY <1>8 DEF Bases
<1> HIDE DEF d
<1>15. Counted(d) /\ Timed(d)
  <2>1. \A s : At(d, s) = At(b, s)
    BY <1>14 DEF At
  <2> QED
    BY <1>8, <1>14, <2>1 DEF Counted, Timed, Due
<1>16. \A i, s : Sees(d, i, s) = Sees(b, i, s)
  BY <1>14 DEF Sees
<1>17. Watched(d, {})
  BY <1>9, <1>14, <1>16 DEF Watched, Returning
<1>18. Probed(d, {})
  <2>1. \A s \in Servers : Probe(s) \notin DOMAIN d.reqs
    BY <1>8, <1>14, NamesDiffer
  <2>2. \A s \in Servers : \A i \in 1..Len(d.queue) : Sees(d, i, s) => (Prod(s) \in d.timers => Prod(s) \in d.fresh)
    BY <1>9, <1>14, <1>16
  <2>3. \A s \in Servers : Prod(s) \in d.timers => s \notin d.up
    BY <1>9, <1>14
  <2> QED
    BY <2>1, <2>2, <2>3 DEF Probed
<1>19. Calls(d, {})
  <2>1. ASSUME NEW i \in 1..Len(d.queue), d.queue[i].q \in Asked PROVE CallOk(d, i, {})
    <3>1. CallOk(e, i, {})
      BY <1>2, <1>8, <1>14, <2>1 DEF DnsInv, Calls
    <3>2. e.queue[i].base # r
      BY <3>1 DEF CallOk
    <3> QED
      BY <1>8, <1>11, <1>14, <3>1, <3>2 DEF CallOk
  <2>2. \A q \in Asked : d.base \in DOMAIN d.lookups /\ q \in d.lookups[d.base].out
    BY <1>8, <1>10, <1>11, <1>14
  <2> QED
    BY <2>1, <2>2 DEF Calls
<1>20. Cut(d)
  <2>1. Cut(e)
    BY <1>2 DEF DnsInv
  <2>2. \A p \in DOMAIN d.lookups : d.lookups[p].cb = "null" => d.lookups[p].out # Asked
    BY <1>10, <1>11, <1>14, <2>1 DEF Cut
  <2>3. ASSUME NEW p \in Nat, Skew(p) \in d.timers
        PROVE  p \in DOMAIN d.lookups /\ d.lookups[p].cb = "set" /\ d.lookups[p].out # Asked
    <3>1. p \in DOMAIN e.lookups /\ e.lookups[p].cb = "set" /\ e.lookups[p].out # Asked
      BY <1>8, <1>14, <2>1, <2>3 DEF Cut
    <3> QED
      BY <1>11, <1>14, <3>1
  <2> QED
    BY <2>2, <2>3 DEF Cut
<1>21. Sound(d)
  BY <1>13, <1>15, <1>17, <1>18, <1>19, <1>20 DEF DnsInv, Sound
<1> QED
  BY <1>1, <1>4, <1>5, <1>6, <1>8, <1>10, <1>11, <1>14, <1>21

-----------------------------------------------------------------------------
(* The client. *)

Frames == {"make", "made", "cb"}

\* Only the frame on top is that of a call of evhttp_make_request, and a call in which
\* the connect failed is there only if connects can.
StackOk(s, net) ==
    /\ s \in Seq(Frames)
    /\ \A i \in 1..Len(s) : (s[i] = "make" => i = 1) /\ (s[i] = "made" => "failsNow" \in net)
Plain(s, net) ==
    /\ s \in Seq(Frames)
    /\ \A i \in 1..Len(s) : s[i] # "make" /\ (s[i] = "made" => "failsNow" \in net)

Active == {"resolving", "connecting", "waiting"}

Shape ==
    /\ prog \in Programs /\ obj \in {"alive", "freed"} /\ isReq \in {"yes", "no"}
    /\ con \in {"null", "set"} /\ dns = con /\ flight \in Active \union {"none", "lost"}
    /\ StackOk(stack, prog.net) /\ asked \in 0..prog.requests
    /\ told \in [Requests -> {0, 1}] /\ answered \in [Requests -> {0, 1}] /\ bad \in {"yes", "no"}

\* The base and the connection are those of the last request, which nobody was told
\* about, and the object knows of what evhttp does.
Link ==
    /\ evdns.base \in {0, asked} /\ (con = "set" <=> evdns.base # 0) /\ (flight # "none" => con = "set")
    /\ evdns.base # 0 => told[asked] = 0
    /\ Top = "make" => /\ con = "set" /\ answered[asked] = 0
                       /\ DOMAIN evdns.reqs = {} /\ evdns.base \notin DOMAIN evdns.lookups
    /\ Top # "make" /\ (flight \in Active \/ evdns.base \in DOMAIN evdns.lookups) => isReq = "yes"

\* Lookups are those of requests that were made, and have had no outcome.
Once ==
    /\ \A r \in Requests : r > asked => told[r] = 0 /\ answered[r] = 0
    /\ \A r \in DOMAIN evdns.lookups : r \in 1..asked /\ (evdns.lookups[r].cb = "set" => answered[r] = 0)

\* A number is not looked up.
Quiet(e) == DOMAIN e.reqs = {} /\ e.timers = {} /\ e.queue = <<>>
Idle == prog.host = "number" => Quiet(evdns)

ClientInv == Shape /\ Link /\ Once /\ Idle /\ Sound(evdns)

LEMMA StackFacts ==
    ASSUME NEW net, NEW s, StackOk(s, net)
    PROVE  /\ s # <<>> => Head(s) \in Frames /\ Plain(Tail(s), net)
           /\ s = <<>> \/ Head(s) # "make" => Plain(s, net)
<1>1. s \in Seq(Frames)
  BY DEF StackOk
<1>2. ASSUME s # <<>> PROVE Head(s) \in Frames /\ Plain(Tail(s), net)
  <2>1. /\ Head(s) = s[1] /\ 1 \in 1..Len(s) /\ Tail(s) \in Seq(Frames) /\ Head(s) \in Frames
        /\ Len(Tail(s)) = Len(s) - 1 /\ Len(s) \in Nat
        /\ \A i \in 1..Len(Tail(s)) : Tail(s)[i] = s[i + 1]
    BY <1>1, <1>2
  <2>2. \A i \in 1..Len(Tail(s)) : i + 1 \in 1..Len(s) /\ i + 1 # 1
    BY <2>1
  <2> QED
    BY <2>1, <2>2 DEF StackOk, Plain
<1>3. ASSUME s = <<>> \/ Head(s) # "make" PROVE Plain(s, net)
  <2>1. s # <<>> => Head(s) = s[1]
    BY <1>1
  <2>2. \A i \in 1..Len(s) : s # <<>>
    BY <1>1
  <2> QED
    BY <1>3, <2>1, <2>2 DEF StackOk, Plain
<1> QED
  BY <1>2, <1>3

LEMMA PushFacts ==
    ASSUME NEW net, NEW s, Plain(s, net), NEW x \in Frames, x = "made" => "failsNow" \in net
    PROVE  /\ StackOk(s, net) /\ StackOk(<<x>> \o s, net) /\ Head(<<x>> \o s) = x /\ <<x>> \o s # <<>>
           /\ x # "make" => Plain(<<x>> \o s, net)
<1>1. s \in Seq(Frames) /\ Len(s) \in Nat /\ <<x>> \in Seq(Frames) /\ Len(<<x>>) = 1 /\ <<x>>[1] = x
  BY DEF Plain
<1> DEFINE f == <<x>> \o s
<1>2. f \in Seq(Frames) /\ Len(f) = Len(s) + 1 /\ f[1] = x
  BY <1>1
<1>3. \A i \in 1..Len(f) : i # 1 => i - 1 \in 1..Len(s) /\ f[i] = s[i - 1]
  BY <1>1, <1>2
<1>4. f # <<>> /\ Head(f) = x
  BY <1>1, <1>2
<1> HIDE DEF f
<1>5. StackOk(f, net) /\ (x # "make" => Plain(f, net))
  BY <1>2, <1>3 DEF StackOk, Plain
<1>6. StackOk(s, net)
  BY DEF StackOk, Plain
<1> QED
  BY <1>4, <1>5, <1>6 DEF f

\* In the loop nothing is on the stack.
LEMMA LoopFacts == Shape => (Top = "loop" <=> stack = <<>>) /\ (Top = "cb" => stack # <<>>)
<1> SUFFICES ASSUME Shape PROVE (Top = "loop" <=> stack = <<>>) /\ (Top = "cb" => stack # <<>>)
  OBVIOUS
<1>1. stack # <<>> => Head(stack) \in Frames
  BY StackFacts DEF Shape
<1> QED
  BY <1>1 DEF Top, Frames

LEMMA InitClient == Init => ClientInv
<1> SUFFICES ASSUME Init PROVE ClientInv
  OBVIOUS
<1>1. /\ NoBase \in Bases /\ DOMAIN NoBase.reqs = {} /\ DOMAIN NoBase.lookups = {} /\ Sound(NoBase)
      /\ NoBase.timers = {} /\ NoBase.queue = <<>> /\ NoBase.base = 0
  BY NoBaseFields, NoBaseKeeps DEF NoBase
<1>2. prog.requests \in Nat
  BY ProgramAssumption DEF Init
<1>3. StackOk(stack, prog.net) /\ Top = "loop"
  BY DEF Init, StackOk, Top
<1>4. Shape
  BY <1>2, <1>3 DEF Init, Shape
<1>5. Link /\ Once /\ Idle
  BY <1>1, <1>3 DEF Init, Link, Once, Idle, Quiet, Active
<1> QED
  BY <1>1, <1>4, <1>5 DEF Init, ClientInv

-----------------------------------------------------------------------------
(* The steps of the client. *)

LEMMA ShapeFacts ==
    ASSUME Shape
    PROVE  /\ asked \in Nat /\ prog.requests \in Nat /\ prog.requests <= MaxRequests /\ MaxRequests \in Nat
           /\ \A r \in 1..asked : r \in Requests
           /\ prog.names \in Nat \ {0}
<1>1. prog.requests \in 0..MaxRequests /\ prog.names \in Nat \ {0} /\ MaxRequests \in Nat
  BY ProgramAssumption DEF Shape
<1>2. asked \in 0..prog.requests
  BY DEF Shape
<1> QED
  BY <1>1, <1>2 DEF Requests

\* The resolver works on, and the client does nothing.
LEMMA EvdnsKeeps ==
    ASSUME ClientInv, Top = "loop", Keeps(evdns', evdns), prog.host # "number",
           UNCHANGED <<prog, obj, object, stack, asked, told, answered, bad>>
    PROVE  ClientInv'
<1>1. Top' = Top /\ evdns'.base = evdns.base /\ evdns'.lookups = evdns.lookups /\ Sound(evdns')
  BY DEF Top, Keeps, Kin
<1>2. Shape'
  BY DEF ClientInv, Shape, object
<1>3. Link'
  BY <1>1 DEF ClientInv, Link, object
<1>4. Once'
  BY <1>1 DEF ClientInv, Once
<1>5. Idle'
  BY DEF Idle
<1> QED
  BY <1>1, <1>2, <1>3, <1>4, <1>5 DEF ClientInv

\* No step changes the program.
LEMMA ProgKept == [Next]_vars => prog' = prog
<1>1. Request \/ Delete \/ CbReturn \/ MakeRequest \/ MadeReturn => prog' = prog
  BY DEF Request, Delete, CbReturn, MakeRequest, MadeReturn
<1>2. FailsNow => prog' = prog
  BY DEF FailsNow, Tell
<1>3. ProbeEnds \/ StaleCallback => prog' = prog
  BY DEF ProbeEnds, StaleCallback
<1>4. ASSUME NEW r, NEW done PROVE LookupTold(r, done) => prog' = prog
  BY DEF LookupTold, LookupDone, Tell
<1>5. QueryEnds => prog' = prog
  BY <1>4 DEF QueryEnds
<1>6. ASSUME NEW r PROVE SkewTimer(r) => prog' = prog
  BY <1>4 DEF SkewTimer
<1>7. Resolver => prog' = prog
  BY <1>6 DEF Resolver, ServerReplies, QueryTimer, ProdTimer
<1>8. Network => prog' = prog
  BY DEF Network, Connected, ConnectFails, Response, NullRequest, Tell
<1> QED
  BY <1>1, <1>2, <1>3, <1>5, <1>7, <1>8 DEF vars, Next, Returns, Callbacks

LEMMA RequestKeeps == ClientInv /\ Request => ClientInv'
<1> SUFFICES ASSUME ClientInv, Request PROVE ClientInv'
  OBVIOUS
<1> DEFINE broken == IF "unreachable" \in prog.net THEN {1} ELSE {}
<1>0. /\ evdns' = NewBase(evdns, asked + 1, broken) /\ stack' = <<"make">> \o stack
      /\ stack = <<>> \/ Head(stack) # "make"
  BY DEF Request, UserCode, Top
<1>1. /\ asked' = asked + 1 /\ con' = "set" /\ dns' = "set" /\ flight' = "connecting" /\ asked < prog.requests
      /\ prog' = prog /\ obj' = obj /\ isReq' = isReq /\ told' = told /\ answered' = answered /\ bad' = bad
  BY DEF Request
<1>2. /\ asked \in Nat /\ prog.requests \in Nat /\ prog.requests <= MaxRequests /\ MaxRequests \in Nat
      /\ broken \in SUBSET Servers
  BY ShapeFacts, EvdnsAssumption DEF ClientInv, Servers
<1>3. asked + 1 \in Requests /\ asked + 1 \in 0..prog.requests /\ asked + 1 \in Nat
  BY <1>1, <1>2 DEF Requests
<1>4. /\ Sound(evdns') /\ evdns'.base = asked + 1 /\ evdns'.reqs = <<>> /\ evdns'.queue = evdns.queue
      /\ evdns'.lookups = evdns.lookups /\ evdns'.timers \subseteq evdns.timers
  BY <1>0, <1>2, <1>3, NewBaseKeeps DEF ClientInv
<1>5. StackOk(stack', prog.net) /\ Top' = "make"
  <2>1. Plain(stack, prog.net)
    BY <1>0, StackFacts DEF ClientInv, Shape
  <2>2. "make" \in Frames /\ "make" # "made"
    BY DEF Frames
  <2>3. StackOk(<<"make">> \o stack, prog.net) /\ Head(<<"make">> \o stack) = "make" /\ <<"make">> \o stack # <<>>
    BY <2>1, <2>2, PushFacts
  <2> QED
    BY <1>0, <2>3 DEF Top
<1>6. Shape'
  BY <1>1, <1>3, <1>5 DEF ClientInv, Shape, Active
<1>7. DOMAIN evdns'.reqs = {}
  BY <1>4
<1>8. asked + 1 \notin DOMAIN evdns.lookups /\ told[asked + 1] = 0 /\ answered[asked + 1] = 0
  BY <1>2, <1>3 DEF ClientInv, Once
<1>9. Link'
  <2>1. evdns'.base = asked' /\ asked' # 0 /\ told'[asked'] = 0 /\ answered'[asked'] = 0
    BY <1>1, <1>2, <1>4, <1>8
  <2>2. evdns'.base \notin DOMAIN evdns'.lookups
    BY <1>4, <1>8
  <2> QED
    BY <1>1, <1>5, <1>7, <2>1, <2>2 DEF Link
<1>10. Once'
  <2>1. \A r \in Requests : r > asked + 1 => r > asked
    BY <1>2 DEF Requests
  <2>2. \A r \in DOMAIN evdns.lookups : r \in 1..asked + 1
    BY <1>2 DEF ClientInv, Once
  <2> QED
    BY <1>1, <1>4, <2>1, <2>2 DEF ClientInv, Once
<1>11. Idle'
  <2>1. Quiet(evdns) => Quiet(evdns')
    BY <1>4, <1>7 DEF Quiet
  <2> QED
    BY <1>1, <2>1 DEF ClientInv, Idle
<1> QED
  BY <1>4, <1>6, <1>9, <1>10, <1>11 DEF ClientInv

\* The frame on top is left.
LEMMA PopFacts ==
    ASSUME Shape, stack # <<>>, stack' = Tail(stack), prog' = prog
    PROVE  StackOk(stack', prog.net) /\ Top' # "make"
<1>1. Plain(stack', prog.net)
  BY StackFacts DEF Shape
<1>2. StackOk(stack', prog.net)
  BY <1>1 DEF Plain, StackOk
<1>3. stack' # <<>> => Head(stack') # "make"
  <2>1. stack' # <<>> => Head(stack') = stack'[1] /\ 1 \in 1..Len(stack')
    BY <1>1 DEF Plain
  <2> QED
    BY <1>1, <2>1 DEF Plain
<1> QED
  BY <1>2, <1>3 DEF Top

LEMMA MakeKeeps == ClientInv /\ MakeRequest => ClientInv'
<1> SUFFICES ASSUME ClientInv, MakeRequest PROVE ClientInv'
  OBVIOUS
<1>1. /\ Top = "make" /\ stack' = Tail(stack) /\ isReq' = "yes" /\ con' = con /\ dns' = dns
      /\ flight' \in {"resolving", "connecting", "lost"}
      /\ prog' = prog /\ obj' = obj /\ asked' = asked /\ told' = told /\ answered' = answered /\ bad' = bad
  BY DEF MakeRequest, RequestReturn
<1>2. /\ con = "set" /\ evdns.base = asked /\ evdns.base # 0 /\ answered[asked] = 0 /\ told[asked] = 0
      /\ DOMAIN evdns.reqs = {} /\ evdns.base \notin DOMAIN evdns.lookups
  BY <1>1 DEF ClientInv, Link
<1>3. asked \in Nat /\ asked \in 1..asked /\ asked \in Requests /\ prog.names \in Nat \ {0}
  BY <1>2, ShapeFacts DEF ClientInv
<1>4. StackOk(stack', prog.net) /\ Top' # "make"
  <2>1. stack # <<>>
    BY <1>1 DEF Top
  <2> QED
    BY <1>1, <2>1, PopFacts DEF ClientInv
<1>5. /\ Sound(evdns') /\ evdns'.base = evdns.base
      /\ \A r \in DOMAIN evdns'.lookups : r \in DOMAIN evdns.lookups \/ r = asked
      /\ \A r \in DOMAIN evdns.lookups : evdns'.lookups[r] = evdns.lookups[r]
      /\ evdns' = evdns \/ prog.host = "name"
  <2>1. CASE evdns' = evdns
    BY <2>1 DEF ClientInv
  <2>2. CASE evdns' = Launch(evdns, evdns.base, prog.names) /\ prog.host = "name"
    <3>1. LET d == Launch(evdns, asked, prog.names)
          IN  /\ Sound(d) /\ d.base = evdns.base /\ DOMAIN d.lookups = DOMAIN evdns.lookups \union {asked}
              /\ \A p \in DOMAIN evdns.lookups : d.lookups[p] = evdns.lookups[p]
      BY <1>2, <1>3, LaunchKeeps DEF ClientInv
    <3> QED
      BY <1>2, <2>2, <3>1
  <2> QED
    BY <2>1, <2>2 DEF MakeRequest
<1>6. Shape'
  BY <1>1, <1>4 DEF ClientInv, Shape, Active
<1>7. Link'
  BY <1>1, <1>2, <1>4, <1>5 DEF Link
<1>8. Once'
  <2>1. \A r \in DOMAIN evdns'.lookups : r \in 1..asked /\ (evdns'.lookups[r].cb = "set" => answered[r] = 0)
    BY <1>2, <1>3, <1>5 DEF ClientInv, Once
  <2> QED
    BY <1>1, <2>1 DEF ClientInv, Once
<1>9. Idle'
  <2>1. prog.host = "number" => evdns' = evdns
    BY <1>5
  <2> QED
    BY <1>1, <2>1 DEF ClientInv, Idle
<1> QED
  BY <1>5, <1>6, <1>7, <1>8, <1>9 DEF ClientInv

\* A base that goes.
LEMMA FreeFacts ==
    ASSUME NEW e, Sound(e)
    PROVE  LET d == FreeBase(e)
           IN  Sound(d) /\ d.base = 0 /\ d.lookups = e.lookups /\ (Quiet(e) => Quiet(d))
<1> DEFINE d == FreeBase(e)
<1>1. /\ Sound(d) /\ d.base = 0 /\ d.reqs = <<>> /\ d.lookups = e.lookups /\ d.timers \subseteq e.timers
      /\ \A i \in 1..Len(d.queue) :
           \/ d.queue[i].res = "shutdown" /\ d.queue[i].q \in DOMAIN e.reqs
           \/ \E j \in 1..Len(e.queue) : d.queue[i] = e.queue[j]
  BY FreeBaseKeeps
<1>2. d.queue \in Seq(Call)
  BY <1>1, SoundBase, Fields
<1> HIDE DEF d
<1>3. ASSUME Quiet(e) PROVE Quiet(d)
  <2>1. \A i \in 1..Len(d.queue) : FALSE
    BY <1>1, <1>3 DEF Quiet
  <2>2. d.queue = <<>>
    BY <1>2, <2>1
  <2>3. DOMAIN d.reqs = {}
    BY <1>1
  <2> QED
    BY <1>1, <1>3, <2>2, <2>3 DEF Quiet
<1> QED
  BY <1>1, <1>3 DEF d

\* The object is freed and told.
LEMMA TellKeeps ==
    ASSUME ClientInv, evdns.base # 0, NEW e, Sound(e), DOMAIN e.lookups \subseteq DOMAIN evdns.lookups,
           prog.host = "number" => Quiet(e), NEW frames, Plain(frames, prog.net), Tell(e, frames),
           answered' \in [Requests -> {0, 1}], \A r \in Requests : r > asked => answered'[r] = 0,
           \A r \in DOMAIN e.lookups : e.lookups[r].cb = "set" => answered'[r] = 0
    PROVE  ClientInv'
<1>1. /\ con' = "null" /\ dns' = "null" /\ flight' = "none" /\ isReq' = "no"
      /\ prog' = prog /\ obj' = obj /\ asked' = asked /\ bad' = bad
  BY DEF Tell, Free
<1>2. evdns' = FreeBase(e) /\ told' = [told EXCEPT ![asked] = @ + 1] /\ stack' = <<"cb">> \o frames
  BY DEF Tell, Free
<1>3. /\ Sound(evdns') /\ evdns'.base = 0 /\ evdns'.lookups = e.lookups
      /\ prog.host = "number" => Quiet(evdns')
  BY <1>2, FreeFacts
<1>4. StackOk(stack', prog.net) /\ Top' = "cb"
  <2>1. "cb" \in Frames /\ "cb" # "made"
    BY DEF Frames
  <2>2. StackOk(<<"cb">> \o frames, prog.net) /\ Head(<<"cb">> \o frames) = "cb" /\ <<"cb">> \o frames # <<>>
    BY <2>1, PushFacts
  <2> QED
    BY <1>2, <2>2 DEF Top
<1>5. asked \in Requests /\ asked \in Nat /\ told[asked] = 0 /\ told \in [Requests -> {0, 1}]
  <2>1. asked \in Nat /\ asked # 0 /\ told[asked] = 0
    BY ShapeFacts DEF ClientInv, Link
  <2> QED
    BY <2>1, ShapeFacts DEF ClientInv, Shape
<1>6. told' \in [Requests -> {0, 1}] /\ \A r \in Requests : r # asked => told'[r] = told[r]
  BY <1>2, <1>5
<1>7. Shape'
  BY <1>1, <1>4, <1>6 DEF ClientInv, Shape
<1>8. \A r \in DOMAIN evdns'.lookups : r \in 1..asked /\ (evdns'.lookups[r].cb = "set" => answered'[r] = 0)
  BY <1>3 DEF ClientInv, Once
<1>9. Link'
  <2>1. 0 \notin DOMAIN evdns'.lookups
    BY <1>8
  <2> QED
    BY <1>1, <1>3, <1>4, <2>1 DEF Link, Active
<1>10. Once'
  <2>1. \A r \in Requests : r > asked => told'[r] = 0
    BY <1>5, <1>6 DEF ClientInv, Once
  <2> QED
    BY <1>1, <1>8, <2>1 DEF Once
<1>11. Idle'
  BY <1>1, <1>3 DEF Idle
<1> QED
  BY <1>3, <1>7, <1>9, <1>10, <1>11 DEF ClientInv

LEMMA FailsNowKeeps == ClientInv /\ FailsNow => ClientInv'
<1> SUFFICES ASSUME ClientInv, FailsNow PROVE ClientInv'
  OBVIOUS
<1>1. /\ Top = "make" /\ "failsNow" \in prog.net /\ Tell(evdns, <<"made">> \o Tail(stack)) /\ answered' = answered
  BY DEF FailsNow
<1>2. evdns.base # 0 /\ stack # <<>>
  BY <1>1 DEF Top, ClientInv, Link
<1>3. Plain(<<"made">> \o Tail(stack), prog.net)
  <2>1. Plain(Tail(stack), prog.net)
    BY <1>2, StackFacts DEF ClientInv, Shape
  <2>2. "made" \in Frames /\ "made" # "make"
    BY DEF Frames
  <2> QED
    BY <1>1, <2>1, <2>2, PushFacts
<1>4. /\ answered' \in [Requests -> {0, 1}] /\ \A r \in Requests : r > asked => answered'[r] = 0
      /\ \A r \in DOMAIN evdns.lookups : evdns.lookups[r].cb = "set" => answered'[r] = 0
  BY <1>1 DEF ClientInv, Shape, Once
<1> QED
  BY <1>1, <1>2, <1>3, <1>4, TellKeeps DEF ClientInv, Idle

\* In the loop the end of the connection is told.
LEMMA EndKeeps ==
    ASSUME ClientInv, Top = "loop", flight # "none", Tell(evdns, stack), UNCHANGED answered
    PROVE  ClientInv'
<1>1. evdns.base # 0
  BY DEF ClientInv, Link
<1>2. Plain(stack, prog.net)
  <2>1. stack = <<>>
    BY LoopFacts DEF ClientInv
  <2> QED
    BY <2>1, StackFacts DEF ClientInv, Shape
<1>3. /\ answered' \in [Requests -> {0, 1}] /\ \A r \in Requests : r > asked => answered'[r] = 0
      /\ \A r \in DOMAIN evdns.lookups : evdns.lookups[r].cb = "set" => answered'[r] = 0
  BY DEF ClientInv, Shape, Once
<1> QED
  BY <1>1, <1>2, <1>3, TellKeeps DEF ClientInv, Idle

\* A frame is left, with the object as waiting or as it was.
LEMMA LeaveKeeps ==
    ASSUME ClientInv, Top \in {"made", "cb"}, stack' = Tail(stack), isReq' \in {isReq, "yes"},
           bad' \in {"yes", "no"}, UNCHANGED <<prog, obj, con, dns, flight, evdns, asked, told, answered>>
    PROVE  ClientInv'
<1>1. StackOk(stack', prog.net) /\ Top' # "make"
  <2>1. stack # <<>>
    BY DEF Top
  <2> QED
    BY <2>1, PopFacts DEF ClientInv
<1>2. Shape'
  BY <1>1 DEF ClientInv, Shape
<1>3. Link' /\ Once' /\ Idle'
  BY <1>1 DEF ClientInv, Link, Once, Idle
<1> QED
  BY <1>2, <1>3 DEF ClientInv

LEMMA ReturnsKeep == ClientInv /\ (MadeReturn \/ CbReturn) => ClientInv'
<1> SUFFICES ASSUME ClientInv, MadeReturn \/ CbReturn PROVE ClientInv'
  OBVIOUS
<1>1. CASE MadeReturn
  <2>1. bad' \in {"yes", "no"}
    BY <1>1 DEF MadeReturn, ClientInv, Shape
  <2> QED
    BY <1>1, <2>1, LeaveKeeps DEF MadeReturn, RequestReturn
<1>2. CASE CbReturn
  <2>1. bad' \in {"yes", "no"}
    BY <1>2 DEF CbReturn, ClientInv, Shape
  <2> QED
    BY <1>2, <2>1, LeaveKeeps DEF CbReturn, object
<1> QED
  BY <1>1, <1>2

\* The connection gets on, or is lost.
LEMMA FlightKeeps ==
    ASSUME ClientInv, Top = "loop", flight # "none", flight' \in {"connecting", "waiting", "lost"},
           flight' # "lost" => flight \in Active,
           UNCHANGED <<prog, obj, isReq, con, dns, evdns, stack, asked, told, answered, bad>>
    PROVE  ClientInv'
<1>1. Top' = Top
  BY DEF Top
<1>2. Shape'
  BY DEF ClientInv, Shape, Active
<1>3. Link' /\ Once' /\ Idle'
  BY <1>1 DEF ClientInv, Link, Once, Idle, Active
<1> QED
  BY <1>2, <1>3 DEF ClientInv

LEMMA NetworkKeeps == ClientInv /\ Network => ClientInv'
<1> SUFFICES ASSUME ClientInv, Network PROVE ClientInv'
  OBVIOUS
<1>1. CASE Connected \/ NullRequest
  BY <1>1, FlightKeeps DEF Connected, NullRequest, ConnectionEvent, Active
<1>2. CASE ConnectFails \/ Response
  BY <1>2, EndKeeps DEF ConnectFails, Response, ConnectionEvent
<1> QED
  BY <1>1, <1>2 DEF Network

LEMMA DeleteKeeps == ClientInv /\ Delete => ClientInv'
<1> SUFFICES ASSUME ClientInv, Delete PROVE ClientInv'
  OBVIOUS
<1>1. /\ con' = "null" /\ dns' = "null" /\ flight' = "none" /\ isReq' = "no" /\ obj' = "freed"
      /\ prog' = prog /\ asked' = asked /\ bad' = bad /\ told' = told /\ answered' = answered
      /\ stack' = stack /\ Top' = Top /\ Top # "make"
  BY DEF Delete, Free, UserCode, Top
<1>2. evdns' = FreeBase(evdns)
  BY DEF Delete, Free
<1>3. /\ Sound(evdns') /\ evdns'.base = 0 /\ evdns'.lookups = evdns.lookups
      /\ prog.host = "number" => Quiet(evdns')
  BY <1>2, FreeFacts DEF ClientInv, Idle
<1>4. Shape'
  BY <1>1 DEF ClientInv, Shape
<1>5. Once'
  BY <1>1, <1>3 DEF ClientInv, Once
<1>6. Link'
  <2>1. 0 \notin DOMAIN evdns'.lookups
    BY <1>3 DEF ClientInv, Once
  <2> QED
    BY <1>1, <1>3, <2>1 DEF Link, Active
<1>7. Idle'
  BY <1>1, <1>3 DEF Idle
<1> QED
  BY <1>3, <1>4, <1>5, <1>6, <1>7 DEF ClientInv

\* What must not be used was used.
LEMMA BadKeeps ==
    ASSUME ClientInv, bad' = "yes", UNCHANGED <<prog, obj, object, evdns, stack, asked, told, answered>>
    PROVE  ClientInv'
<1>1. Top' = Top
  BY DEF Top
<1>2. Shape'
  BY DEF ClientInv, Shape, object
<1>3. Link' /\ Once' /\ Idle'
  BY <1>1 DEF ClientInv, Link, Once, Idle, object
<1> QED
  BY <1>2, <1>3 DEF ClientInv

\* Lookup r of evdns went on, in a base that was left as it is but for its callbacks.
LEMMA ToldKeeps ==
    ASSUME ClientInv, Top = "loop", prog.host # "number", NEW r \in DOMAIN evdns.lookups, NEW done,
           WentOn(done.e, evdns, r, done.outcome), LookupTold(r, done)
    PROVE  ClientInv'
<1> DEFINE new == answered[r] + (IF done.outcome = "none" THEN 0 ELSE 1)
<1>1. r \in 1..asked /\ r \in Requests /\ answered \in [Requests -> {0, 1}] /\ asked \in Nat
  BY ShapeFacts DEF ClientInv, Shape, Once
<1>2. answered' = [answered EXCEPT ![r] = new]
  BY DEF LookupTold
<1>3. new \in {0, 1} /\ (done.outcome = "none" => new = answered[r])
  BY <1>1 DEF WentOn, ClientInv, Once
<1> HIDE DEF new
<1>4. /\ answered' \in [Requests -> {0, 1}] /\ answered'[r] = new
      /\ \A p \in Requests : p # r => answered'[p] = answered[p]
  BY <1>1, <1>2, <1>3
<1>5. \A p \in Requests : p > asked => answered'[p] = 0
  BY <1>1, <1>4 DEF ClientInv, Once
<1>6. \A p \in DOMAIN done.e.lookups : p \in 1..asked /\ (done.e.lookups[p].cb = "set" => answered'[p] = 0)
  <2> SUFFICES ASSUME NEW p \in DOMAIN done.e.lookups
               PROVE  p \in 1..asked /\ (done.e.lookups[p].cb = "set" => answered'[p] = 0)
    OBVIOUS
  <2>1. p \in DOMAIN evdns.lookups /\ (done.e.lookups[p].cb = "set" => evdns.lookups[p].cb = "set")
    BY DEF WentOn
  <2>2. p \in 1..asked /\ p \in Requests /\ (done.e.lookups[p].cb = "set" => answered[p] = 0)
    BY <2>1, ShapeFacts DEF ClientInv, Once
  <2>3. p = r => (done.outcome # "none" => done.e.lookups[p].cb = "null")
    BY DEF WentOn
  <2>4. p = r /\ done.outcome = "none" => answered'[p] = answered[p]
    BY <1>3, <1>4
  <2> QED
    BY <1>4, <2>2, <2>3, <2>4
<1>7. Sound(done.e) /\ done.e.base = evdns.base /\ DOMAIN done.e.lookups \subseteq DOMAIN evdns.lookups
  BY DEF WentOn
<1>8. Top # "make" /\ stack = <<>> /\ Plain(stack, prog.net)
  <2>1. stack = <<>>
    BY LoopFacts DEF ClientInv
  <2> QED
    BY <2>1, StackFacts DEF ClientInv, Shape
<1>9. ASSUME evdns' = done.e, flight' \in {flight, "connecting", "lost"}, flight' # flight => r = evdns.base,
             UNCHANGED <<prog, obj, isReq, con, dns, stack, asked, told, bad>>
      PROVE  ClientInv'
  <2>1. Top' = Top
    BY <1>9 DEF Top
  <2>2. Shape'
    BY <1>4, <1>9 DEF ClientInv, Shape, Active
  <2>3. Once'
    BY <1>5, <1>6, <1>9 DEF ClientInv, Once
  <2>4. r = evdns.base => con = "set" /\ isReq = "yes" /\ evdns.base # 0
    BY <1>1, <1>8 DEF ClientInv, Link
  <2>5. Link'
    BY <1>7, <1>8, <1>9, <2>1, <2>4 DEF ClientInv, Link, Active
  <2>6. Idle'
    BY <1>9 DEF Idle
  <2> QED
    BY <1>7, <1>9, <2>2, <2>3, <2>5, <2>6 DEF ClientInv
<1>10. ASSUME r = evdns.base, Tell(done.e, stack)
       PROVE  ClientInv'
  <2>1. evdns.base # 0
    BY <1>1, <1>10
  <2> QED
    BY <1>4, <1>5, <1>6, <1>7, <1>8, <1>10, <2>1, TellKeeps
<1>11. CASE r = evdns.base /\ LookupDone(done.e, done.outcome)
  BY <1>9, <1>10, <1>11 DEF LookupDone
<1>12. CASE evdns' = done.e /\ UNCHANGED <<prog, obj, object, stack, asked, told, bad>>
  BY <1>9, <1>12 DEF object
<1> QED
  BY <1>11, <1>12 DEF LookupTold

\* Answers, and the timers that the resolver sees to by itself.
LEMMA RepliesKeep ==
    ASSUME NEW q \in Queries, ClientInv, ServerReplies(q) \/ QueryTimer(q)
    PROVE  ClientInv'
<1>1. CASE ServerReplies(q)
  <2>1. PICK s \in evdns.reqs[q].sent, kind \in Kinds(q) : evdns' = Reply(evdns, q, s, kind)
    BY <1>1 DEF ServerReplies
  <2>2. q \in DOMAIN evdns.reqs /\ Top = "loop" /\ Sound(evdns)
    BY <1>1 DEF ServerReplies, ClientInv
  <2>3. s \in Servers
    BY <2>1, <2>2, SoundBase, ReqFacts
  <2>4. kind \in Answers /\ (kind = "notexist" => q \in Asked)
    BY <2>1 DEF Kinds, Answers, Asked
  <2>5. Keeps(evdns', evdns)
    BY <2>1, <2>2, <2>3, <2>4, ReplyKeeps
  <2>6. prog.host # "number"
    BY <2>2 DEF ClientInv, Idle, Quiet
  <2> QED
    BY <1>1, <2>2, <2>5, <2>6, EvdnsKeeps DEF ServerReplies
<1>2. CASE QueryTimer(q)
  <2>1. q \in evdns.timers /\ Top = "loop" /\ evdns' = TimedOut(evdns, q) /\ Sound(evdns)
    BY <1>2 DEF QueryTimer, Fires, ClientInv
  <2>2. q \in DOMAIN evdns.reqs
    BY <2>1 DEF Sound, DnsInv, Timed, Due
  <2>3. Keeps(evdns', evdns)
    BY <2>1, <2>2, TimedOutKeeps
  <2>4. prog.host # "number"
    BY <2>1 DEF ClientInv, Idle, Quiet
  <2> QED
    BY <1>2, <2>1, <2>3, <2>4, EvdnsKeeps DEF QueryTimer
<1> QED
  BY <1>1, <1>2

LEMMA ProdKeeps == ASSUME NEW s \in Servers, ClientInv, ProdTimer(s) PROVE ClientInv'
<1>1. /\ Prod(s) \in evdns.timers \ evdns.fresh /\ Top = "loop" /\ evdns' = SendProbe(evdns, s)
      /\ Sound(evdns)
  BY DEF ProdTimer, Fires, ClientInv
<1>2. Keeps(evdns', evdns)
  BY <1>1, SendProbeKeeps
<1>3. prog.host # "number"
  BY <1>1 DEF ClientInv, Idle, Quiet
<1> QED
  BY <1>1, <1>2, <1>3, EvdnsKeeps DEF ProdTimer

LEMMA SkewKeeps == ASSUME NEW r \in Requests, ClientInv, SkewTimer(r) PROVE ClientInv'
<1>1. Skew(r) \in evdns.timers /\ Top = "loop" /\ Sound(evdns) /\ r \in Nat
  BY DEF SkewTimer, Fires, ClientInv, Requests
<1>2. prog.host # "number"
  BY <1>1 DEF ClientInv, Idle, Quiet
<1> DEFINE g == GotSkew(evdns, r)
<1>3. r \in DOMAIN evdns.lookups /\ WentOn(g.e, evdns, r, g.outcome)
  BY <1>1, GotSkewKeeps
<1> HIDE DEF g
<1>4. CASE LookupTold(r, g)
  BY <1>1, <1>2, <1>3, <1>4, ToldKeeps
<1>5. CASE bad' = "yes" /\ UNCHANGED <<prog, obj, object, evdns, stack, asked, told, answered>>
  BY <1>5, BadKeeps
<1> QED
  BY <1>4, <1>5 DEF SkewTimer, g

\* The entry that is taken from the queue.
LEMMA HeadFacts ==
    ASSUME ClientInv, Deferred
    PROVE  /\ evdns.queue # <<>> /\ Top = "loop" /\ prog.host # "number" /\ Sound(evdns)
           /\ Head(evdns.queue) = evdns.queue[1] /\ evdns.queue[1] \in Call /\ 1 \in 1..Len(evdns.queue)
<1>1. evdns.queue # <<>> /\ Top = "loop" /\ Sound(evdns)
  BY DEF Deferred, ClientInv
<1>2. prog.host # "number"
  BY <1>1 DEF ClientInv, Idle, Quiet
<1>3. Head(evdns.queue) = evdns.queue[1] /\ evdns.queue[1] \in Call /\ 1 \in 1..Len(evdns.queue)
  BY <1>1, SoundBase, DequeuedFields
<1> QED
  BY <1>1, <1>2, <1>3

LEMMA QueryEndsKeeps == ClientInv /\ QueryEnds => ClientInv'
<1> SUFFICES ASSUME ClientInv, QueryEnds PROVE ClientInv'
  OBVIOUS
<1> DEFINE c == evdns.queue[1]
           d == Dequeued(evdns)
           g == GotResolve(d, c.base, c.q, c.res)
<1>1. /\ evdns.queue # <<>> /\ Top = "loop" /\ prog.host # "number" /\ Sound(evdns)
      /\ Head(evdns.queue) = c /\ c \in Call
  BY HeadFacts DEF QueryEnds
<1>2. c.q \in Asked /\ c.res \in Ends
  <2>1. c.q \in Queries /\ c.res \in Ends
    BY <1>1 DEF Call
  <2> QED
    BY <1>1, <2>1, NamesDiffer DEF QueryEnds
<1>3. LookupTold(c.base, g)
  BY <1>1 DEF QueryEnds
<1>4. \A s \in Servers : Sees(evdns, 1, s) => s \in {}
  BY <1>2, NamesDiffer DEF Sees
<1>5. /\ DnsInv(d, {}, {}) /\ Kin(d, evdns)
      /\ c.base \in DOMAIN d.lookups /\ c.q \in d.lookups[c.base].out /\ Gone(d, c.base, c.q)
  BY <1>1, <1>2, <1>4, DequeuedKeeps
<1> HIDE DEF c, d
<1>6. WentOn(g.e, d, c.base, g.outcome)
  BY <1>2, <1>5, GotResolveKeeps DEF Sound
<1> HIDE DEF g
<1>7. WentOn(g.e, evdns, c.base, g.outcome) /\ c.base \in DOMAIN evdns.lookups
  BY <1>5, <1>6 DEF WentOn, Kin
<1> QED
  BY <1>1, <1>3, <1>7, ToldKeeps

LEMMA ProbeEndsKeeps == ClientInv /\ ProbeEnds => ClientInv'
<1> SUFFICES ASSUME ClientInv, ProbeEnds PROVE ClientInv'
  OBVIOUS
<1> DEFINE c == evdns.queue[1]
           d == Dequeued(evdns)
<1>1. /\ evdns.queue # <<>> /\ Top = "loop" /\ prog.host # "number" /\ Sound(evdns)
      /\ Head(evdns.queue) = c /\ c \in Call /\ 1 \in 1..Len(evdns.queue)
  BY HeadFacts DEF ProbeEnds
<1>2. /\ IsProbe(c.q) /\ ~UsesFreed(evdns, c)
      /\ evdns' = IF c.base = d.base THEN ProbeCallback(d, c.q[2], c.res) ELSE d
  BY <1>1 DEF ProbeEnds
<1>3. c.res \in Ends /\ \E s \in Servers : c.q = Probe(s)
  <2>1. c.q \in Queries /\ c.res \in Ends
    BY <1>1 DEF Call
  <2> QED
    BY <1>2, <2>1, NamesDiffer DEF Asked
<1>4. PICK s \in Servers : c.q = Probe(s)
  BY <1>3
<1>5. c.q[2] = s /\ \A r \in Servers : Sees(evdns, 1, r) => r \in {s}
  BY <1>4, NamesDiffer DEF Probe, Sees
<1>6. DnsInv(d, {}, {s}) /\ Kin(d, evdns)
  BY <1>1, <1>5, DequeuedKeeps
<1>7. c.res = "cancel" => Sound(d)
  <2>1. c.res = "cancel" => \A r \in Servers : Sees(evdns, 1, r) => r \in {}
    BY DEF Sees
  <2> QED
    BY <1>1, <2>1, DequeuedKeeps DEF Sound
<1>8. c.base = d.base /\ c.res # "cancel" => Probe(s) \notin DOMAIN d.reqs
  <2>1. d.reqs = evdns.reqs /\ d.base = evdns.base
    BY <1>1, SoundBase, DequeuedFields DEF Kin
  <2>2. c.base = evdns.base /\ c.res # "cancel" => Sees(evdns, 1, s)
    BY <1>4 DEF Sees
  <2>3. Sees(evdns, 1, s) => Probe(s) \notin DOMAIN evdns.reqs
    BY <1>1 DEF Sound, DnsInv, Probed
  <2> QED
    BY <2>1, <2>2, <2>3
<1>9. c.base # d.base => c.res = "cancel"
  BY <1>2, <1>6 DEF UsesFreed, Kin
<1> HIDE DEF c, d
<1>10. Keeps(evdns', d)
  <2>1. CASE c.base = d.base /\ c.res # "cancel"
    BY <1>2, <1>3, <1>5, <1>6, <1>8, <2>1, ProbeCallbackKeeps
  <2>2. CASE c.res = "cancel"
    <3>1. evdns' = d
      BY <1>2, <2>2 DEF ProbeCallback
    <3> QED
      BY <1>7, <2>2, <3>1 DEF Keeps, Kin
  <2> QED
    BY <1>9, <2>1, <2>2
<1>11. Keeps(evdns', evdns)
  BY <1>6, <1>10, KeepsOn
<1> QED
  BY <1>1, <1>11, EvdnsKeeps DEF ProbeEnds

LEMMA ClientStep == ClientInv /\ [Next]_vars => ClientInv'
<1> SUFFICES ASSUME ClientInv, [Next]_vars PROVE ClientInv'
  OBVIOUS
<1>1. CASE Request
  BY <1>1, RequestKeeps
<1>2. CASE Returns
  BY <1>2, MakeKeeps, FailsNowKeeps, ReturnsKeep DEF Returns
<1>3. CASE ProbeEnds \/ QueryEnds
  BY <1>3, ProbeEndsKeeps, QueryEndsKeeps
<1>4. CASE StaleCallback
  BY <1>4, BadKeeps DEF StaleCallback
<1>5. CASE Resolver
  BY <1>5, RepliesKeep, ProdKeeps, SkewKeeps DEF Resolver
<1>6. CASE Network
  BY <1>6, NetworkKeeps
<1>7. CASE Delete
  BY <1>7, DeleteKeeps
<1>8. CASE UNCHANGED vars
  <2>1. Top' = Top
    BY <1>8 DEF vars, Top
  <2>2. Shape'
    BY <1>8 DEF vars, object, ClientInv, Shape
  <2>3. Link' /\ Once' /\ Idle'
    BY <1>8, <2>1 DEF vars, object, ClientInv, Link, Once, Idle
  <2> QED
    BY <1>8, <2>2, <2>3 DEF vars, ClientInv
<1> QED
  BY <1>1, <1>2, <1>3, <1>4, <1>5, <1>6, <1>7, <1>8 DEF Next, Callbacks

\* ClientInv, which says how the client and the resolver hang together, holds in every
\* state: remote_read_callback, Free and evdns_getaddrinfo_gotresolve never leave one
\* of them with what the other has dropped.
THEOREM ClientCorrect == Spec => []ClientInv
  BY InitClient, ClientStep, PTL DEF Spec

\* No virtual function is called twice for a request, nor before the request is made,
\* and evdns_getaddrinfo tells the outcome of a lookup once, whatever name servers,
\* timers and the user's own calls of Request and delete do meanwhile.
THEOREM ToldOnceCorrect == Spec => []ToldOnce
<1>1. ClientInv => ToldOnce
  <2> SUFFICES ASSUME ClientInv, NEW r \in Requests
               PROVE  LET most == IF r <= asked THEN 1 ELSE 0 IN told[r] <= most /\ answered[r] <= most
    BY DEF ToldOnce
  <2>1. told[r] \in {0, 1} /\ answered[r] \in {0, 1} /\ asked \in Nat /\ r \in Nat
    BY ShapeFacts DEF ClientInv, Shape, Requests
  <2>2. r > asked => told[r] = 0 /\ answered[r] = 0
    BY DEF ClientInv, Once
  <2>3. r > asked \/ r <= asked
    BY <2>1
  <2> QED
    BY <2>1, <2>2, <2>3
<1> QED
  BY <1>1, ClientCorrect, PTL

\* A name server that is down is on its way back, evdns' counts agree with its lists,
\* and a timer is armed for each query in flight and for no other, for any number of
\* name servers that refuse, fail, stay silent or cannot be sent to.
THEOREM WatchedCorrect == Spec => []ServersWatched
<1>1. ClientInv => ServersWatched
  <2> SUFFICES ASSUME ClientInv PROVE ServersWatched
    OBVIOUS
  <2>1. Counted(evdns) /\ Timed(evdns) /\ Watched(evdns, {}) /\ DOMAIN evdns.reqs \subseteq Queries
    BY SoundBase, Fields DEF ClientInv, Sound, DnsInv
  <2>2. \A q \in Queries : q \in evdns.timers <=> q \in DOMAIN evdns.reqs
    BY <2>1 DEF Timed, Due
  <2>3. \A s \in Servers : evdns.inflight[s] = Cardinality({q \in DOMAIN evdns.reqs : evdns.reqs[q].ns = s})
    BY <2>1 DEF Counted, At
  <2>4. ASSUME NEW s \in Servers \ evdns.up
        PROVE  \/ Prod(s) \in evdns.timers
               \/ Probe(s) \in DOMAIN evdns.reqs
               \/ \E i \in 1..Len(evdns.queue) :
                    LET c == evdns.queue[i]
                    IN  c.base = evdns.base /\ c.q = Probe(s) /\ c.res # "cancel"
    BY <2>1 DEF Watched, Returning, Sees
  <2> QED
    BY <2>1, <2>2, <2>3, <2>4 DEF ServersWatched, Counted
<1> QED
  BY <1>1, ClientCorrect, PTL

LEMMA ClientTypes == ClientInv => TypeOK
<1> SUFFICES ASSUME ClientInv PROVE TypeOK
  OBVIOUS
<1>1. /\ prog.requests \in Nat /\ prog.requests <= MaxRequests /\ MaxRequests \in Nat
      /\ asked \in 0..prog.requests
  BY ShapeFacts DEF ClientInv, Shape
<1>2. asked \in 0..MaxRequests
  BY <1>1
<1>3. told \in [Requests -> 0..MaxRequests]
  <2>1. ASSUME NEW r \in Requests PROVE 0 \in 0..MaxRequests /\ 1 \in 0..MaxRequests
    BY <1>1 DEF Requests
  <2>2. told \in [Requests -> {0, 1}]
    BY DEF ClientInv, Shape
  <2> QED
    BY <2>1, <2>2
<1>4. evdns.up \subseteq Servers /\ evdns.head \in Servers /\ DOMAIN evdns.reqs \subseteq Queries
  BY SoundBase, Fields DEF ClientInv
<1>5. DOMAIN evdns.lookups \subseteq Requests
  BY ShapeFacts DEF ClientInv, Once
<1>6. stack \in Seq({"make", "made", "cb"})
  BY DEF ClientInv, Shape, StackOk, Frames
<1>7. dns = "set" <=> evdns.base # 0
  BY DEF ClientInv, Shape, Link
<1> QED
  BY <1>2, <1>3, <1>4, <1>5, <1>6, <1>7 DEF ClientInv, Shape, Active, TypeOK

-----------------------------------------------------------------------------
(* Name servers that work. *)

\* All servers are up, and no probe was ever sent.
Smooth(e) ==
    /\ e.up = Servers /\ e.broken = {} /\ DOMAIN e.reqs \subseteq Asked
    /\ \A i \in 1..Len(e.queue) : e.queue[i].q \in Asked

\* The callbacks that wait in d waited in e, or are for the end res of q, in the same base.
From(d, e, q, res) ==
    \A i \in 1..Len(d.queue) :
        \/ \E j \in 1..Len(e.queue) : d.queue[i] = e.queue[j]
        \/ d.queue[i].base = e.base /\ d.queue[i].q = q /\ d.queue[i].res = res

\* An answer then ends the query, or the next name is tried.
LEMMA EndedFrom ==
    ASSUME NEW e \in Bases, NEW q \in DOMAIN e.reqs, NEW res \in Ends
    PROVE  LET d == Ended(e, q, res)
           IN  Kin(d, e) /\ d.up = e.up /\ DOMAIN d.reqs \subseteq DOMAIN e.reqs /\ From(d, e, q, res)
<1> DEFINE d == Ended(e, q, res)
           n == Len(e.queue) + 1
<1>1. /\ Kin(d, e) /\ d.up = e.up
      /\ DOMAIN d.reqs = DOMAIN e.reqs \ {q}
      /\ Len(e.queue) \in Nat /\ Len(d.queue) = n
      /\ \A i \in 1..Len(e.queue) : d.queue[i] = e.queue[i]
      /\ d.queue[n].base = e.base /\ d.queue[n].q = q /\ d.queue[n].res = res
  BY EndedFacts
<1> HIDE DEF d
<1>2. \A i \in 1..Len(d.queue) : i \in 1..Len(e.queue) \/ i = n
  BY <1>1
<1>3. From(d, e, q, res)
  BY <1>1, <1>2 DEF From
<1> QED
  BY <1>1, <1>3 DEF d

LEMMA SmoothReply ==
    ASSUME NEW e, Sound(e), Smooth(e), NEW q \in DOMAIN e.reqs, NEW s \in Servers, NEW kind \in {"ok", "notexist"}
    PROVE  LET d == Reply(e, q, s, kind)
           IN  /\ Kin(d, e) /\ Smooth(d) /\ From(d, e, q, kind)
               /\ kind = "notexist" /\ e.reqs[q].names > 1 => \A i \in 1..Len(d.queue) :
                    \E j \in 1..Len(e.queue) : d.queue[i] = e.queue[j]
<1> DEFINE a == Read(e, q, s)
<1>1. Reply(e, q, s, kind) = Handle(a, q, kind)
  BY DEF Reply, Then, Read
<1>2. Goes(a, e, {}, DOMAIN e.reqs) /\ a.up = e.up /\ a.reqs[q].names = e.reqs[q].names
  BY SoundBase, ReadGoes
<1> HIDE DEF a
<1>3. /\ a \in Bases /\ DOMAIN a.reqs = DOMAIN e.reqs /\ a.base = e.base /\ a.lookups = e.lookups
      /\ a.queue = e.queue /\ a.broken = e.broken /\ q \in DOMAIN a.reqs /\ a.up = Servers /\ q \in Asked
  BY <1>2, SMTT(40) DEF Goes, Same, Smooth
<1>4. \A x \in Bases : q \in DOMAIN x.reqs /\ x.up = Servers => Praised(x, q) = x
  <2> TAKE x \in Bases
  <2> HAVE q \in DOMAIN x.reqs /\ x.up = Servers
  <2>1. x.reqs[q].ns \in Servers
    BY ReqFacts
  <2>2. q # Probe(x.reqs[q].ns)
    BY <1>3, NamesDiffer
  <2> QED
    BY <2>1, <2>2, Zenon DEF Praised, Then, Up
<1> DEFINE Like(d) == Kin(d, a) /\ d.up = a.up /\ DOMAIN d.reqs \subseteq DOMAIN a.reqs /\ From(d, a, q, kind)
<1>5. \A d : Like(d) => Kin(d, e) /\ Smooth(d) /\ From(d, e, q, kind)
  BY <1>3 DEF Kin, Smooth, From
<1>6. kind \in Ends
  BY DEF Ends
<1>7. CASE kind = "ok"
  <2>1. Ended(a, q, "ok") = Finished(Schedule(a, q, "ok"), q)
    BY <1>3, <1>6, <1>7, EndedFacts
  <2>2. Schedule(a, q, "ok") \in Bases /\ Schedule(a, q, "ok").reqs = a.reqs /\ Schedule(a, q, "ok").up = a.up
    BY <1>3, <1>6, <1>7, ReqFacts, ScheduleFields
  <2>3. Praised(Schedule(a, q, "ok"), q) = Schedule(a, q, "ok")
    BY <1>3, <1>4, <2>2
  <2>4. Handle(a, q, kind) = Ended(a, q, "ok")
    BY <1>7, <2>1, <2>3 DEF Handle, Then
  <2>5. Like(Ended(a, q, "ok"))
    BY <1>3, <1>6, <1>7, EndedFrom
  <2> QED
    BY <1>1, <1>5, <1>7, <2>4, <2>5
<1>8. CASE kind = "notexist" /\ a.reqs[q].names > 1
  <2>1. Handle(a, q, kind) = TryNext(a, q)
    BY <1>3, <1>4, <1>8 DEF Handle, Then, GiveUp
  <2>2. Goes(TryNext(a, q), a, {q}, DOMAIN a.reqs) /\ TryNext(a, q).up = a.up
    BY <1>3, <1>8, TryNextGoes DEF Smooth
  <2>3. /\ TryNext(a, q).queue = a.queue /\ Kin(TryNext(a, q), a)
        /\ DOMAIN TryNext(a, q).reqs = DOMAIN a.reqs
    BY <2>2 DEF Goes, Same, Kin
  <2>4. Like(TryNext(a, q))
    BY <2>2, <2>3 DEF From
  <2>5. \A i \in 1..Len(TryNext(a, q).queue) : \E j \in 1..Len(e.queue) : TryNext(a, q).queue[i] = e.queue[j]
    BY <1>3, <2>3
  <2> QED
    BY <1>1, <1>5, <2>1, <2>4, <2>5
<1>9. CASE kind = "notexist" /\ ~(a.reqs[q].names > 1)
  <2>1. Handle(a, q, kind) = Ended(a, q, kind)
    BY <1>3, <1>4, <1>9 DEF Handle, Then, GiveUp
  <2>2. Like(Ended(a, q, kind))
    BY <1>3, <1>6, EndedFrom
  <2> QED
    BY <1>1, <1>2, <1>5, <1>9, <2>1, <2>2
<1> QED
  BY <1>7, <1>8, <1>9

Calm == prog.net \intersect ServerFaults = {}

\* Callbacks that wait, but for those of a base that was freed, are for the base that is
\* there, and wait while no function of the user runs.
Hushed(e) == \A i \in 1..Len(e.queue) : e.queue[i].res = "shutdown"
Settled ==
    \A i \in 1..Len(evdns.queue) : evdns.queue[i].res # "shutdown" =>
        evdns.queue[i].base = evdns.base /\ stack = <<>>

CalmInv == Calm => Smooth(evdns) /\ (prog.deletes # "anytime" => Settled)

LEMMA CallFacts ==
    ASSUME ClientInv, NEW i \in 1..Len(evdns.queue), evdns.queue[i].q \in Asked
    PROVE  evdns.queue[i].base \in 1..asked /\ evdns.queue[i].base # 0 /\ evdns.queue[i].base \in DOMAIN evdns.lookups
<1>1. evdns.queue[i].base \in DOMAIN evdns.lookups
  BY DEF ClientInv, Sound, DnsInv, Calls, CallOk
<1>2. evdns.queue[i].base \in 1..asked
  BY <1>1 DEF ClientInv, Once
<1> QED
  BY <1>1, <1>2

\* While a function runs, or there is no base, only callbacks of bases that were freed wait.
LEMMA HushedNow ==
    ASSUME ClientInv, CalmInv, Calm, prog.deletes # "anytime", stack # <<>> \/ evdns.base = 0
    PROVE  Hushed(evdns)
<1> SUFFICES ASSUME NEW i \in 1..Len(evdns.queue), evdns.queue[i].res # "shutdown" PROVE FALSE
  BY DEF Hushed
<1>1. evdns.queue[i].base = evdns.base /\ stack = <<>> /\ evdns.queue[i].q \in Asked
  BY DEF CalmInv, Settled, Smooth
<1> QED
  BY <1>1, CallFacts

LEMMA HushedKeeps ==
    ASSUME prog' = prog, Smooth(evdns'), prog.deletes # "anytime" => Hushed(evdns')
    PROVE  CalmInv'
  BY DEF CalmInv, Calm, Settled, Hushed

LEMMA FreedKeeps ==
    ASSUME prog' = prog, NEW e, Sound(e), Smooth(e), evdns' = FreeBase(e), prog.deletes # "anytime" => Hushed(e)
    PROVE  CalmInv'
<1> DEFINE d == FreeBase(e)
<1>1. /\ d.reqs = <<>> /\ d.up = Servers /\ d.broken = {}
      /\ \A i \in 1..Len(d.queue) :
           \/ d.queue[i].res = "shutdown" /\ d.queue[i].q \in DOMAIN e.reqs
           \/ \E j \in 1..Len(e.queue) : d.queue[i] = e.queue[j]
  BY FreeBaseKeeps
<1> HIDE DEF d
<1>2. DOMAIN d.reqs = {}
  BY <1>1
<1>3. Smooth(d)
  BY <1>1, <1>2 DEF Smooth
<1>4. Hushed(e) => Hushed(d)
  BY <1>1 DEF Hushed
<1>5. evdns' = d
  BY DEF d
<1> QED
  BY <1>3, <1>4, <1>5, HushedKeeps

\* Nothing happens to the resolver, or a function returns.
LEMMA StillCalm ==
    ASSUME ClientInv, CalmInv, prog' = prog, evdns' = evdns, stack' = stack \/ stack # <<>>
    PROVE  CalmInv'
<1>1. CASE stack' = stack
  BY <1>1 DEF CalmInv, Calm, Settled
<1>2. CASE ~Calm
  BY <1>2 DEF CalmInv, Calm
<1>3. CASE Calm /\ stack # <<>>
  <2>1. prog.deletes # "anytime" => Hushed(evdns)
    BY <1>3, HushedNow
  <2>2. Smooth(evdns')
    BY <1>3 DEF CalmInv
  <2> QED
    BY <2>1, <2>2, HushedKeeps
<1> QED
  BY <1>1, <1>2, <1>3

LEMMA CalmRequest == ClientInv /\ CalmInv /\ Calm /\ Request => CalmInv'
<1> SUFFICES ASSUME ClientInv, CalmInv, Calm, Request PROVE CalmInv'
  OBVIOUS
<1>1. /\ evdns' = NewBase(evdns, asked + 1, {}) /\ prog' = prog
      /\ stack # <<>> \/ evdns.base = 0
  <2>1. "unreachable" \notin prog.net
    BY DEF Calm, ServerFaults
  <2>2. evdns.base = 0
    BY DEF Request, ClientInv, Link
  <2> QED
    BY <2>1, <2>2 DEF Request
<1> DEFINE d == NewBase(evdns, asked + 1, {})
<1>2. d.reqs = <<>> /\ d.up = Servers /\ d.broken = {} /\ d.queue = evdns.queue
  <2>1. asked + 1 \in Nat /\ {} \in SUBSET Servers
    BY ShapeFacts DEF ClientInv
  <2> QED
    BY <2>1, NewBaseKeeps DEF ClientInv
<1> HIDE DEF d
<1>3. DOMAIN d.reqs = {}
  BY <1>2
<1>4. Smooth(d)
  BY <1>2, <1>3 DEF Smooth, CalmInv
<1>5. prog.deletes # "anytime" => Hushed(d)
  BY <1>1, <1>2, HushedNow DEF Hushed
<1>6. evdns' = d
  BY <1>1 DEF d
<1> QED
  BY <1>1, <1>4, <1>5, <1>6, HushedKeeps

LEMMA CalmMake == ClientInv /\ CalmInv /\ Calm /\ MakeRequest => CalmInv'
<1> SUFFICES ASSUME ClientInv, CalmInv, Calm, MakeRequest PROVE CalmInv'
  OBVIOUS
<1>1. Top = "make" /\ stack # <<>> /\ prog' = prog
  BY DEF MakeRequest, Top
<1>2. CASE evdns' = evdns
  BY <1>1, <1>2, StillCalm
<1>3. CASE evdns' = Launch(evdns, evdns.base, prog.names)
  <2> DEFINE d == Launch(evdns, asked, prog.names)
  <2>1. DOMAIN evdns.reqs = {} /\ evdns.base = asked /\ evdns.base \notin DOMAIN evdns.lookups
    BY <1>1 DEF ClientInv, Link
  <2>2. asked \in Nat /\ prog.names \in Nat \ {0} /\ Sound(evdns)
    BY ShapeFacts DEF ClientInv
  <2>3. /\ d.broken = evdns.broken /\ d.queue = evdns.queue /\ DOMAIN d.reqs = Asked
        /\ evdns.broken = {} => d.up = evdns.up
    BY <2>1, <2>2, LaunchKeeps
  <2>4. evdns' = d
    BY <1>3, <2>1
  <2> HIDE DEF d
  <2>5. Smooth(d)
    BY <2>3 DEF CalmInv, Smooth
  <2>6. prog.deletes # "anytime" => Hushed(d)
    BY <1>1, <2>3, HushedNow DEF Hushed
  <2> QED
    BY <1>1, <2>4, <2>5, <2>6, HushedKeeps
<1> QED
  BY <1>2, <1>3 DEF MakeRequest

LEMMA CalmReply ==
    ASSUME ClientInv, CalmInv, Calm, NEW q \in Queries, ServerReplies(q)
    PROVE  /\ CalmInv' /\ Kin(evdns', evdns)
           /\ \E res \in {"ok", "notexist"} :
                /\ From(evdns', evdns, q, res) /\ res \in Kinds(q)
                /\ res = "notexist" /\ evdns.reqs[q].names > 1 => \A i \in 1..Len(evdns'.queue) :
                     \E j \in 1..Len(evdns.queue) : evdns'.queue[i] = evdns.queue[j]
<1>1. PICK s \in evdns.reqs[q].sent, kind \in Kinds(q) : evdns' = Reply(evdns, q, s, kind)
  BY DEF ServerReplies
<1>2. /\ q \in DOMAIN evdns.reqs /\ Top = "loop" /\ Sound(evdns) /\ Smooth(evdns)
      /\ prog' = prog /\ stack' = stack
  BY DEF ServerReplies, ClientInv, CalmInv
<1>3. s \in Servers
  BY <1>1, <1>2, SoundBase, ReqFacts
<1>4. kind \in {"ok", "notexist"}
  BY <1>1 DEF Kinds, Calm, ServerFaults
<1>5. /\ Kin(evdns', evdns) /\ Smooth(evdns') /\ From(evdns', evdns, q, kind)
      /\ kind = "notexist" /\ evdns.reqs[q].names > 1 => \A i \in 1..Len(evdns'.queue) :
           \E j \in 1..Len(evdns.queue) : evdns'.queue[i] = evdns.queue[j]
  BY <1>1, <1>2, <1>3, <1>4, SmoothReply
<1>6. stack = <<>>
  BY <1>2, LoopFacts DEF ClientInv
<1>7. Settled => Settled'
  BY <1>2, <1>5, <1>6, SMTT(40) DEF Settled, From, Kin
<1>8. CalmInv'
  BY <1>2, <1>5, <1>7 DEF CalmInv, Calm
<1> QED
  BY <1>1, <1>4, <1>5, <1>8

\* The callback of a query has run: the lookup went on, and nothing else changed.
LEMMA QueryEndsFacts ==
    ASSUME ClientInv, QueryEnds
    PROVE  LET c == evdns.queue[1]
               d == Dequeued(evdns)
               g == GotResolve(d, c.base, c.q, c.res)
           IN  /\ LookupTold(c.base, g) /\ Sound(g.e) /\ c.q \in Asked /\ c.q \in evdns.lookups[c.base].out
               /\ c.base \in DOMAIN evdns.lookups
               /\ g.e.base = evdns.base /\ g.e.broken = evdns.broken
               /\ g.e.up = evdns.up /\ g.e.reqs = evdns.reqs
               /\ \A i \in 1..Len(g.e.queue) : i + 1 \in 1..Len(evdns.queue) /\ g.e.queue[i] = evdns.queue[i + 1]
               /\ g.outcome # "none" => c.base \notin DOMAIN g.e.lookups
               /\ DOMAIN g.e.lookups \subseteq DOMAIN evdns.lookups
               /\ \A p \in DOMAIN g.e.lookups : p # c.base => g.e.lookups[p] = evdns.lookups[p]
               /\ Hit(evdns, c.base, c.q, c.res) => g.outcome # "error" /\ Well(g.e, c.base)
<1> DEFINE c == evdns.queue[1]
           d == Dequeued(evdns)
           g == GotResolve(d, c.base, c.q, c.res)
<1>1. evdns.queue # <<>> /\ Sound(evdns) /\ Head(evdns.queue) = c /\ c \in Call
  BY HeadFacts DEF QueryEnds
<1>2. c.q \in Asked /\ c.res \in Ends
  <2>1. c.q \in Queries /\ c.res \in Ends
    BY <1>1 DEF Call
  <2> QED
    BY <1>1, <2>1, NamesDiffer DEF QueryEnds
<1>3. LookupTold(c.base, g)
  BY <1>1 DEF QueryEnds
<1>4. \A s \in Servers : Sees(evdns, 1, s) => s \in {}
  BY <1>2, NamesDiffer DEF Sees
<1>5. /\ DnsInv(d, {}, {})
      /\ c.base \in DOMAIN d.lookups /\ c.q \in d.lookups[c.base].out /\ Gone(d, c.base, c.q)
  BY <1>1, <1>2, <1>4, DequeuedKeeps
<1>6. /\ d.base = evdns.base /\ d.lookups = evdns.lookups /\ d.broken = evdns.broken
      /\ d.reqs = evdns.reqs /\ d.up = evdns.up
      /\ \A i \in 1..Len(d.queue) : i + 1 \in 1..Len(evdns.queue) /\ d.queue[i] = evdns.queue[i + 1]
  BY <1>1, SoundBase, DequeuedFields DEF Kin
<1> HIDE DEF c, d
<1>7. /\ WentOn(g.e, d, c.base, g.outcome)
      /\ g.e.up = d.up /\ g.e.reqs = d.reqs /\ g.e.queue = d.queue
      /\ g.outcome # "none" => c.base \notin DOMAIN g.e.lookups
      /\ \A p \in DOMAIN g.e.lookups : p # c.base => g.e.lookups[p] = d.lookups[p]
      /\ Hit(d, c.base, c.q, c.res) => g.outcome # "error" /\ Well(g.e, c.base)
  BY <1>2, <1>5, GotResolveKeeps DEF Sound
<1>8. Hit(d, c.base, c.q, c.res) <=> Hit(evdns, c.base, c.q, c.res)
  BY <1>6 DEF Hit, Well
<1> HIDE DEF g
<1>9. /\ Sound(g.e) /\ g.e.base = evdns.base /\ g.e.broken = evdns.broken
      /\ DOMAIN g.e.lookups \subseteq DOMAIN evdns.lookups
  BY <1>6, <1>7 DEF WentOn
<1> QED
  BY <1>2, <1>3, <1>5, <1>6, <1>7, <1>8, <1>9, Zenon DEF g, c, d

LEMMA CalmQueryEnds == ClientInv /\ CalmInv /\ Calm /\ QueryEnds => CalmInv'
<1> SUFFICES ASSUME ClientInv, CalmInv, Calm, QueryEnds PROVE CalmInv'
  OBVIOUS
<1> DEFINE c == evdns.queue[1]
           r == c.base
           g == GotResolve(Dequeued(evdns), r, c.q, c.res)
<1>1. /\ LookupTold(r, g) /\ Sound(g.e) /\ g.e.base = evdns.base /\ g.e.broken = evdns.broken
      /\ g.e.up = evdns.up /\ g.e.reqs = evdns.reqs
      /\ \A i \in 1..Len(g.e.queue) : i + 1 \in 1..Len(evdns.queue) /\ g.e.queue[i] = evdns.queue[i + 1]
      /\ g.outcome # "none" => r \notin DOMAIN g.e.lookups
  BY QueryEndsFacts, Zenon
<1> HIDE DEF r, g
<1>2. Smooth(g.e)
  BY <1>1 DEF CalmInv, Smooth
<1>3. CASE evdns' = g.e /\ stack' = stack /\ prog' = prog
  <2>1. Settled => Settled'
    BY <1>1, <1>3 DEF Settled
  <2> QED
    BY <1>2, <1>3, <2>1 DEF CalmInv, Calm
<1>4. CASE r = evdns.base /\ g.outcome # "none" /\ Tell(g.e, stack)
  <2>1. ASSUME prog.deletes # "anytime", NEW i \in 1..Len(g.e.queue), g.e.queue[i].res # "shutdown" PROVE FALSE
    <3>1. g.e.queue[i].base = r /\ g.e.queue[i].q \in Asked
      BY <1>1, <1>2, <1>4, <2>1 DEF CalmInv, Settled, Smooth
    <3>2. g.e.queue[i].base \in DOMAIN g.e.lookups
      BY <1>1, <3>1 DEF Sound, DnsInv, Calls, CallOk
    <3> QED
      BY <1>1, <1>4, <3>1, <3>2
  <2>2. prog.deletes # "anytime" => Hushed(g.e)
    BY <2>1 DEF Hushed
  <2>3. evdns' = FreeBase(g.e) /\ prog' = prog
    BY <1>4 DEF Tell, Free
  <2> QED
    BY <1>1, <1>2, <2>2, <2>3, FreedKeeps
<1> QED
  BY <1>1, <1>3, <1>4, SMTT(40) DEF LookupTold, LookupDone

LEMMA CalmEnds ==
    ASSUME ClientInv, CalmInv, Calm, NEW frames, Tell(evdns, frames), stack # <<>> \/ ConnectionEvent
    PROVE  CalmInv'
<1>1. evdns' = FreeBase(evdns) /\ prog' = prog
  BY DEF Tell, Free
<1>2. prog.deletes # "anytime" => Hushed(evdns)
  <2>1. CASE stack # <<>>
    BY <2>1, HushedNow
  <2>2. CASE ConnectionEvent
    <3> SUFFICES ASSUME prog.deletes # "anytime", NEW i \in 1..Len(evdns.queue), evdns.queue[i].res # "shutdown"
                 PROVE  FALSE
      BY DEF Hushed
    <3>1. evdns.queue[i].base = evdns.base /\ evdns.queue[i].q \in Asked
      BY DEF CalmInv, Settled, Smooth
    <3> QED
      BY <2>2, <3>1, NamesDiffer DEF ConnectionEvent, Asked
  <2> QED
    BY <2>1, <2>2
<1>3. Sound(evdns) /\ Smooth(evdns)
  BY DEF ClientInv, CalmInv
<1> QED
  BY <1>1, <1>2, <1>3, FreedKeeps

LEMMA CalmDelete == ClientInv /\ CalmInv /\ Calm /\ Delete => CalmInv'
<1> SUFFICES ASSUME ClientInv, CalmInv, Calm, Delete PROVE CalmInv'
  OBVIOUS
<1>1. evdns' = FreeBase(evdns) /\ prog' = prog /\ (prog.deletes # "anytime" => stack # <<>>)
  BY DEF Delete, Free, Top
<1>2. prog.deletes # "anytime" => Hushed(evdns)
  BY <1>1, HushedNow
<1>3. Sound(evdns) /\ Smooth(evdns)
  BY DEF ClientInv, CalmInv
<1> QED
  BY <1>1, <1>2, <1>3, FreedKeeps

LEMMA CalmStep == ClientInv /\ CalmInv /\ [Next]_vars => CalmInv'
<1> SUFFICES ASSUME ClientInv, CalmInv, [Next]_vars PROVE CalmInv'
  OBVIOUS
<1>1. prog' = prog
  BY ProgKept
<1>2. CASE ~Calm
  BY <1>1, <1>2 DEF CalmInv, Calm
<1> SUFFICES ASSUME Calm PROVE CalmInv'
  BY <1>2
<1>3. CASE Request
  BY <1>3, CalmRequest
<1>4. CASE Returns
  <2>1. CASE MakeRequest
    BY <2>1, CalmMake
  <2>2. CASE FailsNow
    BY <2>2, CalmEnds DEF FailsNow, Top
  <2>3. CASE MadeReturn \/ CbReturn
    BY <1>1, <2>3, StillCalm DEF MadeReturn, CbReturn, Top
  <2> QED
    BY <1>4, <2>1, <2>2, <2>3 DEF Returns
<1>5. CASE Callbacks
  <2>1. CASE ProbeEnds
    <3>1. evdns.queue[1].q \in Asked /\ IsProbe(evdns.queue[1].q)
      BY <2>1, HeadFacts DEF ProbeEnds, CalmInv, Smooth
    <3> QED
      BY <3>1, NamesDiffer DEF Asked
  <2>2. CASE QueryEnds
    BY <2>2, CalmQueryEnds
  <2>3. CASE StaleCallback
    BY <1>1, <2>3, StillCalm DEF StaleCallback
  <2> QED
    BY <1>5, <2>1, <2>2, <2>3 DEF Callbacks
<1>6. CASE Resolver
  BY <1>6, CalmReply DEF Resolver, QueryTimer, ProdTimer, SkewTimer, Fires, Calm
<1>7. CASE Network
  <2>1. CASE Connected \/ NullRequest
    BY <1>1, <2>1, StillCalm DEF Connected, NullRequest
  <2>2. CASE ConnectFails \/ Response
    BY <2>2, CalmEnds DEF ConnectFails, Response
  <2> QED
    BY <1>7, <2>1, <2>2 DEF Network
<1>8. CASE Delete
  BY <1>8, CalmDelete
<1>9. CASE UNCHANGED vars
  BY <1>1, <1>9, StillCalm DEF vars
<1> QED
  BY <1>3, <1>4, <1>5, <1>6, <1>7, <1>8, <1>9 DEF Next

LEMMA InitCalm == Init => CalmInv
<1>1. /\ DOMAIN NoBase.reqs = {} /\ Len(NoBase.queue) = 0
      /\ NoBase.up = Servers /\ NoBase.broken = {}
  BY NoBaseFields DEF NoBase
<1> QED
  BY <1>1 DEF Init, CalmInv, Smooth, Settled

-----------------------------------------------------------------------------
(* A network in which nothing fails. *)

\* The lookup of the base that is there will have an A record.
AllFound(e) ==
    /\ Well(e, e.base)
    /\ \A i \in 1..Len(e.queue) : e.queue[i].base = e.base /\ e.queue[i].q = A => e.queue[i].res = "ok"

NetInv == prog.net = {} => flight # "lost" /\ (isReq = "yes" => flight # "none") /\ AllFound(evdns)

LEMMA NotLaunched == ASSUME NEW e, Sound(e), e.base \notin DOMAIN e.lookups PROVE AllFound(e)
<1>1. \A i \in 1..Len(e.queue) : e.queue[i].q \in Asked => e.queue[i].base \in DOMAIN e.lookups
  BY DEF Sound, DnsInv, Calls, CallOk
<1> QED
  BY <1>1 DEF AllFound, Well, Asked

\* The object is freed.
LEMMA NetFree ==
    ASSUME ClientInv', evdns'.base = 0, flight' = "none", isReq' = "no" PROVE NetInv'
<1>1. Sound(evdns')
  BY DEF ClientInv
<1>2. 0 \notin DOMAIN evdns'.lookups
  BY DEF ClientInv, Once
<1>3. AllFound(evdns')
  BY <1>1, <1>2, NotLaunched
<1> QED
  BY <1>3 DEF NetInv

LEMMA NetTell == ASSUME ClientInv', NEW e, Sound(e), NEW frames, Tell(e, frames) PROVE NetInv'
<1>1. evdns' = FreeBase(e) /\ flight' = "none" /\ isReq' = "no"
  BY DEF Tell, Free
<1>2. evdns'.base = 0
  BY <1>1, FreeFacts
<1> QED
  BY <1>1, <1>2, NetFree

LEMMA NetStart ==
    ASSUME ClientInv, ClientInv', CalmInv, prog' = prog, prog.net = {}, Request \/ MakeRequest
    PROVE  NetInv'
<1>1. CASE Request
  <2>1. evdns'.base = asked + 1 /\ evdns'.lookups = evdns.lookups
    <3>1. "unreachable" \notin prog.net /\ evdns' = NewBase(evdns, asked + 1, {})
      BY <1>1 DEF Request
    <3>2. asked + 1 \in Nat /\ {} \in SUBSET Servers /\ Sound(evdns)
      BY ShapeFacts DEF ClientInv
    <3> QED
      BY <3>1, <3>2, NewBaseKeeps
  <2>2. asked + 1 \notin DOMAIN evdns.lookups
    BY ShapeFacts DEF ClientInv, Once
  <2>3. AllFound(evdns')
    BY <2>1, <2>2, NotLaunched DEF ClientInv
  <2> QED
    BY <1>1, <2>3 DEF Request, NetInv
<1>2. CASE MakeRequest
  <2>1. /\ Top = "make" /\ DOMAIN evdns.reqs = {} /\ evdns.base = asked
        /\ evdns.base \notin DOMAIN evdns.lookups /\ Sound(evdns)
    BY <1>2 DEF MakeRequest, ClientInv, Link
  <2>2. flight' \in {"resolving", "connecting"}
    BY <1>2 DEF MakeRequest, RequestReturn
  <2>3. AllFound(evdns')
    <3>1. CASE evdns' = evdns
      BY <2>1, <3>1, NotLaunched
    <3>2. CASE evdns' = Launch(evdns, evdns.base, prog.names)
      <4> DEFINE d == Launch(evdns, asked, prog.names)
      <4>1. asked \in Nat /\ prog.names \in Nat \ {0}
        BY ShapeFacts DEF ClientInv
      <4>2. /\ d.base = evdns.base /\ d.queue = evdns.queue
            /\ d.lookups[asked] = [out |-> Asked, result |-> "none", cb |-> "set"]
        BY <2>1, <4>1, LaunchKeeps
      <4>3. evdns' = d
        BY <2>1, <3>2
      <4> HIDE DEF d
      <4>4. AllFound(evdns)
        BY <2>1, NotLaunched
      <4>5. Well(d, asked)
        BY <4>2 DEF Well, Asked
      <4> QED
        BY <2>1, <4>2, <4>3, <4>4, <4>5 DEF AllFound
    <3> QED
      BY <1>2, <3>1, <3>2 DEF MakeRequest
  <2> QED
    BY <2>2, <2>3 DEF NetInv
<1> QED
  BY <1>1, <1>2

LEMMA NetReply ==
    ASSUME ClientInv, CalmInv, NetInv, prog' = prog, prog.net = {}, NEW q \in Queries, ServerReplies(q)
    PROVE  NetInv'
<1>1. Calm
  BY DEF Calm
<1>2. PICK res \in {"ok", "notexist"} :
           /\ From(evdns', evdns, q, res) /\ res \in Kinds(q)
           /\ res = "notexist" /\ evdns.reqs[q].names > 1 => \A i \in 1..Len(evdns'.queue) :
                \E j \in 1..Len(evdns.queue) : evdns'.queue[i] = evdns.queue[j]
  BY <1>1, CalmReply
<1>3. evdns'.base = evdns.base /\ evdns'.lookups = evdns.lookups
  BY <1>1, CalmReply DEF Kin
<1>4. q = A /\ res = "notexist" => evdns.reqs[q].names > 1
  BY <1>2, NamesDiffer DEF Kinds
<1>5. ASSUME NEW i \in 1..Len(evdns'.queue), evdns'.queue[i].base = evdns'.base, evdns'.queue[i].q = A
      PROVE  evdns'.queue[i].res = "ok"
  <2>1. CASE \E j \in 1..Len(evdns.queue) : evdns'.queue[i] = evdns.queue[j]
    BY <1>3, <1>5, <2>1 DEF NetInv, AllFound
  <2>2. CASE evdns'.queue[i].q = q /\ evdns'.queue[i].res = res /\ res = "ok"
    BY <2>2
  <2> QED
    BY <1>2, <1>4, <1>5, <2>1, <2>2 DEF From
<1>6. AllFound(evdns')
  BY <1>3, <1>5 DEF AllFound, Well, NetInv
<1>7. flight' = flight /\ isReq' = isReq
  BY DEF ServerReplies, object
<1> QED
  BY <1>6, <1>7 DEF NetInv

LEMMA NetQueryEnds ==
    ASSUME ClientInv, ClientInv', NetInv, prog' = prog, prog.net = {}, QueryEnds
    PROVE  NetInv'
<1> DEFINE c == evdns.queue[1]
           r == c.base
           g == GotResolve(Dequeued(evdns), r, c.q, c.res)
<1>1. /\ LookupTold(r, g) /\ Sound(g.e) /\ g.e.base = evdns.base
      /\ \A i \in 1..Len(g.e.queue) : i + 1 \in 1..Len(evdns.queue) /\ g.e.queue[i] = evdns.queue[i + 1]
      /\ DOMAIN g.e.lookups \subseteq DOMAIN evdns.lookups
      /\ \A p \in DOMAIN g.e.lookups : p # r => g.e.lookups[p] = evdns.lookups[p]
      /\ Hit(evdns, r, c.q, c.res) => g.outcome # "error" /\ Well(g.e, r)
  BY QueryEndsFacts, Zenon
<1>2. r = evdns.base => Hit(evdns, r, c.q, c.res)
  BY HeadFacts DEF Hit, NetInv, AllFound, QueryEnds
<1> HIDE DEF r, g, c
<1>3. Well(g.e, evdns.base)
  <2>1. CASE r = evdns.base
    BY <1>1, <1>2, <2>1
  <2>2. CASE r # evdns.base
    BY <1>1, <2>2 DEF NetInv, AllFound, Well
  <2> QED
    BY <2>1, <2>2
<1>4. AllFound(g.e)
  BY <1>1, <1>3 DEF NetInv, AllFound
<1>5. CASE evdns' = g.e /\ isReq' = isReq /\ flight' \in {flight, "connecting"}
  BY <1>4, <1>5 DEF NetInv
<1>6. CASE Tell(g.e, stack)
  BY <1>1, <1>6, NetTell
<1>7. CASE g.outcome # "none" /\ r = evdns.base /\ LookupDone(g.e, g.outcome)
  BY <1>1, <1>2, <1>5, <1>6, <1>7 DEF LookupDone
<1>8. CASE evdns' = g.e /\ UNCHANGED object
  BY <1>5, <1>8 DEF object
<1> QED
  BY <1>1, <1>7, <1>8, SMTT(40) DEF LookupTold

LEMMA NetStep == ClientInv /\ ClientInv' /\ CalmInv /\ NetInv /\ [Next]_vars => NetInv'
<1> SUFFICES ASSUME ClientInv, ClientInv', CalmInv, NetInv, [Next]_vars PROVE NetInv'
  OBVIOUS
<1>1. prog' = prog
  BY ProgKept
<1> SUFFICES ASSUME prog.net = {} PROVE NetInv'
  BY <1>1 DEF NetInv
<1>2. Sound(evdns) /\ Calm /\ prog.net \cap ServerFaults = {}
  BY DEF ClientInv, Calm
<1>3. CASE evdns' = evdns /\ isReq' = isReq /\ flight' \in {flight, "waiting"}
  BY <1>1, <1>3 DEF NetInv
<1>4. CASE Request \/ MakeRequest
  BY <1>1, <1>4, NetStart
<1>5. CASE MadeReturn
  <2>1. stack # <<>> /\ stack[1] = "made" /\ 1 \in 1..Len(stack)
    BY <1>5 DEF MadeReturn, Top, ClientInv, Shape, StackOk
  <2> QED
    BY <2>1 DEF ClientInv, Shape, StackOk
<1>6. CASE CbReturn \/ Connected \/ StaleCallback \/ UNCHANGED vars
  BY <1>3, <1>6 DEF CbReturn, Connected, StaleCallback, vars, object
<1>7. CASE QueryEnds
  BY <1>1, <1>7, NetQueryEnds
<1>8. CASE ProbeEnds
  <2>1. evdns.queue[1].q \in Asked /\ IsProbe(evdns.queue[1].q)
    BY <1>2, <1>8, HeadFacts DEF ProbeEnds, CalmInv, Smooth
  <2> QED
    BY <2>1, NamesDiffer DEF Asked
<1>9. CASE Resolver
  BY <1>1, <1>2, <1>9, NetReply DEF Resolver, QueryTimer, ProdTimer, SkewTimer, Fires
<1>10. CASE ConnectFails \/ Response
  BY <1>2, <1>10, NetTell DEF ConnectFails, Response
<1>11. CASE Delete
  <2>1. evdns' = FreeBase(evdns) /\ flight' = "none" /\ isReq' = "no"
    BY <1>11 DEF Delete, Free
  <2>2. evdns'.base = 0
    BY <1>2, <2>1, FreeFacts
  <2> QED
    BY <2>1, <2>2, NetFree
<1>12. ~FailsNow /\ ~NullRequest
  BY DEF FailsNow, NullRequest
<1> QED
  BY <1>4, <1>5, <1>6, <1>7, <1>8, <1>9, <1>10, <1>11, <1>12 DEF Next, Returns, Callbacks, Network

LEMMA InitNet == Init => NetInv
<1>1. NoBase.lookups = <<>> /\ DOMAIN NoBase.lookups = {} /\ Sound(NoBase)
  BY NoBaseFields, NoBaseKeeps DEF NoBase
<1>2. AllFound(NoBase)
  BY <1>1, NotLaunched
<1> QED
  BY <1>2 DEF Init, NetInv

\* While name servers answer, none of them is taken for dead, and no callback waits for
\* a base that is gone but the one that says so: evdns_base_free cuts short what its
\* owner deletes, in a function of its own, before its callbacks have run.
THEOREM CalmCorrect == Spec => []CalmInv
  BY InitCalm, InitClient, CalmStep, ClientStep, PTL DEF Spec

\* While evhttp works on a request IsReq is true, and Request refuses a second one; with
\* a network in which nothing fails but connects that are refused later, IsReq is true at
\* no other time: remote_read_callback frees the object each time before it tells it.
THEOREM IsReqCorrect == Spec => []IsReqIsTrue
<1>1. ClientInv /\ NetInv => IsReqIsTrue
  <2> SUFFICES ASSUME ClientInv, NetInv, UserCode, obj = "alive"
               PROVE  /\ flight \in {"resolving", "connecting", "waiting"} => isReq = "yes" /\ con = "set"
                      /\ isReq = "yes" /\ prog.net = {} => flight \in {"resolving", "connecting", "waiting"}
    BY ClientTypes DEF IsReqIsTrue
  <2>1. Top # "make" /\ flight \in Active \union {"none", "lost"}
    BY DEF UserCode, ClientInv, Shape
  <2> QED
    BY <2>1 DEF ClientInv, NetInv, Link, Active
<1> QED
  BY <1>1, InitNet, NetStep, InitCalm, CalmStep, InitClient, ClientStep, PTL DEF Spec

LEMMA NoUseStep == ClientInv /\ CalmInv /\ NoUseAfterFree /\ [Next]_vars => NoUseAfterFree'
<1> SUFFICES ASSUME ClientInv, CalmInv, NoUseAfterFree, [Next]_vars, "failsNow" \notin prog.net,
                    prog.host = "number" \/ (Calm /\ prog.deletes # "anytime")
             PROVE  bad' = "no"
  BY ProgKept DEF NoUseAfterFree, Calm
<1>1. bad = "no"
  BY DEF NoUseAfterFree, Calm
<1>2. ~MadeReturn
  <2>1. MadeReturn => stack # <<>> /\ stack[1] = "made" /\ 1 \in 1..Len(stack)
    BY DEF MadeReturn, Top, ClientInv, Shape, StackOk
  <2> QED
    BY <2>1 DEF ClientInv, Shape, StackOk
<1>3. ~StaleCallback
  <2> SUFFICES ASSUME StaleCallback PROVE FALSE
    OBVIOUS
  <2>1. /\ prog.host # "number" /\ Head(evdns.queue) = evdns.queue[1] /\ 1 \in 1..Len(evdns.queue)
        /\ UsesFreed(evdns, evdns.queue[1])
    BY HeadFacts DEF StaleCallback
  <2>2. evdns.queue[1].q \in Asked /\ (evdns.queue[1].res # "shutdown" => evdns.queue[1].base = evdns.base)
    BY <2>1 DEF CalmInv, Smooth, Settled
  <2> QED
    BY <2>1, <2>2, NamesDiffer DEF UsesFreed, Asked
<1>4. \A r \in Requests : ~SkewTimer(r)
  <2> SUFFICES ASSUME NEW r \in Requests, SkewTimer(r) PROVE FALSE
    OBVIOUS
  <2>1. Skew(r) \in evdns.timers /\ ~Calm
    BY DEF SkewTimer, Fires, Calm
  <2> QED
    BY <2>1 DEF ClientInv, Idle, Quiet
<1> QED
  BY <1>1, <1>2, <1>3, <1>4 DEF vars, Next, Request, Returns, MakeRequest, FailsNow, CbReturn, Tell, Callbacks,
     ProbeEnds, QueryEnds, LookupTold, LookupDone, Resolver, ServerReplies, QueryTimer,
     ProdTimer, Network, Connected, ConnectFails, Response, NullRequest, Delete

\* remote_read_callback uses nothing of an object after the user's function has run, nor
\* does the resolver use a base that went with it, if the host is a number, or name
\* servers answer and the object is deleted in its own functions only.
THEOREM NoUseCorrect == Spec => []NoUseAfterFree
<1>1. Init => ClientInv /\ CalmInv /\ NoUseAfterFree
  BY InitClient, InitCalm DEF Init, NoUseAfterFree
<1>2. ClientInv /\ CalmInv /\ NoUseAfterFree /\ [Next]_vars => (ClientInv /\ CalmInv /\ NoUseAfterFree)'
  BY ClientStep, CalmStep, NoUseStep
<1> QED
  BY <1>1, <1>2, PTL DEF Spec
=============================================================================
