------------------------------ MODULE HttpClient ----------------------------
(***************************************************************************)
(* BaseHttpClient (src/src/http.cc): one object that makes one HTTP        *)
(* request at a time over libevent's evhttp.                               *)
(*                                                                         *)
(* evhttp reports the end of a request by calling remote_read_callback:    *)
(* with the request when the response is complete, or (response code 0)    *)
(* when the connect is refused or times out; with a null request when the  *)
(* connection breaks or times out later, or when the connect fails in any  *)
(* other way.  A connect can also fail inside evhttp_make_request, and     *)
(* then the callback runs inside Request.  User code runs in the virtual   *)
(* functions Respond, RespondError and ConnectFail and may call Request    *)
(* there, or delete the object.                                            *)
(*                                                                         *)
(* A host that is a name is looked up first (Evdns), with a resolver that  *)
(* belongs to the request and goes with it.                                *)
(***************************************************************************)
EXTENDS Evdns

CONSTANTS
    Programs,      \* records [requests, deletes, host, names, net], below
    MaxRequests    \* bound on the requests of a program

\* What name servers do wrong: stay silent, refuse, fail, cannot be sent to.
ServerFaults == {"silent", "refuses", "servfails", "unreachable"}

\* requests: how many it makes; deletes: where it deletes the object; host: a number (or a name of the
\* hosts file) or a name, of which the search list makes so many names; net: what the
\* network does, besides working.
ASSUME ProgramAssumption ==
    /\ MaxRequests \in Nat
    /\ \A p \in Programs :
        /\ p.deletes \in {"no", "inside", "anytime"} /\ p.host \in {"number", "name"}
        /\ p.names \in Nat \ {0} /\ p.requests \in 0..MaxRequests
        /\ p.net \subseteq {"failsNow", "breaks", "nameFails"} \union ServerFaults

VARIABLES
    prog,     \* the program and its network, fixed
    obj,      \* "alive", "freed"
    isReq,    \* m_is_req, "yes" or "no"
    con, dns, \* m_con, m_dnsbase: "null" or "set"
    evdns,    \* m_dnsbase, with what outlives it (Evdns)
    flight,   \* m_con: "none", "resolving", "connecting", "waiting", "lost"
    stack,    \* frames: "make" and "made" in Request, "cb" in a virtual function
    asked,    \* requests handed to evhttp_make_request
    told,     \* per request: how many virtual functions were called for it
    answered, \* per request: how many outcomes its lookup had
    bad       \* "yes" once a freed object was used

object == <<isReq, con, dns, flight>>
vars   == <<prog, obj, object, evdns, stack, asked, told, answered, bad>>

Requests == 1..MaxRequests

Init ==
    /\ prog \in Programs
    /\ obj = "alive" /\ isReq = "no" /\ con = "null" /\ dns = "null" /\ flight = "none"
    /\ evdns = NoBase
    /\ stack = <<>> /\ asked = 0 /\ bad = "no"
    /\ told = [r \in Requests |-> 0] /\ answered = [r \in Requests |-> 0]

Top == IF stack = <<>> THEN "loop" ELSE Head(stack)

UserCode == Top \in {"loop", "cb"}

\* Mutant: only the DNS base is freed.
FreeKeepsFlight(e) ==
    /\ con' = "null" /\ dns' = "null" /\ flight' = flight /\ isReq' = "no"
    /\ evdns' = FreeBase(e)

\* Free: the base goes, then the connection, and its request with it.
Free(e) ==
    /\ con' = "null" /\ dns' = "null" /\ flight' = "none" /\ isReq' = "no"
    /\ evdns' = FreeBase(e)

-----------------------------------------------------------------------------
(* Request *)

\* The request is handed over; evhttp_make_request is running.
Request ==
    /\ UserCode /\ obj = "alive" /\ asked < prog.requests
    /\ isReq = "no" /\ con = "null" /\ dns = "null"
    /\ con' = "set" /\ dns' = "set" /\ flight' = "connecting"
    /\ asked' = asked + 1
    /\ evdns' = NewBase(evdns, asked + 1, IF "unreachable" \in prog.net THEN {1} ELSE {})
    /\ stack' = <<"make">> \o stack
    /\ UNCHANGED <<prog, obj, isReq, told, answered, bad>>

\* Mutant: m_is_req is not set.
RequestReturnUnmarked(outcome) ==
    /\ flight' = outcome /\ isReq' = isReq
    /\ UNCHANGED <<con, dns>>

\* Request returns to its caller.
RequestReturn(outcome) ==
    /\ flight' = outcome /\ isReq' = "yes"
    /\ UNCHANGED <<con, dns>>

\* evhttp_make_request returns with the lookup or the connect under way, or after a
\* failure that it reported with a null request, which remote_read_callback ignores.
MakeRequest ==
    /\ Top = "make"
    /\ \/ /\ prog.host = "name"
          /\ RequestReturn("resolving") /\ evdns' = Launch(evdns, evdns.base, prog.names)
       \/ /\ prog.host = "number"
          /\ \/ RequestReturn("connecting")
             \/ {"failsNow", "breaks"} \subseteq prog.net /\ RequestReturn("lost")
          /\ UNCHANGED evdns
    /\ stack' = Tail(stack)
    /\ UNCHANGED <<prog, obj, asked, told, answered, bad>>

\* Mutant: the object is told first and freed afterwards.
TellThenFree(e, frames) ==
    /\ evdns' = e
    /\ told' = [told EXCEPT ![asked] = @ + 1]
    /\ stack' = <<"cb", "made">> \o frames
    /\ UNCHANGED <<prog, obj, object, asked, bad>>

\* remote_read_callback with a request: the object is freed, then told.  Nothing
\* uses it afterwards.
Tell(e, frames) ==
    /\ Free(e)
    /\ told' = [told EXCEPT ![asked] = @ + 1]
    /\ stack' = <<"cb">> \o frames
    /\ UNCHANGED <<prog, obj, asked, bad>>

\* The connect fails inside evhttp_make_request (as it does for port 0) and
\* ConnectFail runs inside Request ...
FailsNow ==
    /\ Top = "make" /\ prog.host = "number" /\ "failsNow" \in prog.net
    /\ Tell(evdns, <<"made">> \o Tail(stack))
    /\ UNCHANGED answered

\* ... which then marks the object as waiting, whatever it has become.
MadeReturn ==
    /\ Top = "made"
    /\ bad' = IF obj = "freed" THEN "yes" ELSE bad
    /\ RequestReturn(flight)
    /\ stack' = Tail(stack)
    /\ UNCHANGED <<prog, obj, evdns, asked, told, answered>>

-----------------------------------------------------------------------------
(* The lookup.  All of this runs in the loop. *)

\* bufferevent_connect_getaddrinfo_cb: the connection learns the outcome.  A connect can
\* fail at once here, too; a failed lookup is reported with a null request, or as a
\* refused connect if errno still says so.
LookupDone(e, outcome) ==
    \/ /\ outcome = "ok" /\ flight' = "connecting" /\ evdns' = e
       /\ UNCHANGED <<prog, obj, isReq, con, dns, stack, asked, told, bad>>
    \/ /\ outcome = "error" \/ {"failsNow", "breaks"} \subseteq prog.net
       /\ flight' = "lost" /\ evdns' = e
       /\ UNCHANGED <<prog, obj, isReq, con, dns, stack, asked, told, bad>>
    \/ /\ outcome = "error" \/ "failsNow" \in prog.net
       /\ Tell(e, stack)

\* Lookup r of evdns had an outcome, or "none".  The bufferevent of a connection that was
\* freed has no callbacks.
LookupTold(r, done) ==
    /\ answered' = [answered EXCEPT ![r] = @ + (IF done.outcome = "none" THEN 0 ELSE 1)]
    /\ \/ /\ done.outcome # "none" /\ r = evdns.base
          /\ LookupDone(done.e, done.outcome)
       \/ /\ done.outcome = "none" \/ r # evdns.base
          /\ evdns' = done.e
          /\ UNCHANGED <<prog, obj, object, stack, asked, told, bad>>

\* Of the names of a search list only the last need exist, and AAAA records need not.
Kinds(q) ==
    {"ok"}
    \union (IF q = AAAA \/ (q = A /\ ("nameFails" \in prog.net \/ evdns.reqs[q].names > 1))
            THEN {"notexist"} ELSE {})
    \union (IF "refuses" \in prog.net THEN {"refused"} ELSE {})
    \union (IF "servfails" \in prog.net THEN {"servfail"} ELSE {})

ServerReplies(q) ==
    /\ Top = "loop" /\ q \in DOMAIN evdns.reqs
    /\ \E s \in evdns.reqs[q].sent, kind \in Kinds(q) : evdns' = Reply(evdns, q, s, kind)
    /\ UNCHANGED <<prog, obj, object, stack, asked, told, answered, bad>>

\* A timer of the resolver can fire before the answers come only if servers fail.
Fires(t) ==
    /\ Top = "loop" /\ prog.net \cap ServerFaults # {}
    /\ t \in evdns.timers \ evdns.fresh

\* Only silent servers do not answer what was sent to them.
QueryTimer(q) ==
    /\ Fires(q)
    /\ "silent" \in prog.net \/ evdns.reqs[q].tx = 0 \/ evdns.reqs[q].sent = {}
    /\ evdns' = TimedOut(evdns, q)
    /\ UNCHANGED <<prog, obj, object, stack, asked, told, answered, bad>>

ProdTimer(s) ==
    /\ Fires(Prod(s))
    /\ evdns' = SendProbe(evdns, s)
    /\ UNCHANGED <<prog, obj, object, stack, asked, told, answered, bad>>

SkewTimer(r) ==
    /\ Fires(Skew(r))
    /\ LET stale == r # evdns.base /\ evdns.lookups[r].out # {} IN
       \/ /\ stale
          /\ bad' = "yes"
          /\ UNCHANGED <<prog, obj, object, evdns, stack, asked, told, answered>>
       \/ ~stale /\ LookupTold(r, GotSkew(evdns, r))

Deferred == Top = "loop" /\ evdns.queue # << >>

\* reply_run_callback, for a probe ...
ProbeEnds ==
    /\ Deferred
    /\ LET c == Head(evdns.queue)
           e == Dequeued(evdns)
       IN  /\ IsProbe(c.q) /\ ~UsesFreed(evdns, c)
           /\ evdns' = IF c.base = e.base THEN ProbeCallback(e, c.q[2], c.res) ELSE e
    /\ UNCHANGED <<prog, obj, object, stack, asked, told, answered, bad>>

\* ... for a query of a lookup ...
QueryEnds ==
    /\ Deferred
    /\ LET c == Head(evdns.queue) IN
       /\ ~IsProbe(c.q) /\ ~UsesFreed(evdns, c)
       /\ LookupTold(c.base, GotResolve(Dequeued(evdns), c.base, c.q, c.res))

\* ... and with a base that is gone.
StaleCallback ==
    /\ Deferred /\ UsesFreed(evdns, Head(evdns.queue))
    /\ bad' = "yes"
    /\ UNCHANGED <<prog, obj, object, evdns, stack, asked, told, answered>>

-----------------------------------------------------------------------------
(* What evhttp reports from the loop *)

\* The loop runs the callbacks that wait before it sees to the connection.
ConnectionEvent ==
    Top = "loop" /\ \A i \in 1..Len(evdns.queue) : evdns.queue[i].base # evdns.base
                                                   \/ IsProbe(evdns.queue[i].q)

Connected ==
    /\ ConnectionEvent /\ flight = "connecting"
    /\ flight' = "waiting"
    /\ UNCHANGED <<prog, obj, isReq, con, dns, evdns, stack, asked, told, answered, bad>>

\* Mutant: the object is freed and nobody told.
ConnectFailsUntold ==
    /\ ConnectionEvent /\ flight = "connecting"
    /\ Free(evdns)
    /\ UNCHANGED <<prog, obj, stack, asked, told, answered, bad>>

\* Refused or timed out: response code 0, ConnectFail.
ConnectFails ==
    ConnectionEvent /\ flight = "connecting" /\ Tell(evdns, stack) /\ UNCHANGED answered

\* Respond, or RespondError for the codes 4xx and 5xx.
Response ==
    ConnectionEvent /\ flight = "waiting" /\ Tell(evdns, stack) /\ UNCHANGED answered

\* A null request: LB_COND_V(req) returns.
NullRequest ==
    /\ ConnectionEvent /\ flight \in {"connecting", "waiting"} /\ "breaks" \in prog.net
    /\ flight' = "lost"
    /\ UNCHANGED <<prog, obj, isReq, con, dns, evdns, stack, asked, told, answered, bad>>

-----------------------------------------------------------------------------
(* User code *)

CbReturn ==
    /\ Top = "cb"
    /\ stack' = Tail(stack)
    /\ UNCHANGED <<prog, obj, object, evdns, asked, told, answered, bad>>

\* ~BaseHttpClient
Delete ==
    /\ obj = "alive"
    /\ (prog.deletes = "anytime" /\ UserCode) \/ (prog.deletes = "inside" /\ Top = "cb")
    /\ obj' = "freed"
    /\ Free(evdns)
    /\ UNCHANGED <<prog, stack, asked, told, answered, bad>>

Network == Connected \/ ConnectFails \/ Response \/ NullRequest
Returns == MakeRequest \/ FailsNow \/ MadeReturn \/ CbReturn
Callbacks == ProbeEnds \/ QueryEnds \/ StaleCallback
Queries == {A, AAAA} \union {Probe(s) : s \in Servers}
Resolver ==
    \/ \E q \in Queries : ServerReplies(q) \/ QueryTimer(q)
    \/ \E s \in Servers : ProdTimer(s)
    \/ \E r \in Requests : SkewTimer(r)

\* Nothing is known of a program that has used freed memory.
Next == bad = "no" /\ (Request \/ Returns \/ Callbacks \/ Resolver \/ Network \/ Delete)

Spec == Init /\ [][Next]_vars

\* Calls return and callbacks run.  evhttp ends each connect and each wait: it arms a
\* timeout for both, whatever ot_sec is (and no peer keeps a response open forever).
\* Servers answer, and timers fire: in turn, while others fire again and again.
FairSpec ==
    /\ Spec
    /\ WF_vars(bad = "no" /\ Returns) /\ WF_vars(bad = "no" /\ Network)
    /\ WF_vars(bad = "no" /\ Callbacks)
    /\ \A q \in {A, AAAA} :
        SF_vars(bad = "no" /\ ServerReplies(q)) /\ SF_vars(bad = "no" /\ QueryTimer(q))

-----------------------------------------------------------------------------
(* Properties *)

TypeOK ==
    /\ prog \in Programs
    /\ obj \in {"alive", "freed"} /\ isReq \in {"yes", "no"}
    /\ con \in {"null", "set"} /\ dns = con
    /\ flight \in {"none", "resolving", "connecting", "waiting", "lost"}
    /\ dns = "set" <=> evdns.base # 0
    /\ evdns.up \subseteq Servers /\ evdns.head \in Servers
    /\ DOMAIN evdns.reqs \subseteq Queries /\ DOMAIN evdns.lookups \subseteq Requests
    /\ stack \in Seq({"make", "made", "cb"})
    /\ asked \in 0..MaxRequests /\ told \in [Requests -> 0..MaxRequests]
    /\ bad \in {"yes", "no"}

\* A request ends in at most one call of a virtual function, and a function is
\* called only for a request that was made, also when requests are made inside
\* those functions or inside a Request that fails at once; and its lookup has at most
\* one outcome, whether its queries are answered, cancelled, too late or cut short.
ToldOnce ==
    \A r \in Requests :
        LET most == IF r <= asked THEN 1 ELSE 0 IN told[r] <= most /\ answered[r] <= most

\* While evhttp works on a request the object knows it: IsReq is true and Request
\* refuses a second one.  With a network in which nothing fails but connects that are
\* refused later, IsReq is true at no other time.
IsReqIsTrue ==
    TypeOK /\ (UserCode /\ obj = "alive" =>
        /\ flight \in {"resolving", "connecting", "waiting"} => isReq = "yes" /\ con = "set"
        /\ isReq = "yes" /\ prog.net = {} => flight \in {"resolving", "connecting", "waiting"})

\* Every virtual function may delete the object: nothing in remote_read_callback
\* uses it afterwards.  (Request does, after a connect that failed at once.)  The base
\* that goes with it is not used either, if the host is a number; or if name servers
\* answer, and the object is deleted in its functions only.
NoUseAfterFree ==
    "failsNow" \notin prog.net
        /\ (prog.host = "number" \/ (prog.net \cap ServerFaults = {} /\ prog.deletes # "anytime"))
    => bad = "no"

\* A name server that is down is on its way back: its timer is armed, its probe in
\* flight, or the end of its probe waits to be seen.  The counts that evdns asserts
\* on agree with its lists, no query waits without a timer, and no timer fires for a
\* query that is gone.
ServersWatched ==
    evdns.base # 0 =>
        /\ evdns.good = Cardinality(evdns.up)
        /\ \A s \in Servers :
            evdns.inflight[s] = Cardinality({q \in DOMAIN evdns.reqs : evdns.reqs[q].ns = s})
        /\ \A q \in Queries : q \in evdns.timers <=> q \in DOMAIN evdns.reqs
        /\ \A s \in Servers \ evdns.up :
            \/ Prod(s) \in evdns.timers
            \/ Probe(s) \in DOMAIN evdns.reqs
            \/ \E i \in 1..Len(evdns.queue) :
                LET c == evdns.queue[i]
                IN  c.base = evdns.base /\ c.q = Probe(s) /\ c.res # "cancel"

\* Every request that was made ends in a call, unless the object is destroyed,
\* provided that connections do not break once they stand and that name servers
\* know the name and answer; and every lookup ends, whatever name servers do: there
\* comes a time when no lookup and no such request is open.
Told ==
    LET allTold == \A r \in 1..asked : told[r] = 1
    IN  []<>(\/ bad = "yes"
             \/ /\ flight # "resolving"
                /\ prog.net \subseteq {"failsNow"} /\ obj = "alive" => allTold)

\* ConnectFail is called when no response comes in time or the connection fails
\* (src/include/http.h:103): so each request ends in a call, for every network.
TimeoutTold == \A r \in Requests : asked >= r ~> (told[r] = 1 \/ obj = "freed")
=============================================================================
