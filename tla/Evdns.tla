-------------------------------- MODULE Evdns -------------------------------
(***************************************************************************)
(* The resolver of libevent (evdns.c), as operators on one record: an      *)
(* evdns_base with its nameservers and queries, its armed timers, the      *)
(* deferred callbacks it has scheduled, and the lookups (evdns_getaddrinfo)*)
(* it works for.  HttpClient applies them.                                 *)
(*                                                                         *)
(* A lookup asks for A and AAAA at the same time and ends when both are    *)
(* answered, or when one is and the other stays out for too long.  A query *)
(* is sent again when its timer fires, to whatever server is picked then.  *)
(* A server that fails is out of the rotation until a probe, sent when its *)
(* own timer fires, is answered.                                           *)
(*                                                                         *)
(* Left out: the queue of queries that wait for one of 64 places, sockets  *)
(* that cannot take a packet at once, and errors of recvfrom.              *)
(***************************************************************************)
EXTENDS Integers, Sequences, FiniteSets, FiniteSetsExt, Functions

CONSTANTS
    NServers,             \* nameservers, in a ring
    MaxRetransmits,       \* global_max_retransmits
    MaxReissues,          \* global_max_reissues
    MaxNameserverTimeout  \* global_max_nameserver_timeout

ASSUME EvdnsAssumption ==
    /\ NServers \in Nat \ {0} /\ MaxRetransmits \in Nat \ {0}
    /\ MaxReissues \in Nat /\ MaxNameserverTimeout \in Nat

Servers == 1..NServers

\* Queries, and with Prod and Skew also the timers.
A        == <<"A", 0>>
AAAA     == <<"AAAA", 0>>
Probe(s) == <<"probe", s>>
Prod(s)  == <<"prod", s>>    \* ns->timeout_event
Skew(r)  == <<"skew", r>>    \* data->timeout
IsProbe(q) == q[1] = "probe"

\* Before the first base, and after one was freed.
NoBase ==
    [base     |-> 0,                              \* the request that made the base
     head     |-> 1,                              \* server_head
     up       |-> Servers,                        \* servers with state 1
     good     |-> NServers,                       \* global_good_nameservers
     timedout |-> [s \in Servers |-> 0],
     inflight |-> [s \in Servers |-> 0],          \* requests_inflight
     probing  |-> {},                             \* servers with a probe_request
     broken   |-> {},                             \* servers sendto fails for
     reqs     |-> << >>,                          \* req_heads: queries in flight
     timers   |-> {},                             \* armed
     fresh    |-> {},                             \* armed since a callback waits
     queue    |-> << >>,                          \* deferred callbacks
     lookups  |-> << >>]                          \* evdns_getaddrinfo_requests, by request

\* What outlives a base: callbacks, lookups and the timers of lookups.
Blank(e) ==
    LET skews == {t \in e.timers : t[1] = "skew"}
    IN  [NoBase EXCEPT !.timers = skews, !.fresh = e.fresh \cap skews,
                       !.queue = e.queue, !.lookups = e.lookups]

\* evdns_base_new
NewBase(e, r, broken) == [Blank(e) EXCEPT !.base = r, !.broken = broken]

\* f, and x |-> v
Put(f, x, v) == [y \in DOMAIN f \union {x} |-> IF y = x THEN v ELSE f[y]]

\* F is done to e.  (The value of e is bound: it is computed once.)
Then(e, F(_)) == CHOOSE d \in {F(x) : x \in {e}} : TRUE

-----------------------------------------------------------------------------
(* Timers and deferred callbacks *)

\* A timer that is armed while a callback waits does not fire before it.
Arm(e, t) ==
    [e EXCEPT !.timers = @ \union {t}, !.fresh = IF e.queue = << >> THEN @ ELSE @ \union {t}]

Disarm(e, t) == [e EXCEPT !.timers = @ \ {t}, !.fresh = @ \ {t}]

\* reply_schedule_callback
Schedule(e, q, res) == [e EXCEPT !.queue = Append(@, [base |-> e.base, q |-> q, res |-> res])]

\* The first callback is taken from the queue.
Dequeued(e) ==
    LET rest == Tail(e.queue)
    IN  [e EXCEPT !.queue = rest, !.fresh = IF rest = << >> THEN {} ELSE @]

-----------------------------------------------------------------------------
(* Choosing servers *)

\* nameserver_pick: the server, and the head it leaves.
Pick(e) ==
    LET at(i) == ((e.head - 1 + i) % NServers) + 1
        first == Min({i \in 0..NServers : i = NServers \/ at(i) \in e.up})
    IN  IF e.good = 0 THEN [ns |-> at(1), head |-> at(1)]
                      ELSE [ns |-> at(first), head |-> at(first + 1)]

\* Mutant: the count of the old server is not decremented.
SwapKeepsCount(e, q) ==
    LET to == Pick(e) IN
    [e EXCEPT !.head = to.head, !.reqs[q].ns = to.ns,
              !.inflight[to.ns] = IF to.ns = e.reqs[q].ns THEN @ ELSE @ + 1]

\* One query less for a server, and one more for a server.
Moved(count, from, to) == [[count EXCEPT ![from] = @ - 1] EXCEPT ![to] = @ + 1]

\* request_swap_ns to a server that is picked
Swap(e, q) ==
    LET to == Pick(e)
        from == e.reqs[q].ns
    IN  [e EXCEPT !.head = to.head, !.reqs[q].ns = to.ns,
                  !.inflight = Moved(@, from, to.ns)]

SwapAll(e, qs) == FoldSet(LAMBDA q, d : Swap(d, q), e, qs)

Unsent(e, s) == {q \in DOMAIN e.reqs : e.reqs[q].tx = 0 /\ e.reqs[q].ns = s}

\* nameserver_failed: queries that were not sent yet move to another server.
Failed(e, s) ==
    LET Move(d) == IF d.good = 0 THEN d ELSE SwapAll(d, Unsent(e, s))
    IN  IF s \in e.up
          THEN Then([Arm(e, Prod(s)) EXCEPT !.up = @ \ {s}, !.good = @ - 1], Move)
          ELSE e

\* request_finished
Finished(e, q) ==
    [Disarm(e, q) EXCEPT !.inflight[e.reqs[q].ns] = @ - 1,
                         !.reqs = Restrict(@, DOMAIN @ \ {q})]

\* A query ends: its callback is scheduled, and it is finished.
Ended(e, q, res) == Then(Schedule(e, q, res), LAMBDA d : Finished(d, q))

\* evdns_cancel_request: nothing, if the query is finished and its callback waits.
Cancel(e, q) == IF q \in DOMAIN e.reqs THEN Ended(e, q, "cancel") ELSE e

CancelAll(e, qs) == FoldSet(LAMBDA q, d : Cancel(d, q), e, qs)

\* nameserver_up
Up(e, s) ==
    LET Unprobe(d) == IF s \in d.probing THEN Cancel(d, Probe(s)) ELSE d
    IN  IF s \in e.up THEN e
        ELSE [Then(Disarm(e, Prod(s)), Unprobe) EXCEPT
                 !.probing = @ \ {s}, !.up = @ \union {s}, !.timedout[s] = 0, !.good = @ + 1]

-----------------------------------------------------------------------------
(* Queries *)

\* evdns_request_transmit, evdns_request_transmit_to: the timer is armed and the
\* try counted whether or not sendto failed.
Transmit(e, q) ==
    LET s == e.reqs[q].ns
        tried == IF s \in e.broken THEN Failed(e, s)
                                   ELSE [e EXCEPT !.reqs[q].sent = @ \union {s}]
    IN  Then(tried, LAMBDA d : [Arm(d, q) EXCEPT !.reqs[q].tx = @ + 1])

\* request_submit.  names: the names of the search list from this one on.
Submit(e, q, s, names) ==
    LET new == [ns |-> s, tx |-> 0, reissues |-> 0, names |-> names, sent |-> {}]
    IN  Then([e EXCEPT !.inflight[s] = @ + 1, !.reqs = Put(@, q, new)],
             LAMBDA d : Transmit(d, q))

\* search_request_new; request_new picks the server
Ask(e, q, names) ==
    LET to == Pick(e)
    IN  Then([e EXCEPT !.head = to.head], LAMBDA d : Submit(d, q, to.ns, names))

\* search_try_next
TryNext(e, q) ==
    LET to == Pick(e)
    IN  Then(Finished([e EXCEPT !.head = to.head], q),
             LAMBDA d : Submit(d, q, to.ns, e.reqs[q].names - 1))

\* A query fails: the next name is tried, or the failure passed on.
GiveUp(e, q, res) ==
    IF e.reqs[q].names > 1 THEN TryNext(e, q) ELSE Ended(e, q, res)

\* The server that has the query now is blamed.
Blamed(e, q) ==
    LET s == e.reqs[q].ns
        count == e.timedout[s] + 1
    IN  IF count > MaxNameserverTimeout THEN Failed([e EXCEPT !.timedout[s] = 0], s)
                                        ELSE [e EXCEPT !.timedout[s] = count]

\* evdns_request_timeout_callback
TimedOut(e, q) ==
    LET again == Then(Then(Disarm(e, q), LAMBDA d : Swap(d, q)), LAMBDA d : Transmit(d, q))
    IN  IF e.reqs[q].tx >= MaxRetransmits
          THEN Then(Ended(e, q, "error"), LAMBDA d : Failed(d, e.reqs[q].ns))
          ELSE Then(again, LAMBDA d : Blamed(d, q))

\* A good reply speaks for the server that has the query now.
Praised(e, q) ==
    LET s == e.reqs[q].ns
        heard == IF q = Probe(s) THEN [e EXCEPT !.probing = @ \ {s}] ELSE e
    IN  Then(heard, LAMBDA d : Up(d, s))

\* request_reissue.  The query is not sent: its old timer, which runs on, does that.
Reissued(e, q) ==
    Then(Swap(e, q),
         LAMBDA d : IF d.reqs[q].ns = e.reqs[q].ns THEN GiveUp(d, q, "error")
                    ELSE [d EXCEPT !.reqs[q].reissues = @ + 1, !.reqs[q].tx = 0])

\* A server that refuses has failed.
Refused(e, q) ==
    IF e.reqs[q].reissues >= MaxReissues THEN GiveUp(e, q, "error")
    ELSE Then(Failed(e, e.reqs[q].ns), LAMBDA d : Reissued(d, q))

\* reply_handle
Handle(e, q, kind) ==
    CASE kind = "ok" ->
            Then(Then(Schedule(e, q, "ok"), LAMBDA d : Praised(d, q)), LAMBDA d : Finished(d, q))
      [] kind = "notexist" -> Then(Praised(e, q), LAMBDA d : GiveUp(d, q, "notexist"))
      [] kind = "refused"  -> Refused(e, q)
      [] kind = "servfail" -> TimedOut(e, q)

\* nameserver_read: server s answers query q.  The answer may be late, and q another
\* server's by now; each copy of a query is answered once.
Reply(e, q, s, kind) ==
    Then([e EXCEPT !.timedout[s] = 0, !.reqs[q].sent = @ \ {s}], LAMBDA d : Handle(d, q, kind))

-----------------------------------------------------------------------------
(* Probes *)

\* nameserver_prod_callback, nameserver_send_probe: a server is picked, but not used.
SendProbe(e, s) ==
    Then([Disarm(e, Prod(s)) EXCEPT !.head = Pick(e).head, !.probing = @ \union {s}],
         LAMBDA d : Submit(d, Probe(s), s, 1))

\* nameserver_probe_callback, nameserver_probe_failed
ProbeCallback(e, s, res) ==
    LET done == [e EXCEPT !.probing = @ \ {s}] IN
    CASE res = "cancel"             -> e
      [] res \in {"ok", "notexist"} -> Up(done, s)
      [] res \in {"error", "shutdown"} ->
            IF s \in e.up THEN Disarm(done, Prod(s)) ELSE Arm(done, Prod(s))

-----------------------------------------------------------------------------
(* Lookups *)

\* evdns_getaddrinfo of a name that is neither numeric nor in the hosts file,
\* and of which the search list makes so many names
Launch(e, r, names) ==
    LET data == [out |-> {A, AAAA}, result |-> "none", cb |-> "set"]
    IN  [Then(Ask(e, A, names), LAMBDA d : Ask(d, AAAA, names)) EXCEPT
            !.lookups = Put(@, r, data)]

\* free_getaddrinfo_request
FreeLookup(e, r) == [Disarm(e, Skew(r)) EXCEPT !.lookups = Restrict(@, DOMAIN @ \ {r})]

\* evdns_getaddrinfo_gotresolve: query q of lookup r ended with res.  The user is told
\* the outcome, unless it is "none".
GotResolve(e, r, q, res) ==
    LET data == e.lookups[r]
        out == data.out \ {q}
        result == IF res = "ok" \/ data.result = "ok" THEN "ok" ELSE "error"
        waits == [e EXCEPT !.lookups[r].out = out]
        keeps == [waits EXCEPT !.lookups[r].result = IF res = "ok" THEN "ok" ELSE "error"]
        freed == FreeLookup(e, r)
        none(d) == [e |-> d, outcome |-> "none"]
    IN  CASE res = "cancel" -> none(IF out = {} THEN freed ELSE waits)
          [] res # "cancel" /\ data.cb = "null" -> none(freed)
          [] res # "cancel" /\ data.cb = "set" /\ out # {} ->
                none(IF res = "shutdown" THEN keeps ELSE Arm(keeps, Skew(r)))
          [] res # "cancel" /\ data.cb = "set" /\ out = {} -> [e |-> freed, outcome |-> result]

\* Mutant: user_cb is not reset.
GotSkewTwice(e, r) ==
    LET data == e.lookups[r] IN
    [e |-> CancelAll(Disarm(e, Skew(r)), data.out),
     outcome |-> data.result]

\* evdns_getaddrinfo_timeout_cb: the outcome of the query that did not take too long
GotSkew(e, r) ==
    LET data == e.lookups[r]
        done == [Disarm(e, Skew(r)) EXCEPT !.lookups[r].cb = "null"]
    IN  [e |-> CancelAll(done, data.out), outcome |-> data.result]

\* evdns_base_free with fail_requests: queries end in callbacks ...
FailAll(e, qs) == FoldSet(LAMBDA q, d : Ended(d, q, "shutdown"), e, qs)

\* ... and servers are freed.
FreeBase(e) == Then(FailAll(e, DOMAIN e.reqs), Blank)

\* A waiting callback uses a base that is gone: that of a probe uses the server, that
\* of a query locks the base.
UsesFreed(e, c) ==
    c.base # e.base /\ c.res # (IF IsProbe(c.q) THEN "cancel" ELSE "shutdown")
=============================================================================
