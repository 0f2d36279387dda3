------------------------------- MODULE EventBase -----------------------------
(***************************************************************************)
(* The event base behind EventMgr (src/src/lev_mgr.cc): libevent's event.c *)
(* with the event kinds this library uses.  One thread, one queue of       *)
(* active events (event_base_new makes one priority).                      *)
(*                                                                         *)
(* The heap of timeouts is the set of events with the flag TIMEOUT, the    *)
(* maps of descriptors and signals the set of those with INSERTED; time is *)
(* relative, the clock advances by what Tick takes from every timeout.     *)
(***************************************************************************)
EXTENDS Integers, Sequences, FiniteSets, SequencesExt

CONSTANTS
    Timers,        \* events of Timer objects
    Loops,         \* those among them that are made with EV_PERSIST
    Bevs,          \* bufferevents: records [read, write] of persistent I/O events
    Sigs,          \* events of RegSignal
    Deferreds,     \* deferred callbacks
    Exits,         \* events StopDispatch makes
    Pipe,          \* base->sig.ev_signal: the internal event of the signal pipe
    SigNo,         \* the signal each of Sigs is for
    Tv,            \* the timeout each event is added with, Forever for none
    Uses,          \* the sets of events that the programs use
    MaxDeferreds,  \* MAX_DEFERREDS_QUEUED
    MaxCaught      \* bound: signals in the pipe

Forever == -1
Ios == {v.read : v \in Bevs} \cup {v.write : v \in Bevs}
Ev  == Timers \cup Ios \cup Sigs \cup Deferreds \cup Exits \cup {Pipe}
Nobody == "nobody"
Signals == {SigNo[e] : e \in Sigs}

\* Each event is of one kind, and of one bufferevent.
ASSUME KindsAssumption ==
    /\ IsFiniteSet(Ev) /\ Nobody \notin Ev
    /\ Timers \cap Ios = {} /\ Sigs \cap (Timers \cup Ios) = {}
    /\ Deferreds \cap (Timers \cup Ios \cup Sigs) = {}
    /\ Exits \cap (Timers \cup Ios \cup Sigs \cup Deferreds) = {}
    /\ Pipe \notin Timers \cup Ios \cup Sigs \cup Deferreds \cup Exits
ASSUME BevsAssumption ==
    /\ \A v \in Bevs : v.read # v.write
    /\ \A v, w \in Bevs : v # w => {v.read, v.write} \cap {w.read, w.write} = {}
ASSUME LoopsAssumption == Loops \subseteq Timers
ASSUME TvAssumption    == /\ Tv \in [Timers \cup Ios -> Nat \cup {Forever}]
                          /\ \A t \in Timers : Tv[t] # Forever
ASSUME BoundAssumption == MaxDeferreds \in Nat /\ MaxCaught \in Nat

VARIABLES
    uses,     \* the events this program uses
    base,     \* struct event_base, with the state of its events (see Init)
    phase,    \* event_base_loop: "out", "top", "process"; "freed" after event_base_free
    running,  \* the event whose callback runs user code, or Nobody
    turns,    \* calls a signal's callback has still to get in event_signal_closure
    ready,    \* I/O events whose condition holds
    pipe,     \* bytes in the signal pipe, per signal
    owed,     \* signals caught for an event that its callback was not called for
    bev       \* each bufferevent: "alive", "freeing" inside its own callback, "finalizing", "gone"

vars == <<uses, base, phase, running, turns, ready, pipe, owed, bev>>

Init ==
    /\ uses \in Uses
    /\ base = [flags  |-> [e \in Ev |-> {}],       \* evcb_flags
               res    |-> [e \in Ev |-> {}],       \* ev_res
               due    |-> [e \in Ev |-> 0],        \* ev_timeout, less the time
               again  |-> [e \in Ev |-> 0],        \* ev_io_timeout, 0 if unset
               ncalls |-> [e \in Ev |-> 0],
               active |-> <<>>, later |-> <<>>,    \* activequeues, active_later_queue
               count  |-> 0, nactive |-> 0,        \* event_count, event_count_active
               deferreds |-> 0,                    \* n_deferreds_queued
               term   |-> FALSE]                   \* event_gotterm
    /\ phase = "out" /\ running = Nobody /\ turns = 0 /\ ready = {}
    /\ pipe = [n \in Signals |-> 0] /\ owed = [s \in Sigs |-> 0]
    /\ bev = [v \in Bevs |-> "alive"]

-----------------------------------------------------------------------------
(* The queues.  Internal events are not counted. *)

One(e) == IF e = Pipe THEN 0 ELSE 1

InsertActive(b, e) ==
    IF "ACTIVE" \in b.flags[e] THEN b
    ELSE [b EXCEPT !.flags[e] = @ \cup {"ACTIVE"}, !.active = Append(@, e),
                   !.count = @ + One(e), !.nactive = @ + 1]

RemoveActive(b, e) ==
    [b EXCEPT !.flags[e] = @ \ {"ACTIVE"}, !.active = RemoveFirst(@, e),
              !.count = @ - One(e), !.nactive = @ - 1]

InsertLater(b, e) ==
    IF b.flags[e] \cap {"ACTIVE", "ACTIVE_LATER"} # {} THEN b
    ELSE [b EXCEPT !.flags[e] = @ \cup {"ACTIVE_LATER"}, !.later = Append(@, e),
                   !.count = @ + One(e), !.nactive = @ + 1]

RemoveLater(b, e) ==
    [b EXCEPT !.flags[e] = @ \ {"ACTIVE_LATER"}, !.later = RemoveFirst(@, e),
              !.count = @ - One(e), !.nactive = @ - 1]

\* The heap and the maps: flag and count.
SetFlag(b, e, flag) == [b EXCEPT !.flags[e] = @ \cup {flag}, !.count = @ + One(e)]
ClearFlag(b, e, flag) == [b EXCEPT !.flags[e] = @ \ {flag}, !.count = @ - One(e)]

Finalizing(b, e) == "FINALIZING" \in b.flags[e]
Persistent(e)    == e \notin (Timers \ Loops) \cup Exits
InMap(e)         == e \in Ios \cup Sigs \cup {Pipe}

-----------------------------------------------------------------------------
(* event_add, event_del, event_active, deferred callbacks *)

\* An event that is active is not put into its map again.
AddInserted(b, e) ==
    IF InMap(e) /\ b.flags[e] \cap {"INSERTED", "ACTIVE", "ACTIVE_LATER"} = {}
    THEN SetFlag(b, e, "INSERTED")
    ELSE b

\* An event that is active because its timeout elapsed leaves the queue if it
\* gets a new timeout.
TakeBack(b, e) ==
    IF "ACTIVE" \in b.flags[e] /\ "TIMEOUT" \in b.res[e] THEN RemoveActive(b, e) ELSE b

AddTimeout(b, e, tv) ==
    LET out == IF "TIMEOUT" \in b.flags[e] THEN ClearFlag(b, e, "TIMEOUT") ELSE b
    IN  [SetFlag(TakeBack(out, e), e, "TIMEOUT") EXCEPT !.due[e] = tv]

\* event_add; a persistent event remembers its timeout.
Add(b, e, tv) ==
    LET b1 == AddInserted(b, e)
    IN  IF Finalizing(b, e) THEN b
        ELSE IF tv = Forever THEN b1
        ELSE [AddTimeout(b1, e, tv) EXCEPT !.again[e] = IF Persistent(e) THEN tv ELSE @]

\* Mutant: an event of the other queue is taken for one of the first.
UnqueueActive(b, e) ==
    IF b.flags[e] \cap {"ACTIVE", "ACTIVE_LATER"} # {} THEN RemoveActive(b, e) ELSE b

Unqueue(b, e) ==
    IF "ACTIVE" \in b.flags[e] THEN RemoveActive(b, e)
    ELSE IF "ACTIVE_LATER" \in b.flags[e] THEN RemoveLater(b, e)
    ELSE b

\* event_del
Del(b, e) ==
    LET b1 == IF "TIMEOUT" \in b.flags[e] THEN ClearFlag(b, e, "TIMEOUT") ELSE b
        b2 == Unqueue(b1, e)
    IN  IF Finalizing(b, e) THEN b
        ELSE IF "INSERTED" \in b.flags[e] THEN ClearFlag(b2, e, "INSERTED")
        ELSE b2

\* event_callback_activate_nolock_
CallbackActivate(b, e) ==
    IF Finalizing(b, e) THEN b
    ELSE InsertActive(IF "ACTIVE_LATER" \in b.flags[e] THEN RemoveLater(b, e) ELSE b, e)

\* Mutant: what an earlier activation said is kept.
ResultOr(b, e, what) == b.res[e] \cup {what}

Result(b, e, what) ==
    IF b.flags[e] \cap {"ACTIVE", "ACTIVE_LATER"} # {} THEN b.res[e] \cup {what} ELSE {what}

\* event_active_nolock_: an event that is active already keeps its place, and a
\* signal its number of calls.
Activate(b, e, what, n) ==
    IF Finalizing(b, e) THEN b
    ELSE LET b1 == [b EXCEPT !.res[e] = Result(b, e, what)]
         IN  IF "ACTIVE" \in b.flags[e] THEN b1
             ELSE CallbackActivate([b1 EXCEPT !.ncalls[e] = IF e \in Sigs THEN n ELSE @], e)

\* Mutant: deferred callbacks always go into the queue that is being run.
ScheduleNow(b, d) == InsertActive(b, d)

\* event_deferred_cb_schedule_: after MaxDeferreds of them the next wait for the
\* next turn of the loop.
Schedule(b, d) ==
    IF b.deferreds > MaxDeferreds THEN InsertLater(b, d)
    ELSE IF b.flags[d] \cap {"ACTIVE", "ACTIVE_LATER"} # {} THEN CallbackActivate(b, d)
    ELSE [InsertActive(b, d) EXCEPT !.deferreds = @ + 1]

\* event_queue_make_later_events_active
MakeLaterActive(b) ==
    [b EXCEPT !.flags = [e \in Ev |-> IF "ACTIVE_LATER" \in b.flags[e]
                                      THEN (b.flags[e] \ {"ACTIVE_LATER"}) \cup {"ACTIVE"}
                                      ELSE b.flags[e]],
              !.active = @ \o b.later, !.later = <<>>,
              !.deferreds = @ + Cardinality({i \in DOMAIN b.later : b.later[i] \in Deferreds})]

\* event_callback_finalize_nolock_
Finalize(b, e) ==
    [CallbackActivate(Del(b, e), e) EXCEPT !.flags[e] = @ \cup {"FINALIZING"}]

\* Mutant: the events that are not current stay where they are.
FinalizeOne(b, v, current) == Finalize(b, IF current = v.write THEN v.write ELSE v.read)

\* event_callback_finalize_many_: the finalizer runs in place of the event whose
\* callback is running, or of the first one; the others are cancelled.
FinalizeMany(b, v, current) ==
    LET at == IF current = v.write THEN v.write ELSE v.read
    IN  Finalize(Del(b, IF at = v.read THEN v.write ELSE v.read), at)

-----------------------------------------------------------------------------
(* The program: outside the loop, or in a callback. *)

Alive(e)  == \E v \in Bevs : e \in {v.read, v.write} /\ bev[v] = "alive"
Usable(e) == e \in uses /\ (e \in Timers \/ Alive(e))
UserCode == phase = "out" \/ running # Nobody

UserAdd(e) ==
    /\ UserCode /\ Usable(e)
    /\ base' = Add(base, e, Tv[e])
    /\ UNCHANGED <<uses, phase, running, turns, ready, pipe, owed, bev>>

UserDel(e) ==
    /\ UserCode /\ Usable(e)
    /\ base' = Del(base, e)
    /\ UNCHANGED <<uses, phase, running, turns, ready, pipe, owed, bev>>

\* EventMgr::RegSignal; the event is never deleted.  The first signal also adds
\* the event of the pipe (evsig_add).
RegSignal(s) ==
    /\ UserCode /\ s \in uses /\ base.flags[s] = {}
    /\ base' = Add(Add(base, Pipe, Forever), s, Forever)
    /\ owed' = [owed EXCEPT ![s] = pipe[SigNo[s]]]
    /\ UNCHANGED <<uses, phase, running, turns, ready, pipe, bev>>

UserSchedule(d) ==
    /\ UserCode /\ d \in uses
    /\ base' = Schedule(base, d)
    /\ UNCHANGED <<uses, phase, running, turns, ready, pipe, owed, bev>>

\* event_deferred_cb_cancel_
UserCancel(d) ==
    /\ UserCode /\ d \in uses
    /\ base' = Unqueue(base, d)
    /\ UNCHANGED <<uses, phase, running, turns, ready, pipe, owed, bev>>

\* EventMgr::StopDispatch: event_base_once without a delay
StopDispatch(x) ==
    /\ UserCode /\ x \in uses /\ base.flags[x] = {}
    /\ base' = Activate(base, x, "TIMEOUT", 1)
    /\ UNCHANGED <<uses, phase, running, turns, ready, pipe, owed, bev>>

\* bufferevent_free.  In a callback of the bufferevent the last reference goes
\* only when that returns.
BevFree(v) ==
    /\ UserCode /\ v.read \in uses /\ bev[v] = "alive"
    /\ IF running \in {v.read, v.write}
       THEN bev' = [bev EXCEPT ![v] = "freeing"] /\ UNCHANGED base
       ELSE bev' = [bev EXCEPT ![v] = "finalizing"] /\ base' = FinalizeMany(base, v, running)
    /\ UNCHANGED <<uses, phase, running, turns, ready, pipe, owed>>

\* The callback returns: to event_signal_closure, to bufferevent_readcb and
\* bufferevent_writecb, or to the loop.
CbReturn ==
    /\ running # Nobody
    /\ IF turns > 1
       THEN turns' = turns - 1 /\ owed' = [owed EXCEPT ![running] = @ - 1] /\ UNCHANGED running
       ELSE turns' = 0 /\ running' = Nobody /\ UNCHANGED owed
    /\ LET done == {v \in Bevs : running \in {v.read, v.write} /\ bev[v] = "freeing"}
       IN  /\ bev' = [v \in Bevs |-> IF v \in done THEN "finalizing" ELSE bev[v]]
           /\ base' = IF done = {} THEN base
                      ELSE FinalizeMany(base, CHOOSE v \in done : TRUE, running)
    /\ UNCHANGED <<uses, phase, ready, pipe>>

-----------------------------------------------------------------------------
(* event_base_loop *)

\* EventMgr::Dispatch
Dispatch ==
    /\ phase = "out"
    /\ phase' = "top" /\ base' = [base EXCEPT !.term = FALSE]
    /\ UNCHANGED <<uses, running, turns, ready, pipe, owed, bev>>

\* Mutant: only an empty base ends the loop.
DispatchReturnEmpty ==
    /\ phase = "top" /\ base.count = 0 /\ base.nactive = 0
    /\ phase' = "out"
    /\ UNCHANGED <<uses, base, running, turns, ready, pipe, owed, bev>>

DispatchReturn ==
    /\ phase = "top"
    /\ base.term \/ (base.count = 0 /\ base.nactive = 0)
    /\ phase' = "out"
    /\ UNCHANGED <<uses, base, running, turns, ready, pipe, owed, bev>>

Due(b)      == {e \in Ev : "TIMEOUT" \in b.flags[e] /\ b.due[e] <= 0}
PipeReady   == \E n \in Signals : pipe[n] > 0
Happened(b) == {e \in Ios \cup {Pipe} : /\ "INSERTED" \in b.flags[e]
                                        /\ IF e = Pipe THEN PipeReady ELSE e \in ready}

\* The backend reports what happened, in any order.
Reported(b, order) == FoldLeft(LAMBDA x, e : Activate(x, e, "IO", 1), b, order)

\* timeout_process: the events that are due, in the order of their time.
TimeoutProcess(b, order) ==
    FoldLeft(LAMBDA x, e : Activate(Del(x, e), e, "TIMEOUT", 1), b, order)

\* One turn: wait until something happens or is due, then collect it.
Turn ==
    /\ phase = "top" /\ ~base.term
    /\ LET b == MakeLaterActive([base EXCEPT !.deferreds = 0])
       IN  /\ base.nactive > 0 \/ Happened(b) # {} \/ Due(b) # {}
           /\ \E io \in SetToSeqs(Happened(b)), tm \in SetToSeqs(Due(b)) :
                /\ \A i, j \in DOMAIN tm : i < j => b.due[tm[i]] <= b.due[tm[j]]
                /\ base' = TimeoutProcess(Reported(b, io), tm)
    /\ phase' = "process"
    /\ UNCHANGED <<uses, running, turns, ready, pipe, owed, bev>>

\* Mutant: the event gets its next timeout and nothing else.
PersistTimeout(b, e) == IF b.again[e] = 0 THEN b ELSE AddTimeout(b, e, b.again[e])

\* event_persist_closure: the next timeout counts from the last one, unless that
\* is over already or the event ran for another reason.
Persist(b, e) ==
    LET next == b.again[e] + IF "TIMEOUT" \in b.res[e] THEN b.due[e] ELSE 0
    IN  IF b.again[e] = 0 THEN b
        ELSE AddTimeout(AddInserted(b, e), e, IF next < 0 THEN b.again[e] ELSE next)

\* The event at the head leaves the queue, one that is not persistent altogether.
TakeHead(b, e) == IF Persistent(e) \/ Finalizing(b, e) THEN RemoveActive(b, e) ELSE Del(b, e)

\* event_process_active_single_queue
Processing(e) == phase = "process" /\ running = Nobody /\ base.active # <<>> /\ Head(base.active) = e

RunEvent(e) ==
    /\ e \in Timers \cup Ios /\ Processing(e) /\ ~Finalizing(base, e)
    /\ base' = LET b == TakeHead(base, e) IN IF Persistent(e) THEN Persist(b, e) ELSE b
    /\ running' = e
    /\ ready' = ready \ {e}
    /\ UNCHANGED <<uses, phase, turns, pipe, owed, bev>>

\* bufferevent_finalize_cb_ frees the bufferevent.
RunFinalizer(v) ==
    /\ \E e \in {v.read, v.write} :
         Processing(e) /\ Finalizing(base, e) /\ base' = TakeHead(base, e)
    /\ bev' = [bev EXCEPT ![v] = "gone"]
    /\ UNCHANGED <<uses, phase, running, turns, ready, pipe, owed>>

\* event_signal_closure
RunSignal(s) ==
    /\ Processing(s)
    /\ base' = TakeHead(base, s)
    /\ running' = s /\ turns' = base.ncalls[s]
    /\ owed' = [owed EXCEPT ![s] = @ - 1]
    /\ UNCHANGED <<uses, phase, ready, pipe, bev>>

\* Mutant: a signal that came several times is called for once.
RunPipeOnce ==
    /\ Processing(Pipe)
    /\ base' = FoldSet(LAMBDA s, b : Activate(b, s, "SIGNAL", 1), TakeHead(base, Pipe),
                       {s \in Sigs : "INSERTED" \in base.flags[s] /\ pipe[SigNo[s]] > 0})
    /\ pipe' = [n \in Signals |-> 0]
    /\ UNCHANGED <<uses, phase, running, turns, ready, owed, bev>>

\* evsig_cb empties the pipe, evmap_signal_active_
RunPipe ==
    /\ Processing(Pipe)
    /\ base' = FoldSet(LAMBDA s, b : Activate(b, s, "SIGNAL", pipe[SigNo[s]]), TakeHead(base, Pipe),
                       {s \in Sigs : "INSERTED" \in base.flags[s] /\ pipe[SigNo[s]] > 0})
    /\ pipe' = [n \in Signals |-> 0]
    /\ UNCHANGED <<uses, phase, running, turns, ready, owed, bev>>

RunDeferred(d) ==
    /\ Processing(d)
    /\ base' = RemoveActive(base, d)
    /\ running' = d
    /\ UNCHANGED <<uses, phase, turns, ready, pipe, owed, bev>>

\* event_loopexit_cb
RunExit(x) ==
    /\ Processing(x)
    /\ base' = [TakeHead(base, x) EXCEPT !.term = TRUE]
    /\ UNCHANGED <<uses, phase, running, turns, ready, pipe, owed, bev>>

TurnEnds ==
    /\ phase = "process" /\ running = Nobody /\ base.active = <<>>
    /\ phase' = "top"
    /\ UNCHANGED <<uses, base, running, turns, ready, pipe, owed, bev>>

-----------------------------------------------------------------------------
(* event_base_free *)

FreeFinalizers == bev' = [v \in Bevs |-> IF bev[v] = "finalizing" THEN "gone" ELSE bev[v]]

\* EventMgr::FreeEventBase: every event is deleted, finalizers that wait run.
FreeEventBase ==
    /\ phase = "out"
    /\ LET added == {e \in Ev : base.flags[e] \cap {"INSERTED", "TIMEOUT"} # {}}
           b     == FoldSet(LAMBDA e, x : Del(x, e), base, added)
       IN  base' = FoldLeft(LAMBDA x, e : Unqueue(x, e), b, b.active \o b.later)
    /\ FreeFinalizers
    /\ phase' = "freed"
    /\ UNCHANGED <<uses, running, turns, ready, pipe, owed>>

-----------------------------------------------------------------------------
(* The world *)

Happens(e) ==
    /\ phase # "freed" /\ e \in uses \ ready
    /\ ready' = ready \cup {e}
    /\ UNCHANGED <<uses, base, phase, running, turns, pipe, owed, bev>>

\* evsig_handler: a byte into the pipe.
Caught(n) ==
    /\ phase # "freed" /\ pipe[n] < MaxCaught
    /\ \E s \in Sigs : SigNo[s] = n /\ "INSERTED" \in base.flags[s]
    /\ pipe' = [pipe EXCEPT ![n] = @ + 1]
    /\ owed' = [s \in Sigs |-> IF SigNo[s] = n /\ "INSERTED" \in base.flags[s]
                               THEN owed[s] + 1 ELSE owed[s]]
    /\ UNCHANGED <<uses, base, phase, running, turns, ready, bev>>

\* Time passes, outside the loop and while it waits; during a turn the loop works
\* with the time it has cached.  What is overdue by more than the longest timeout
\* is as good as overdue by that.
Longest == Max({Tv[e] : e \in Timers \cup Ios} \cup {0})
Tick ==
    /\ phase \in {"out", "top"}
    /\ \E e \in Ev : "TIMEOUT" \in base.flags[e] /\ base.due[e] >= -Longest
    /\ base' = [base EXCEPT !.due =
                    [e \in Ev |-> IF "TIMEOUT" \in base.flags[e] /\ @[e] >= -Longest THEN @[e] - 1 ELSE @[e]]]
    /\ UNCHANGED <<uses, phase, running, turns, ready, pipe, owed, bev>>

-----------------------------------------------------------------------------
User ==
    \/ \E e \in Timers \cup Ios : UserAdd(e) \/ UserDel(e)
    \/ \E s \in Sigs : RegSignal(s)
    \/ \E d \in Deferreds : UserSchedule(d) \/ UserCancel(d)
    \/ \E x \in Exits : StopDispatch(x)
    \/ \E v \in Bevs : BevFree(v)
    \/ Dispatch \/ FreeEventBase

Run ==
    \/ \E e \in Timers \cup Ios : RunEvent(e)
    \/ \E v \in Bevs : RunFinalizer(v)
    \/ \E s \in Sigs : RunSignal(s)
    \/ \E d \in Deferreds : RunDeferred(d)
    \/ \E x \in Exits : RunExit(x)
    \/ RunPipe

Loop  == DispatchReturn \/ Turn \/ Run \/ TurnEnds
World == (\E e \in Ios : Happens(e)) \/ (\E n \in Signals : Caught(n)) \/ Tick

Next == User \/ CbReturn \/ Loop \/ World

Spec == Init /\ [][Next]_vars

\* The loop goes on, callbacks return, time passes (it does so outside the loop
\* and whenever the loop comes to wait).
FairSpec == Spec /\ WF_vars(Loop) /\ WF_vars(CbReturn) /\ SF_vars(Tick)

-----------------------------------------------------------------------------
(* Properties *)

Flags == {"INSERTED", "TIMEOUT", "ACTIVE", "ACTIVE_LATER", "FINALIZING"}
TypeOK ==
    /\ uses \in Uses
    /\ base.flags \in [Ev -> SUBSET Flags]
    /\ base.res \in [Ev -> SUBSET {"IO", "TIMEOUT", "SIGNAL"}]
    /\ base.due \in [Ev -> Int] /\ base.again \in [Ev -> Nat] /\ base.ncalls \in [Ev -> Nat]
    /\ base.active \in Seq(Ev) /\ base.later \in Seq(Ev)
    /\ base.count \in Nat /\ base.nactive \in Nat /\ base.deferreds \in Nat
    /\ base.term \in BOOLEAN
    /\ phase \in {"out", "top", "process", "freed"} /\ running \in Ev \cup {Nobody}
    /\ turns \in Nat /\ ready \subseteq Ios
    /\ pipe \in [Signals -> 0..MaxCaught] /\ owed \in [Sigs -> Nat]
    /\ bev \in [Bevs -> {"alive", "freeing", "finalizing", "gone"}]

\* What event_base_assert_ok_nolock_ asserts of the queues, and the counters that
\* decide whether the loop has anything left to do.  event_base_free leaves nothing
\* behind: empty queues, as it asserts, no event that is known to the base, and no
\* bufferevent that waits for its finalizer.
BaseOk ==
    /\ TypeOK
    /\ IsInjective(base.active \o base.later)
    /\ \A e \in Ev :
         /\ "ACTIVE" \in base.flags[e] <=> \E i \in DOMAIN base.active : base.active[i] = e
         /\ "ACTIVE_LATER" \in base.flags[e] <=> \E i \in DOMAIN base.later : base.later[i] = e
    /\ base.nactive = Len(base.active) + Len(base.later)
    /\ base.count = Cardinality({p \in (Ev \ {Pipe}) \X (Flags \ {"FINALIZING"}) : p[2] \in base.flags[p[1]]})
    /\ phase = "freed" =>
         /\ base.active = <<>> /\ base.later = <<>> /\ base.count = 0
         /\ \A e \in Ev : base.flags[e] \subseteq {"FINALIZING"}
         /\ \A v \in Bevs : bev[v] \in {"alive", "gone"}

\* Each signal that was caught is in the pipe, waits for its callback to be
\* called, or was called for: none is lost and none is called for twice, however
\* signals, registrations and callbacks interleave.
Waiting(s) == (IF "ACTIVE" \in base.flags[s] THEN base.ncalls[s] ELSE 0)
              + (IF running = s THEN turns - 1 ELSE 0)
SignalsCounted ==
    \A s \in Sigs : "INSERTED" \in base.flags[s] => owed[s] = pipe[SigNo[s]] + Waiting(s)

\* A callback is told the truth: that its descriptor is ready, or that its
\* timeout has elapsed.
CauseTrue ==
    [][\A e \in Timers \cup Ios :
         running' = e /\ running # e =>
             /\ "IO" \in base.res[e] => e \in ready
             /\ "TIMEOUT" \in base.res[e] => base.due[e] <= 0]_vars

\* From bufferevent_free on no callback of the bufferevent starts, and none of its
\* events is watched or waits to run, but for the one that carries the finalizer.
FreedBevQuiet ==
    \A v \in Bevs :
        /\ bev[v] \in {"finalizing", "gone"} =>
               /\ running \notin {v.read, v.write}
               /\ \A e \in {v.read, v.write} :
                    base.flags[e] \cap {"INSERTED", "TIMEOUT", "ACTIVE_LATER"} = {}
        /\ bev[v] = "finalizing" =>
               Cardinality({e \in {v.read, v.write} : "ACTIVE" \in base.flags[e]}) = 1
        /\ bev[v] = "gone" => \A e \in {v.read, v.write} : "ACTIVE" \notin base.flags[e]

\* A descriptor is watched as long as its event has a timeout, unless the event
\* is added again while the callback of an elapsed timeout waits to be called:
\* then it only has its timeout (event_add sees that it is active, and takes it
\* out of the queue afterwards).
Watched ==
    [][\A e \in Ios :
         /\ "TIMEOUT" \in base'.flags[e] /\ "INSERTED" \notin base'.flags[e]
         /\ ~("TIMEOUT" \in base.flags[e] /\ "INSERTED" \notin base.flags[e])
         => /\ "ACTIVE" \in base.flags[e] /\ "TIMEOUT" \in base.res[e]
            /\ UNCHANGED running]_vars

\* While the loop runs, what is due or ready gets its callback, unless the program
\* adds the event again and again; also when deferred callbacks schedule
\* themselves for ever, or a descriptor is always ready.  A bufferevent that was
\* freed is gone in the end, if the loop goes on.
Content(e) ==
    \/ running = e
    \/ phase \in {"out", "freed"}
    \/ e \in Timers /\ base.flags[e] = {}
    \/ e \in Ios /\ (e \notin ready \/ "INSERTED" \notin base.flags[e])
Served ==
    /\ \A e \in Timers \cup Ios : []<>Content(e) \/ []<><<UserAdd(e)>>_vars
    /\ \A v \in Bevs : []<>(bev[v] # "finalizing" \/ phase = "out")

\* StopDispatch ends Dispatch, whatever else goes on.
Stops == \A x \in Exits : (base.flags[x] # {}) ~> phase \in {"out", "freed"}
=============================================================================
