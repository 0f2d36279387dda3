-------------------------------- MODULE Timer -------------------------------
(***************************************************************************)
(* Timer (src/src/timer_mgr.cc) on the dispatch loop of EventMgr           *)
(* (src/src/lev_mgr.cc).  The loop and its events are libevent's, modelled *)
(* from how the classes use them.                                          *)
(*                                                                         *)
(* One pass of the loop takes all due events into a queue and then runs    *)
(* their callbacks one after the other; a callback may start, stop or      *)
(* destroy any timer, its own and those that wait behind it in the queue.  *)
(***************************************************************************)
EXTENDS Integers, Sequences, FiniteSets, SequencesExt

CONSTANTS
    Tm,         \* the Timer objects
    Exit,       \* the event StopDispatch makes
    NotArmed,   \* for TimerPromise: a timer that is not started
    Intervals,  \* the intervals timers are started with
    MaxStarts,  \* bound: successful StartTimer calls
    MaxStops,   \* bound: StopDispatch calls
    MaxTime     \* bound: the clock

ASSUME TimerAssumption    == IsFiniteSet(Tm) /\ Exit \notin Tm
ASSUME IntervalAssumption == Intervals \subseteq Nat
ASSUME BoundAssumption    == MaxStarts \in Nat /\ MaxStops \in Nat /\ MaxTime \in Nat
ASSUME NotArmedAssumption ==
    NotArmed \notin [cb : Nat, loop : {"once", "loop"}, ms : Nat, due : Nat]

VARIABLES
    obj,      \* each Timer object: "none", "alive", "freed"
    ev,       \* its m_event: "null", "idle", "pending" (in the heap), "active" (in the queue)
    persist,  \* that event was made with EV_PERSIST: "once" or "loop"
    state,    \* m_state: "S_WAIT_START_TIMER" or "S_WAIT_TIME_OUT"
    isloop,   \* m_is_loop: "once" or "loop"
    cb,       \* m_cb: the number of the start that set it
    ms, due,  \* interval of the event, and when it is due
    now,      \* the clock of the loop: libevent caches it for the whole of a pass
    active,   \* queue of active events
    phase,    \* Dispatch: "out", "top" (of an iteration), "process" (the queue)
    term,     \* event_gotterm, "yes" or "no"
    running,  \* the start whose callback runs, 0 if none
    starts, stops  \* what the bounds count

timers == <<obj, ev, persist, state, isloop, cb, ms, due>>
loop   == <<active, phase, term>>
vars   == <<obj, ev, persist, state, isloop, cb, ms, due, now, active, phase, term, running,
            starts, stops>>

NoCb == 0

Init ==
    /\ obj = [t \in Tm |-> "none"] /\ ev = [t \in Tm |-> "null"]
    /\ persist = [t \in Tm |-> "once"]
    /\ state = [t \in Tm |-> "S_WAIT_START_TIMER"] /\ isloop = [t \in Tm |-> "once"]
    /\ cb = [t \in Tm |-> 0] /\ ms = [t \in Tm |-> 0] /\ due = [t \in Tm |-> 0]
    /\ now = 0 /\ active = <<>> /\ phase = "out" /\ term = "no" /\ running = NoCb
    /\ starts = 0 /\ stops = 0

-----------------------------------------------------------------------------
(* The program: outside Dispatch, or in a callback. *)

UserCode == phase = "out" \/ running # NoCb

NewTimer(t) ==
    /\ UserCode /\ obj[t] = "none"
    /\ obj' = [obj EXCEPT ![t] = "alive"]
    /\ UNCHANGED <<ev, persist, state, isloop, cb, ms, due, now, loop, running, starts, stops>>

\* event_del takes an event that already waits in the queue out of it.
Unqueue(t) ==
    IF ev[t] = "active" THEN \E i \in 1..Len(active) : active[i] = t /\ active' = RemoveAt(active, i)
                        ELSE active' = active

\* StartTimer frees the old event, if there is one, and makes a new one.  It is
\* refused while the timer is started.
StartTimer(t, m, l) ==
    /\ obj[t] = "alive" /\ starts < MaxStarts
    /\ state[t] = "S_WAIT_START_TIMER"
    /\ starts' = starts + 1
    /\ cb' = [cb EXCEPT ![t] = starts + 1]
    /\ Unqueue(t)
    /\ ev' = [ev EXCEPT ![t] = "pending"]
    /\ persist' = [persist EXCEPT ![t] = l]
    /\ ms' = [ms EXCEPT ![t] = m] /\ due' = [due EXCEPT ![t] = now + m]
    /\ isloop' = [isloop EXCEPT ![t] = l]
    /\ state' = [state EXCEPT ![t] = "S_WAIT_TIME_OUT"]
    /\ UNCHANGED <<obj, now, phase, term, running, stops>>

\* Mutant: an event that has become active is not taken back.
StopTimerLeavesActive(t) ==
    /\ ev[t] # "null" /\ state[t] = "S_WAIT_TIME_OUT"
    /\ ev' = [ev EXCEPT ![t] = IF @ = "active" THEN "active" ELSE "idle"]
    /\ active' = active
    /\ state' = [state EXCEPT ![t] = "S_WAIT_START_TIMER"]

\* Mutant: the event is deleted, the state is kept.
StopTimerKeepsState(t) ==
    /\ ev[t] # "null" /\ state[t] = "S_WAIT_TIME_OUT"
    /\ ev' = [ev EXCEPT ![t] = "idle"]
    /\ Unqueue(t)
    /\ state' = state

\* StopTimer does nothing unless the timer is started.
StopTimer(t) ==
    /\ ev[t] # "null" /\ state[t] = "S_WAIT_TIME_OUT"
    /\ ev' = [ev EXCEPT ![t] = "idle"]
    /\ Unqueue(t)
    /\ state' = [state EXCEPT ![t] = "S_WAIT_START_TIMER"]

UserStart(t) ==
    /\ UserCode
    /\ \E m \in Intervals, l \in {"once", "loop"} : StartTimer(t, m, l)

UserStop(t) ==
    /\ UserCode /\ obj[t] = "alive"
    /\ StopTimer(t)
    /\ UNCHANGED <<obj, persist, isloop, cb, ms, due, now, phase, term, running, starts, stops>>

\* ~Timer: event_free, which deletes the event first.
DeleteTimer(t) ==
    /\ UserCode /\ obj[t] = "alive"
    /\ obj' = [obj EXCEPT ![t] = "freed"]
    /\ ev' = [ev EXCEPT ![t] = "null"]
    /\ Unqueue(t)
    /\ UNCHANGED <<persist, state, isloop, cb, ms, due, now, phase, term, running, starts, stops>>

\* StopDispatch: event_base_loopexit without a delay makes an event that is
\* active at once, behind those that are active already.
StopDispatch ==
    /\ UserCode /\ stops < MaxStops
    /\ stops' = stops + 1
    /\ active' = Append(active, Exit)
    /\ UNCHANGED <<timers, now, phase, term, running, starts>>

CbReturn ==
    /\ running # NoCb
    /\ running' = NoCb
    /\ UNCHANGED <<timers, now, loop, starts, stops>>

-----------------------------------------------------------------------------
(* EventMgr::Dispatch, that is event_base_loop. *)

Dispatch ==
    /\ phase = "out"
    /\ phase' = "top" /\ term' = "no"
    /\ UNCHANGED <<timers, now, active, running, starts, stops>>

Due(t) == ev[t] = "pending" /\ due[t] <= now

\* The loop ends: it was told to, or has no event left.
DispatchReturn ==
    /\ phase = "top"
    /\ \/ term = "yes"
       \/ active = <<>> /\ \A t \in Tm : ev[t] # "pending"
    /\ phase' = "out"
    /\ UNCHANGED <<timers, now, active, term, running, starts, stops>>

\* The heap hands out events of the same time in any order.
Orders(S) == Bijection(1..Cardinality(S), S)

\* timeout_process: the due timers become active, in the order of their time.
TimeoutProcess ==
    /\ phase = "top" /\ term = "no"
    /\ active # <<>> \/ \E t \in Tm : Due(t)
    /\ \E order \in Orders({t \in Tm : Due(t)}) :
         /\ \A i, j \in 1..Len(order) : i < j => due[order[i]] <= due[order[j]]
         /\ active' = active \o order
    /\ ev' = [t \in Tm |-> IF Due(t) THEN "active" ELSE ev[t]]
    /\ phase' = "process"
    /\ UNCHANGED <<obj, persist, state, isloop, cb, ms, due, now, term, running, starts, stops>>

\* libevent takes the event at the head of the queue out and reschedules it if it
\* is persistent, but not if its interval is 0.
Later(t) == IF due[t] + ms[t] < now THEN now + ms[t] ELSE due[t] + ms[t]
Recurs(t) == persist[t] = "loop" /\ ms[t] > 0

\* Mutant: the event is never persistent.
RescheduleNever(t) == ev' = [ev EXCEPT ![t] = "idle"] /\ due' = due

Reschedule(t) ==
    /\ ev' = [ev EXCEPT ![t] = IF Recurs(t) THEN "pending" ELSE "idle"]
    /\ due' = [due EXCEPT ![t] = IF Recurs(t) THEN Later(t) ELSE @]

\* TimerCB_StdBind stops a timer that is not a loop before it calls m_cb.
TimerCB(t) ==
    /\ state' = IF isloop[t] = "once" THEN [state EXCEPT ![t] = "S_WAIT_START_TIMER"] ELSE state
    /\ running' = cb[t]

ProcessTimer(t) ==
    /\ phase = "process" /\ running = NoCb
    /\ active # <<>> /\ Head(active) = t
    /\ active' = Tail(active)
    /\ Reschedule(t) /\ TimerCB(t)
    /\ UNCHANGED <<obj, persist, isloop, cb, ms, now, phase, term, starts, stops>>

\* The exit event: the rest of the queue is still run.
ProcessExit ==
    /\ phase = "process" /\ running = NoCb
    /\ active # <<>> /\ Head(active) = Exit
    /\ active' = Tail(active) /\ term' = "yes"
    /\ UNCHANGED <<timers, now, phase, running, starts, stops>>

PassEnds ==
    /\ phase = "process" /\ running = NoCb /\ active = <<>>
    /\ phase' = "top"
    /\ UNCHANGED <<timers, now, active, term, running, starts, stops>>

\* Time passes, in poll and outside Dispatch.
Clock ==
    /\ now < MaxTime /\ phase # "process"
    /\ now' = now + 1
    /\ UNCHANGED <<timers, loop, running, starts, stops>>

-----------------------------------------------------------------------------
User == \/ \E t \in Tm : NewTimer(t) \/ UserStart(t) \/ UserStop(t) \/ DeleteTimer(t)
        \/ StopDispatch \/ Dispatch
Library == \/ DispatchReturn \/ TimeoutProcess \/ ProcessExit \/ PassEnds
           \/ \E t \in Tm : ProcessTimer(t)

Next == User \/ CbReturn \/ Library \/ Clock

Spec == Init /\ [][Next]_vars

\* The loop goes on, callbacks return, time passes.  The program need not call
\* Dispatch.
FairSpec == Spec /\ WF_vars(Library) /\ WF_vars(CbReturn) /\ WF_vars(Clock)

-----------------------------------------------------------------------------
(* Properties *)

TypeOK ==
    /\ obj \in [Tm -> {"none", "alive", "freed"}]
    /\ ev \in [Tm -> {"null", "idle", "pending", "active"}]
    /\ persist \in [Tm -> {"once", "loop"}] /\ isloop \in [Tm -> {"once", "loop"}]
    /\ state \in [Tm -> {"S_WAIT_START_TIMER", "S_WAIT_TIME_OUT"}]
    /\ cb \in [Tm -> 0..MaxStarts] /\ ms \in [Tm -> Intervals \cup {0}] /\ due \in [Tm -> Nat]
    /\ now \in 0..MaxTime /\ active \in Seq(Tm \cup {Exit})
    /\ \A t \in Tm : obj[t] # "alive" => ev[t] = "null"
    /\ phase \in {"out", "top", "process"} /\ term \in {"yes", "no"}
    /\ running \in 0..MaxStarts /\ starts \in 0..MaxStarts /\ stops \in 0..MaxStops

\* A loop of interval 0 that has had its only turn.
Spent(t) == isloop[t] = "loop" /\ ms[t] = 0 /\ ev[t] = "idle"

Started(t) == obj[t] = "alive" /\ state[t] = "S_WAIT_TIME_OUT" /\ ~Spent(t)

\* m_state says what libevent thinks: whenever user code can look, an event is in
\* the heap or once in the queue exactly when its timer is started, so that
\* StartTimer never overwrites one that will still fire and StopTimer never
\* overlooks one.  (A spent loop of interval 0 is the exception: its m_state
\* keeps saying that it waits.)
StateMatchesEvent ==
    TypeOK /\ \A t \in Tm :
        /\ Started(t) <=> ev[t] \in {"pending", "active"}
        /\ Cardinality({i \in 1..Len(active) : active[i] = t}) = (IF ev[t] = "active" THEN 1 ELSE 0)

\* Timer on the loop does what TimerPromise says: in particular a timer that is
\* stopped, restarted or destroyed by a callback that runs before its own, in
\* the same pass of the loop, does not fire, and none fires early.
Armed ==
    [t \in Tm |->
        IF Started(t) THEN [cb |-> cb[t], loop |-> isloop[t], ms |-> ms[t], due |-> due[t]]
                      ELSE NotArmed]
Promise == INSTANCE TimerPromise WITH
    Timer <- Tm, Start <- 1..MaxStarts, armed <- Armed, calls <- running
PromiseSpec == Promise!Spec

\* A started timer whose time comes is called, unless the program stops or
\* destroys it first or leaves Dispatch.
Fires ==
    \A t \in Tm : \A n \in 1..MaxStarts :
        (Armed[t] # NotArmed /\ cb[t] = n /\ due[t] <= MaxTime)
            ~> (running = n \/ Armed[t] = NotArmed \/ phase = "out")

=============================================================================
