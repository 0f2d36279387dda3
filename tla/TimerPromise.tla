---------------------------- MODULE TimerPromise ----------------------------
(***************************************************************************)
(* What the Timer class promises (src/include/timer_mgr.h), without events *)
(* and queues: a started timer calls the callback it was started with, not *)
(* before its time, again and again if it is a loop and once if not; a     *)
(* stopped or destroyed timer calls nothing; only one callback runs at a   *)
(* time.                                                                   *)
(***************************************************************************)
EXTENDS Integers

CONSTANTS Timer, Start, Intervals, NotArmed, NoCb

VARIABLES
    now,      \* the clock
    armed,    \* per timer: the start that arms it, or NotArmed
    calls     \* the start whose callback runs, or NoCb

promiseVars == <<now, armed, calls>>

Init == now = 0 /\ armed = [t \in Timer |-> NotArmed] /\ calls = NoCb

Pass == now' = now + 1 /\ UNCHANGED <<armed, calls>>

Arm(t) ==
    /\ armed[t] = NotArmed
    /\ \E n \in Start, l \in {"once", "loop"}, m \in Intervals :
         armed' = [armed EXCEPT ![t] = [cb |-> n, loop |-> l, ms |-> m, due |-> now + m]]
    /\ UNCHANGED <<now, calls>>

Disarm(t) ==
    /\ armed[t] # NotArmed
    /\ armed' = [armed EXCEPT ![t] = NotArmed]
    /\ UNCHANGED <<now, calls>>

\* The next turn of a loop is one interval after this one was due, or after
\* now if that is over already.
Later(a) == IF a.due + a.ms < now THEN now + a.ms ELSE a.due + a.ms

\* A loop of interval 0 has one turn only: that much of libevent shows through.
Fire(t) ==
    /\ calls = NoCb
    /\ armed[t] # NotArmed /\ armed[t].due <= now
    /\ calls' = armed[t].cb
    /\ armed' = [armed EXCEPT ![t] = IF @.loop = "loop" /\ @.ms > 0
                                           THEN [@ EXCEPT !.due = Later(armed[t])]
                                           ELSE NotArmed]
    /\ UNCHANGED now

Return == calls # NoCb /\ calls' = NoCb /\ UNCHANGED <<now, armed>>

Next == Pass \/ Return \/ \E t \in Timer : Arm(t) \/ Disarm(t) \/ Fire(t)

Spec == Init /\ [][Next]_promiseVars
=============================================================================
