---------------------------- MODULE TimerProofs -----------------------------
(***************************************************************************)
(* Proofs about Timer on the dispatch loop, for any finite set of timers,  *)
(* any intervals and any bounds: m_state agrees with libevent, and the     *)
(* timers implement TimerPromise.                                          *)
(***************************************************************************)
EXTENDS Timer, DataLemmas

Event == Tm \cup {Exit}

-----------------------------------------------------------------------------
(* The invariant. *)

\* A timer waits in a queue at most once.
Once(s) == \A i, j \in 1..Len(s) : s[i] = s[j] /\ s[i] # Exit => i = j
In(s, t) == \E i \in 1..Len(s) : s[i] = t

TypeInv ==
    /\ obj \in [Tm -> {"none", "alive", "freed"}]
    /\ ev \in [Tm -> {"null", "idle", "pending", "active"}]
    /\ persist \in [Tm -> {"once", "loop"}] /\ isloop \in [Tm -> {"once", "loop"}]
    /\ state \in [Tm -> {"S_WAIT_START_TIMER", "S_WAIT_TIME_OUT"}]
    /\ cb \in [Tm -> 0..MaxStarts] /\ ms \in [Tm -> Intervals \cup {0}] /\ due \in [Tm -> Nat]
LoopInv ==
    /\ now \in 0..MaxTime /\ active \in Seq(Event)
    /\ phase \in {"out", "top", "process"} /\ term \in {"yes", "no"}
    /\ running \in 0..MaxStarts /\ starts \in 0..MaxStarts /\ stops \in 0..MaxStops

QueueInv == Once(active) /\ \A t \in Tm : ev[t] = "active" <=> In(active, t)

\* What holds of each timer.
TimerOk(t) ==
    /\ Started(t) <=> ev[t] \in {"pending", "active"}
    /\ persist[t] = isloop[t]
    /\ ev[t] = "active" => due[t] <= now
    /\ obj[t] = "none" => state[t] = "S_WAIT_START_TIMER"
    /\ obj[t] # "alive" => ev[t] = "null"
TimerInv == \A t \in Tm : TimerOk(t)

IInv == TypeInv /\ LoopInv /\ QueueInv /\ TimerInv

LEMMA NumberTypes ==
    /\ Intervals \cup {0} \subseteq Nat
    /\ \A n \in 0..MaxStarts : n \in Nat
    /\ \A n \in 0..MaxTime : n \in Nat
  BY IntervalAssumption, BoundAssumption

-----------------------------------------------------------------------------
(* The queue. *)

\* event_del leaves the other events in the queue, in their order.
LEMMA UnqueueFacts ==
    ASSUME IInv, NEW t \in Tm, Unqueue(t)
    PROVE  /\ active' \in Seq(Event) /\ Once(active')
           /\ \A u \in Tm : In(active', u) <=> In(active, u) /\ u # t
<1>0. active \in Seq(Event) /\ Once(active) /\ (ev[t] = "active" <=> In(active, t)) /\ t # Exit
  BY TimerAssumption DEF IInv, LoopInv, QueueInv
<1>1. CASE ev[t] # "active"
  BY <1>0, <1>1 DEF Unqueue, In
<1>2. CASE ev[t] = "active"
  <2>1. PICK i \in 1..Len(active) : active[i] = t /\ active' = RemoveAt(active, i)
    BY <1>2 DEF Unqueue
  <2>2. Len(active) \in Nat
    BY <1>0, LenProperties
  <2>3. /\ active' \in Seq(Event) /\ Len(active') = Len(active) - 1
        /\ \A j \in 1..Len(active') : active'[j] = IF j < i THEN active[j] ELSE active[j + 1]
    BY <1>0, <2>1, <2>2, RemoveAtFacts
  <2> DEFINE at(j) == IF j < i THEN j ELSE j + 1
  <2>4. \A j \in 1..Len(active') : at(j) \in 1..Len(active) /\ at(j) # i /\ active'[j] = active[at(j)]
    BY <2>1, <2>2, <2>3
  <2>5. \A j, k \in 1..Len(active') : at(j) = at(k) => j = k
    BY <2>1, <2>2, <2>3
  <2>6. \A k \in 1..Len(active) : k # i => \E j \in 1..Len(active') : at(j) = k
    <3>1. ASSUME NEW k \in 1..Len(active), k < i
          PROVE  k \in 1..Len(active') /\ at(k) = k
      BY <2>1, <2>2, <2>3, <3>1
    <3>2. ASSUME NEW k \in 1..Len(active), k > i
          PROVE  k - 1 \in 1..Len(active') /\ at(k - 1) = k
      BY <2>1, <2>2, <2>3, <3>2
    <3> QED
      BY <2>1, <2>2, <3>1, <3>2
  <2> HIDE DEF at
  <2>7. Once(active')
    <3>1. ASSUME NEW j \in 1..Len(active'), NEW k \in 1..Len(active'),
                 active'[j] = active'[k], active'[j] # Exit
          PROVE  j = k
      <4>2. /\ at(j) \in 1..Len(active) /\ active[at(j)] = active'[j]
            /\ at(k) \in 1..Len(active) /\ active[at(k)] = active'[k]
        BY <2>4
      <4>1. at(j) = at(k)
        BY <1>0, <3>1, <4>2 DEF Once
      <4> QED
        BY <2>5, <4>1
    <3> QED
      BY <3>1 DEF Once
  <2>8. ASSUME NEW u \in Tm PROVE In(active', u) <=> In(active, u) /\ u # t
    <3>1. In(active', u) => In(active, u)
      BY <2>4 DEF In
    <3>2. ~In(active', t)
      <4>1. ASSUME NEW j \in 1..Len(active'), active'[j] = t PROVE FALSE
        <5>1. at(j) \in 1..Len(active) /\ at(j) # i /\ active[at(j)] = t
          BY <2>4, <4>1
        <5> QED
          BY <1>0, <2>1, <5>1 DEF Once
      <4> QED
        BY <4>1 DEF In
    <3>3. ASSUME In(active, u), u # t PROVE In(active', u)
      <4>1. PICK k \in 1..Len(active) : active[k] = u
        BY <3>3 DEF In
      <4>2. k # i
        BY <2>1, <3>3, <4>1
      <4>3. PICK j \in 1..Len(active') : at(j) = k
        BY <2>6, <4>2
      <4>4. active'[j] = u
        BY <2>4, <4>1, <4>3
      <4> QED
        BY <4>4 DEF In
    <3> QED
      BY <3>1, <3>2, <3>3
  <2> QED
    BY <2>3, <2>7, <2>8
<1> QED
  BY <1>1, <1>2

\* The head of the queue is taken out.
LEMMA TailFacts ==
    ASSUME IInv, active # <<>>, active' = Tail(active)
    PROVE  /\ active' \in Seq(Event) /\ Once(active')
           /\ \A u \in Tm : In(active', u) <=> In(active, u) /\ u # Head(active)
<1>1. active \in Seq(Event) /\ Once(active) /\ \A u \in Tm : u # Exit
  BY TimerAssumption DEF IInv, LoopInv, QueueInv
<1>2. Len(active) \in Nat /\ Len(active) >= 1 /\ Head(active) = active[1]
  BY <1>1, EmptySeq, LenProperties
<1>3. /\ active' \in Seq(Event) /\ Len(active') = Len(active) - 1
      /\ \A j \in 1..Len(active') : j + 1 \in 1..Len(active) /\ active'[j] = active[j + 1]
  BY <1>1, <1>2
<1>4. \A k \in 1..Len(active) : k # 1 => \E j \in 1..Len(active') : j + 1 = k
  <2>1. ASSUME NEW k \in 1..Len(active), k # 1 PROVE k - 1 \in 1..Len(active') /\ (k - 1) + 1 = k
    BY <1>2, <1>3, <2>1
  <2> QED
    BY <2>1
<1>5. Once(active')
  <2>1. ASSUME NEW i \in 1..Len(active'), NEW j \in 1..Len(active'),
               active'[i] = active'[j], active'[i] # Exit
        PROVE  i = j
    <3>1. i + 1 = j + 1
      BY <1>1, <1>3, <2>1 DEF Once
    <3> QED
      BY <1>2, <1>3, <3>1
  <2> QED
    BY <2>1 DEF Once
<1>6. ASSUME NEW u \in Tm PROVE In(active', u) <=> In(active, u) /\ u # Head(active)
  <2>1. In(active', u) => In(active, u)
    BY <1>3 DEF In
  <2>2. In(active', u) => u # active[1]
    <3>1. ASSUME NEW j \in 1..Len(active'), active'[j] = active[1], active[1] # Exit PROVE FALSE
      <4>1. j + 1 \in 1..Len(active) /\ 1 \in 1..Len(active) /\ active[j + 1] = active[1]
        BY <1>2, <1>3, <3>1
      <4>2. j + 1 = 1
        BY <1>1, <3>1, <4>1 DEF Once
      <4> QED
        BY <1>2, <1>3, <4>2
    <3> QED
      BY <1>1, <3>1 DEF In
  <2>3. ASSUME In(active, u), u # active[1] PROVE In(active', u)
    <3>1. PICK k \in 1..Len(active) : active[k] = u
      BY <2>3 DEF In
    <3>2. PICK j \in 1..Len(active') : j + 1 = k
      BY <1>4, <2>3, <3>1
    <3>3. active'[j] = u
      BY <1>3, <3>1, <3>2
    <3> QED
      BY <3>3 DEF In
  <2> QED
    BY <1>2, <2>1, <2>2, <2>3
<1> QED
  BY <1>3, <1>5, <1>6

\* Events become active behind those that are.
LEMMA ConcatFacts ==
    ASSUME IInv, NEW order \in Seq(Event), Once(order), active' = active \o order,
           \A u \in Tm : ~(In(active, u) /\ In(order, u))
    PROVE  /\ active' \in Seq(Event) /\ Once(active')
           /\ \A u \in Tm : In(active', u) <=> In(active, u) \/ In(order, u)
<1>1. active \in Seq(Event) /\ Once(active)
  BY DEF IInv, LoopInv, QueueInv
<1>2. Len(active) \in Nat /\ Len(order) \in Nat
  BY <1>1, LenProperties
<1> DEFINE m == Len(active)
           n == Len(order)
<1>3. /\ active' \in Seq(Event) /\ Len(active') = m + n
      /\ \A i \in 1..m : i \in 1..m + n /\ active'[i] = active[i]
      /\ \A i \in 1..n : i + m \in 1..m + n /\ active'[i + m] = order[i]
  BY <1>1, <1>2
<1>4. \A i \in 1..Len(active') : i \in 1..m \/ (i - m \in 1..n /\ (i - m) + m = i)
  BY <1>2, <1>3
<1>8. \A i \in 1..Len(active') : (i - m) + m = i
  BY <1>2, <1>3
<1> HIDE DEF m, n
<1>5. \A i \in 1..Len(active') : /\ i \in 1..m => active'[i] = active[i]
                                 /\ i - m \in 1..n => active'[i] = order[i - m]
  <2>1. \A i \in 1..Len(active') : i - m \in 1..n => active'[(i - m) + m] = order[i - m]
    BY <1>3
  <2> QED
    BY <1>3, <1>8, <2>1
<1>6. ASSUME NEW u \in Tm PROVE In(active', u) <=> In(active, u) \/ In(order, u)
  <2>1. In(active, u) => In(active', u)
    <3>1. \A i \in 1..m : i \in 1..Len(active') /\ active'[i] = active[i]
      BY <1>3
    <3> QED
      BY <3>1 DEF In, m
  <2>2. In(order, u) => In(active', u)
    <3>1. \A i \in 1..n : i + m \in 1..Len(active') /\ active'[i + m] = order[i]
      BY <1>3
    <3> QED
      BY <3>1 DEF In, n
  <2>3. In(active', u) => In(active, u) \/ In(order, u)
    BY <1>4, <1>5 DEF In, m, n
  <2> QED
    BY <2>1, <2>2, <2>3
<1>7. Once(active')
  <2>1. ASSUME NEW i \in 1..Len(active'), NEW j \in 1..Len(active'),
               active'[i] = active'[j], active'[i] # Exit
        PROVE  i = j
    <3>1. active'[i] \in Tm
      <4>1. active'[i] \in Event
        BY <1>3
      <4> QED
        BY <2>1, <4>1 DEF Event
    <3>2. CASE i \in 1..m /\ j \in 1..m
      BY <1>1, <1>5, <2>1, <3>2 DEF Once, m
    <3>3. CASE i - m \in 1..n /\ j - m \in 1..n
      <4>0. order[i - m] = order[j - m] /\ order[i - m] # Exit
        BY <1>5, <2>1, <3>3
      <4>1. i - m = j - m
        BY <3>3, <4>0 DEF Once, n
      <4> QED
        BY <1>2, <4>1, <3>3 DEF m, n
    <3>4. CASE i \in 1..m /\ j - m \in 1..n
      <4>1. active'[i] = active[i] /\ active'[i] = order[j - m]
        BY <1>5, <2>1, <3>4
      <4>2. In(active, active'[i]) /\ In(order, active'[i])
        BY <3>4, <4>1 DEF In, m, n
      <4> QED
        BY <3>1, <4>2
    <3>5. CASE i - m \in 1..n /\ j \in 1..m
      <4>1. active'[i] = order[i - m] /\ active'[i] = active[j]
        BY <1>5, <2>1, <3>5
      <4>2. In(active, active'[i]) /\ In(order, active'[i])
        BY <3>5, <4>1 DEF In, m, n
      <4> QED
        BY <3>1, <4>2
    <3> QED
      BY <1>4, <3>2, <3>3, <3>4, <3>5
  <2> QED
    BY <2>1 DEF Once
<1> QED
  BY <1>3, <1>6, <1>7

LEMMA OrderFacts ==
    ASSUME NEW D \in SUBSET Tm, NEW order \in Orders(D)
    PROVE  /\ order \in Seq(Event) /\ Once(order)
           /\ \A u \in Tm : In(order, u) <=> u \in D
<1>1. Cardinality(D) \in Nat
  BY TimerAssumption, FS_Subset, FS_CardinalityType
<1> DEFINE n == Cardinality(D)
<1> HIDE DEF n
<1>2. /\ order \in [1..n -> D]
      /\ \A i, j \in 1..n : order[i] = order[j] => i = j
      /\ \A u \in D : \E i \in 1..n : order[i] = u
  BY DEF Orders, Bijection, Injection, Surjection, IsInjective, n
<1>3. order \in [1..n -> Event]
  BY <1>2 DEF Event
<1>4. n \in Nat
  BY <1>1 DEF n
<1>5. order \in Seq(Event) /\ Len(order) = n
  BY <1>3, <1>4, SeqDef, LenProperties
<1> QED
  BY <1>2, <1>5 DEF Once, In

-----------------------------------------------------------------------------
(* Timers a step leaves alone. *)

Same(t) == /\ obj'[t] = obj[t] /\ ev'[t] = ev[t] /\ persist'[t] = persist[t]
           /\ state'[t] = state[t] /\ isloop'[t] = isloop[t]
           /\ cb'[t] = cb[t] /\ ms'[t] = ms[t] /\ due'[t] = due[t]

LEMMA SameOk ==
    ASSUME IInv, NEW t \in Tm, Same(t), now' = now
    PROVE  TimerOk(t)' /\ Armed'[t] = Armed[t]
<1>1. Started(t)' <=> Started(t)
  BY DEF Same, Started, Spent
<1>2. TimerOk(t)'
  BY <1>1 DEF Same, TimerOk, IInv, TimerInv
<1>3. Armed'[t] = Armed[t]
  BY <1>1 DEF Same, Armed
<1> QED
  BY <1>2, <1>3

LEMMA ArmedAt ==
    \A t \in Tm : Armed[t] = IF Started(t)
                             THEN [cb |-> cb[t], loop |-> isloop[t], ms |-> ms[t], due |-> due[t]]
                             ELSE NotArmed
  BY DEF Armed

\* A started timer is told apart from one that is not.
LEMMA ArmedIsRecord ==
    ASSUME IInv, NEW t \in Tm, Started(t)
    PROVE  Armed[t] # NotArmed
<1>1. cb[t] \in Nat /\ isloop[t] \in {"once", "loop"} /\ ms[t] \in Nat /\ due[t] \in Nat
  BY NumberTypes DEF IInv, TypeInv
<1>2. Armed[t] = [cb |-> cb[t], loop |-> isloop[t], ms |-> ms[t], due |-> due[t]]
  BY ArmedAt
<1>3. Armed[t] \in [cb : Nat, loop : {"once", "loop"}, ms : Nat, due : Nat]
  BY <1>1, <1>2
<1> QED
  BY <1>3, NotArmedAssumption

LEMMA ArmedExcept ==
    ASSUME NEW t \in Tm, \A u \in Tm \ {t} : Armed'[u] = Armed[u]
    PROVE  Armed' = [Armed EXCEPT ![t] = Armed'[t]]
<1>1. /\ Armed = [u \in Tm |-> Armed[u]]
      /\ Armed' = [u \in Tm |-> Armed'[u]]
  BY DEF Armed
<1>2. \A u \in Tm : Armed'[u] = IF u = t THEN Armed'[t] ELSE Armed[u]
  OBVIOUS
<1> DEFINE A == Armed
           B == Armed'
<1> HIDE DEF A, B
<1>3. A = [u \in Tm |-> A[u]] /\ B = [u \in Tm |-> B[u]] /\ \A u \in Tm : B[u] = IF u = t THEN B[t] ELSE A[u]
  BY <1>1, <1>2 DEF A, B
<1>4. B = [A EXCEPT ![t] = B[t]]
  BY <1>3
<1> QED
  BY <1>4 DEF A, B

\* All timers are left alone.
LEMMA ArmedSame ==
    ASSUME \A u \in Tm : Armed'[u] = Armed[u]
    PROVE  Armed' = Armed
<1>1. /\ Armed = [u \in Tm |-> Armed[u]]
      /\ Armed' = [u \in Tm |-> Armed'[u]]
  BY DEF Armed
<1> DEFINE A == Armed
           B == Armed'
<1> HIDE DEF A, B
<1>2. A = [u \in Tm |-> A[u]] /\ B = [u \in Tm |-> B[u]] /\ \A u \in Tm : B[u] = A[u]
  BY <1>1 DEF A, B
<1>3. B = A
  BY <1>2
<1> QED
  BY <1>3 DEF A, B

\* What a step of the program or the loop is for TimerPromise.
Mapped == Promise!Next \/ UNCHANGED <<now, Armed, running>>

LEMMA QuietStep ==
    ASSUME IInv, UNCHANGED <<timers, now>>, active' \in Seq(Event), QueueInv', LoopInv'
    PROVE  IInv' /\ Armed' = Armed
<1>1. \A u \in Tm : Same(u)
  BY DEF timers, Same
<1>2. \A u \in Tm : TimerOk(u)' /\ Armed'[u] = Armed[u]
  BY <1>1, SameOk
<1>3. TypeInv'
  BY DEF IInv, TypeInv, timers
<1>4. TimerInv'
  BY <1>2 DEF TimerInv
<1> QED
  BY <1>2, <1>3, <1>4, ArmedSame DEF IInv

-----------------------------------------------------------------------------
(* Init and the actions. *)

LEMMA InitOk == Init => IInv
<1> SUFFICES ASSUME Init PROVE IInv
  OBVIOUS
<1>1. TypeInv
  BY BoundAssumption DEF Init, TypeInv
<1>2. Len(active) = 0 /\ active \in Seq(Event)
  BY EmptySeq DEF Init
<1>3. LoopInv
  BY <1>2, BoundAssumption DEF Init, LoopInv, NoCb
<1>4. QueueInv
  BY <1>2 DEF Init, QueueInv, Once, In
<1>5. TimerInv
  BY DEF Init, TimerInv, TimerOk, Started
<1> QED
  BY <1>1, <1>3, <1>4, <1>5 DEF IInv

LEMMA NewTimerKeeps == ASSUME IInv, NEW t \in Tm, NewTimer(t) PROVE IInv' /\ Mapped
<1>1. /\ obj[t] = "none" /\ obj' = [obj EXCEPT ![t] = "alive"]
      /\ UNCHANGED <<ev, persist, state, isloop, cb, ms, due, now, loop, running, starts, stops>>
  BY DEF NewTimer
<1>2. \A u \in Tm \ {t} : Same(u)
  BY <1>1 DEF Same, IInv, TypeInv
<1>3. state[t] = "S_WAIT_START_TIMER" /\ ev[t] = "null"
  BY <1>1 DEF IInv, TimerInv, TimerOk
<1>4. ~Started(t) /\ ~Started(t)'
  BY <1>1, <1>3 DEF Started
<1>5. obj'[t] = "alive" /\ TypeInv'
  BY <1>1 DEF IInv, TypeInv
<1>6. TimerOk(t)' /\ Armed'[t] = Armed[t]
  BY <1>1, <1>3, <1>4, <1>5, ArmedAt DEF TimerOk, Armed, IInv, TimerInv
<1>7. \A u \in Tm : TimerOk(u)' /\ Armed'[u] = Armed[u]
  BY <1>1, <1>2, <1>6, SameOk
<1>8. LoopInv' /\ QueueInv'
  BY <1>1 DEF IInv, LoopInv, QueueInv, loop
<1> QED
  BY <1>1, <1>5, <1>7, <1>8, ArmedSame DEF IInv, TimerInv, Mapped

LEMMA UserStartKeeps == ASSUME IInv, NEW t \in Tm, UserStart(t) PROVE IInv' /\ Mapped
<1>1. PICK m \in Intervals, l \in {"once", "loop"} : StartTimer(t, m, l)
  BY DEF UserStart
<1>2. /\ obj[t] = "alive" /\ starts < MaxStarts /\ state[t] = "S_WAIT_START_TIMER"
      /\ starts' = starts + 1 /\ cb' = [cb EXCEPT ![t] = starts + 1]
      /\ Unqueue(t)
      /\ ev' = [ev EXCEPT ![t] = "pending"] /\ persist' = [persist EXCEPT ![t] = l]
      /\ ms' = [ms EXCEPT ![t] = m] /\ due' = [due EXCEPT ![t] = now + m]
      /\ isloop' = [isloop EXCEPT ![t] = l] /\ state' = [state EXCEPT ![t] = "S_WAIT_TIME_OUT"]
      /\ UNCHANGED <<obj, now, phase, term, running, stops>>
  BY <1>1 DEF StartTimer
<1>3. m \in Nat /\ now \in Nat /\ starts + 1 \in 1..MaxStarts /\ now + m \in Nat
  BY <1>2, IntervalAssumption, BoundAssumption DEF IInv, LoopInv
<1>4. \A u \in Tm \ {t} : Same(u)
  BY <1>2 DEF Same, IInv, TypeInv
<1>5. /\ ev'[t] = "pending" /\ persist'[t] = l /\ ms'[t] = m /\ due'[t] = now + m
      /\ isloop'[t] = l /\ state'[t] = "S_WAIT_TIME_OUT" /\ cb'[t] = starts + 1 /\ obj'[t] = "alive"
  BY <1>2 DEF IInv, TypeInv
<1>6. TypeInv'
  BY <1>2, <1>3 DEF IInv, TypeInv
<1>7. ~Started(t) /\ Started(t)'
  BY <1>2, <1>5 DEF Started, Spent
<1>8. TimerOk(t)'
  BY <1>5, <1>7 DEF TimerOk
<1>9. \A u \in Tm \ {t} : TimerOk(u)' /\ Armed'[u] = Armed[u]
  BY <1>2, <1>4, SameOk
<1>10. active' \in Seq(Event) /\ Once(active') /\ \A u \in Tm : In(active', u) <=> In(active, u) /\ u # t
  BY <1>2, UnqueueFacts
<1>11. QueueInv'
  <2>1. \A u \in Tm \ {t} : ev'[u] = ev[u]
    BY <1>4 DEF Same
  <2> QED
    BY <1>5, <1>10, <2>1 DEF QueueInv, IInv
<1>12. LoopInv'
  BY <1>2, <1>3, <1>10 DEF IInv, LoopInv
<1>13. Promise!Arm(t)
  <2>1. Armed[t] = NotArmed
    BY <1>7, ArmedAt
  <2>2. Armed'[t] = [cb |-> starts + 1, loop |-> l, ms |-> m, due |-> now + m]
    BY <1>5, <1>7 DEF Armed
  <2>3. Armed' = [Armed EXCEPT ![t] = [cb |-> starts + 1, loop |-> l, ms |-> m, due |-> now + m]]
    BY <1>9, <2>2, ArmedExcept
  <2> QED
    BY <1>2, <1>3, <2>1, <2>3 DEF Promise!Arm
<1> QED
  BY <1>6, <1>8, <1>9, <1>11, <1>12, <1>13 DEF IInv, TimerInv, Mapped, Promise!Next

\* A timer is not started any more, and its event is not in the queue.
LEMMA Disarms ==
    ASSUME IInv, NEW t \in Tm, Unqueue(t), ev'[t] # "active", \A u \in Tm \ {t} : Same(u),
           TypeInv', TimerOk(t)', ~Started(t)', UNCHANGED <<now, phase, term, running, starts, stops>>
    PROVE  IInv' /\ Mapped
<1>1. \A u \in Tm \ {t} : TimerOk(u)' /\ Armed'[u] = Armed[u]
  BY SameOk
<1>2. active' \in Seq(Event) /\ Once(active') /\ \A u \in Tm : In(active', u) <=> In(active, u) /\ u # t
  BY UnqueueFacts
<1>3. QueueInv'
  <2>1. \A u \in Tm \ {t} : ev'[u] = ev[u]
    BY DEF Same
  <2> QED
    BY <1>2, <2>1 DEF QueueInv, IInv
<1>4. LoopInv'
  BY <1>2 DEF IInv, LoopInv
<1>5. Armed'[t] = NotArmed
  BY DEF Armed
<1>6. Armed' = [Armed EXCEPT ![t] = NotArmed]
  BY <1>1, <1>5, ArmedExcept
<1>7. Mapped
  <2>1. CASE Started(t)
    BY <1>6, <2>1, ArmedIsRecord DEF Mapped, Promise!Next, Promise!Disarm
  <2>2. CASE ~Started(t)
    <3>1. Armed[t] = NotArmed
      BY <2>2, ArmedAt
    <3>2. Armed' = Armed
      BY <1>1, <1>5, <3>1, ArmedSame
    <3> QED
      BY <3>2 DEF Mapped
  <2> QED
    BY <2>1, <2>2
<1> QED
  BY <1>1, <1>3, <1>4, <1>7 DEF IInv, TimerInv

LEMMA UserStopKeeps == ASSUME IInv, NEW t \in Tm, UserStop(t) PROVE IInv' /\ Mapped
<1>1. /\ obj[t] = "alive" /\ ev[t] # "null" /\ ev' = [ev EXCEPT ![t] = "idle"]
      /\ Unqueue(t) /\ state' = [state EXCEPT ![t] = "S_WAIT_START_TIMER"]
      /\ UNCHANGED <<obj, persist, isloop, cb, ms, due, now, phase, term, running, starts, stops>>
  BY DEF UserStop, StopTimer
<1>2. \A u \in Tm \ {t} : Same(u)
  BY <1>1 DEF Same, IInv, TypeInv
<1>3. ev'[t] = "idle" /\ state'[t] = "S_WAIT_START_TIMER" /\ obj'[t] = "alive" /\ persist'[t] = isloop'[t]
  BY <1>1 DEF IInv, TypeInv, TimerInv, TimerOk
<1>4. TypeInv'
  BY <1>1 DEF IInv, TypeInv
<1>5. TimerOk(t)' /\ ~Started(t)'
  BY <1>3 DEF TimerOk, Started
<1> QED
  BY <1>1, <1>2, <1>3, <1>4, <1>5, Disarms

LEMMA DeleteTimerKeeps == ASSUME IInv, NEW t \in Tm, DeleteTimer(t) PROVE IInv' /\ Mapped
<1>1. /\ obj' = [obj EXCEPT ![t] = "freed"] /\ ev' = [ev EXCEPT ![t] = "null"] /\ Unqueue(t)
      /\ UNCHANGED <<persist, state, isloop, cb, ms, due, now, phase, term, running, starts, stops>>
  BY DEF DeleteTimer
<1>2. \A u \in Tm \ {t} : Same(u)
  BY <1>1 DEF Same, IInv, TypeInv
<1>3. ev'[t] = "null" /\ obj'[t] = "freed" /\ persist'[t] = isloop'[t]
  BY <1>1 DEF IInv, TypeInv, TimerInv, TimerOk
<1>4. TypeInv'
  BY <1>1 DEF IInv, TypeInv
<1>5. TimerOk(t)' /\ ~Started(t)'
  BY <1>3 DEF TimerOk, Started
<1> QED
  BY <1>1, <1>2, <1>3, <1>4, <1>5, Disarms

\* Steps that leave the timers and the clock alone.
LEMMA LoopStep ==
    ASSUME IInv, UNCHANGED <<timers, now>>, QueueInv', LoopInv',
           running' = running \/ (running # NoCb /\ running' = NoCb)
    PROVE  IInv' /\ Mapped
<1>1. active' \in Seq(Event)
  BY DEF LoopInv
<1>2. IInv' /\ Armed' = Armed
  BY <1>1, QuietStep
<1>3. CASE running' = running
  BY <1>2, <1>3 DEF Mapped
<1>4. CASE running # NoCb /\ running' = NoCb
  BY <1>2, <1>4 DEF Mapped, Promise!Next, Promise!Return
<1> QED
  BY <1>2, <1>3, <1>4

LEMMA StopDispatchKeeps == ASSUME IInv, StopDispatch PROVE IInv' /\ Mapped
<1>1. /\ stops < MaxStops /\ stops' = stops + 1 /\ active' = active \o <<Exit>>
      /\ UNCHANGED <<timers, now, phase, term, running, starts>>
  <2>1. active \in Seq(Event) /\ Exit \in Event
    BY DEF IInv, LoopInv, Event
  <2>2. Append(active, Exit) = active \o <<Exit>>
    BY <2>1, AppendIsConcat
  <2> QED
    BY <2>2 DEF StopDispatch
<1>2. <<Exit>> \in Seq(Event) /\ Len(<<Exit>>) = 1 /\ \A i \in 1..1 : i = 1 /\ <<Exit>>[i] = Exit
  BY DEF Event
<1>3. Once(<<Exit>>) /\ \A u \in Tm : ~In(<<Exit>>, u)
  BY <1>2, TimerAssumption DEF Once, In
<1>4. active' \in Seq(Event) /\ Once(active') /\ \A u \in Tm : In(active', u) <=> In(active, u)
  BY <1>1, <1>2, <1>3, ConcatFacts
<1>5. QueueInv'
  BY <1>1, <1>4 DEF IInv, QueueInv, timers
<1>6. LoopInv'
  BY <1>1, <1>4, BoundAssumption DEF IInv, LoopInv
<1> QED
  BY <1>1, <1>5, <1>6, LoopStep

LEMMA CbReturnKeeps == ASSUME IInv, CbReturn PROVE IInv' /\ Mapped
<1>1. running # NoCb /\ running' = NoCb /\ UNCHANGED <<timers, now, loop, starts, stops>>
  BY DEF CbReturn
<1>2. QueueInv' /\ LoopInv'
  BY <1>1, BoundAssumption DEF IInv, QueueInv, LoopInv, timers, loop, NoCb
<1> QED
  BY <1>1, <1>2, LoopStep

LEMMA PhaseKeeps ==
    ASSUME IInv, Dispatch \/ DispatchReturn \/ PassEnds
    PROVE  IInv' /\ Mapped
<1>1. /\ UNCHANGED <<timers, now, active, running, starts, stops>>
      /\ phase' \in {"out", "top"} /\ (term' = term \/ term' = "no")
  BY DEF Dispatch, DispatchReturn, PassEnds
<1>2. QueueInv' /\ LoopInv'
  BY <1>1 DEF IInv, QueueInv, LoopInv, timers
<1> QED
  BY <1>1, <1>2, LoopStep

LEMMA ProcessExitKeeps == ASSUME IInv, ProcessExit PROVE IInv' /\ Mapped
<1>1. /\ active # <<>> /\ Head(active) = Exit /\ active' = Tail(active) /\ term' = "yes"
      /\ UNCHANGED <<timers, now, phase, running, starts, stops>>
  BY DEF ProcessExit
<1>2. active' \in Seq(Event) /\ Once(active') /\ \A u \in Tm : In(active', u) <=> In(active, u) /\ u # Exit
  BY <1>1, TailFacts
<1>3. QueueInv'
  BY <1>1, <1>2, TimerAssumption DEF IInv, QueueInv, timers
<1>4. LoopInv'
  BY <1>1, <1>2 DEF IInv, LoopInv
<1> QED
  BY <1>1, <1>3, <1>4, LoopStep

LEMMA ClockKeeps == ASSUME IInv, Clock PROVE IInv' /\ Mapped
<1>1. now < MaxTime /\ now' = now + 1 /\ UNCHANGED <<timers, loop, running, starts, stops>>
  BY DEF Clock
<1>2. now \in Nat /\ now + 1 \in 0..MaxTime /\ now <= now'
  BY <1>1, BoundAssumption DEF IInv, LoopInv
<1>3. TypeInv' /\ QueueInv'
  BY <1>1 DEF IInv, TypeInv, QueueInv, timers, loop
<1>4. LoopInv'
  BY <1>1, <1>2 DEF IInv, LoopInv, loop
<1>5. ASSUME NEW t \in Tm PROVE TimerOk(t)' /\ Armed'[t] = Armed[t]
  <2>1. Started(t)' <=> Started(t)
    BY <1>1 DEF Started, Spent, timers
  <2>2. due[t] \in Nat /\ due'[t] = due[t] /\ ev'[t] = ev[t] /\ TimerOk(t)
    BY <1>1 DEF IInv, TypeInv, TimerInv, timers
  <2>3. ev'[t] = "active" => due'[t] <= now'
    <3>1. ev[t] = "active" => due[t] <= now
      BY <2>2 DEF TimerOk
    <3>2. due[t] \in Nat /\ now \in Nat /\ now' = now + 1
      BY <1>1, <1>2, <2>2
    <3>3. due[t] <= now => due[t] <= now'
      BY <3>2
    <3> QED
      BY <2>2, <3>1, <3>3
  <2>4. TimerOk(t)'
    <3>1. UNCHANGED <<obj, ev, persist, isloop, state>>
      BY <1>1 DEF timers
    <3> QED
      BY <2>1, <2>2, <2>3, <3>1 DEF TimerOk
  <2>5. Armed'[t] = Armed[t]
    BY <1>1, <2>1 DEF Armed, timers
  <2> QED
    BY <2>4, <2>5
<1>6. Promise!Pass
  BY <1>1, <1>5, ArmedSame DEF Promise!Pass
<1> QED
  BY <1>3, <1>4, <1>5, <1>6 DEF IInv, TimerInv, Mapped, Promise!Next

LEMMA TimeoutProcessKeeps == ASSUME IInv, TimeoutProcess PROVE IInv' /\ Mapped
<1> DEFINE D == {t \in Tm : Due(t)}
<1>1. /\ ev' = [t \in Tm |-> IF Due(t) THEN "active" ELSE ev[t]] /\ phase' = "process"
      /\ UNCHANGED <<obj, persist, state, isloop, cb, ms, due, now, term, running, starts, stops>>
  BY DEF TimeoutProcess
<1>2. PICK order \in Orders(D) : active' = active \o order
  BY DEF TimeoutProcess
<1>3. order \in Seq(Event) /\ Once(order) /\ \A u \in Tm : In(order, u) <=> u \in D
  BY <1>2, OrderFacts
<1>4. \A u \in Tm : ~(In(active, u) /\ In(order, u))
  BY <1>3 DEF IInv, QueueInv, Due
<1>5. active' \in Seq(Event) /\ Once(active') /\ \A u \in Tm : In(active', u) <=> In(active, u) \/ In(order, u)
  BY <1>2, <1>3, <1>4, ConcatFacts
<1>6. \A t \in Tm : ev'[t] = "active" <=> ev[t] = "active" \/ t \in D
  BY <1>1 DEF IInv, TypeInv
<1>7. QueueInv'
  BY <1>3, <1>5, <1>6 DEF IInv, QueueInv
<1>8. TypeInv'
  BY <1>1 DEF IInv, TypeInv
<1>9. LoopInv'
  BY <1>1, <1>5 DEF IInv, LoopInv
<1>10. ASSUME NEW t \in Tm PROVE TimerOk(t)' /\ Armed'[t] = Armed[t]
  <2>1. \/ Due(t) /\ ev[t] = "pending" /\ ev'[t] = "active" /\ due[t] <= now
        \/ ~Due(t) /\ ev'[t] = ev[t]
    BY <1>1 DEF Due
  <2>2. Started(t)' <=> Started(t)
    BY <1>1, <2>1 DEF Started, Spent
  <2>3. TimerOk(t)
    BY DEF IInv, TimerInv
  <2>4. TimerOk(t)'
    BY <1>1, <2>1, <2>2, <2>3 DEF TimerOk
  <2>5. Armed'[t] = Armed[t]
    BY <1>1, <2>2 DEF Armed
  <2> QED
    BY <2>4, <2>5
<1>11. Armed' = Armed
  BY <1>10, ArmedSame
<1> QED
  BY <1>1, <1>7, <1>8, <1>9, <1>10, <1>11 DEF IInv, TimerInv, Mapped

LEMMA ProcessTimerKeeps == ASSUME IInv, NEW t \in Tm, ProcessTimer(t) PROVE IInv' /\ Mapped
<1>1. /\ running = NoCb /\ active # <<>> /\ Head(active) = t /\ active' = Tail(active)
      /\ ev' = [ev EXCEPT ![t] = IF Recurs(t) THEN "pending" ELSE "idle"]
      /\ due' = [due EXCEPT ![t] = IF Recurs(t) THEN Later(t) ELSE @]
      /\ state' = IF isloop[t] = "once" THEN [state EXCEPT ![t] = "S_WAIT_START_TIMER"] ELSE state
      /\ running' = cb[t]
      /\ UNCHANGED <<obj, persist, isloop, cb, ms, now, phase, term, starts, stops>>
  BY DEF ProcessTimer, Reschedule, TimerCB
<1>2. active' \in Seq(Event) /\ Once(active') /\ \A u \in Tm : In(active', u) <=> In(active, u) /\ u # t
  BY <1>1, TailFacts
<1>3. ev[t] = "active"
  <2>1. active \in Seq(Event) /\ Len(active) \in Nat /\ Len(active) >= 1
    BY <1>1, EmptySeq, LenProperties DEF IInv, LoopInv
  <2>2. 1 \in 1..Len(active) /\ active[1] = t
    BY <1>1, <2>1
  <2> QED
    BY <2>2 DEF IInv, QueueInv, In
<1>4. \A u \in Tm \ {t} : Same(u)
  BY <1>1 DEF Same, IInv, TypeInv
<1>5. /\ due[t] \in Nat /\ ms[t] \in Nat /\ now \in Nat /\ due[t] <= now /\ Later(t) \in Nat
      /\ persist[t] = isloop[t] /\ isloop[t] \in {"once", "loop"} /\ cb[t] \in 0..MaxStarts
  <2>1. /\ due[t] \in Nat /\ ms[t] \in Nat /\ now \in Nat /\ due[t] <= now
        /\ persist[t] = isloop[t] /\ isloop[t] \in {"once", "loop"} /\ cb[t] \in 0..MaxStarts
    BY <1>3, NumberTypes DEF IInv, TypeInv, LoopInv, TimerInv, TimerOk
  <2>2. Later(t) \in Nat
    BY <2>1 DEF Later
  <2> QED
    BY <2>1, <2>2
<1>6. Started(t) /\ obj[t] = "alive" /\ state[t] = "S_WAIT_TIME_OUT"
  BY <1>3 DEF IInv, TimerInv, TimerOk, Started
<1>7. TypeInv'
  BY <1>1, <1>5 DEF IInv, TypeInv
<1>8. LoopInv'
  BY <1>1, <1>2, <1>5 DEF IInv, LoopInv
<1>9. /\ ev'[t] = (IF Recurs(t) THEN "pending" ELSE "idle")
      /\ due'[t] = (IF Recurs(t) THEN Later(t) ELSE due[t])
      /\ state'[t] = (IF isloop[t] = "once" THEN "S_WAIT_START_TIMER" ELSE "S_WAIT_TIME_OUT")
      /\ obj'[t] = "alive" /\ persist'[t] = persist[t] /\ isloop'[t] = isloop[t]
      /\ ms'[t] = ms[t] /\ cb'[t] = cb[t]
  BY <1>1, <1>6 DEF IInv, TypeInv
<1>10. Started(t)' <=> Recurs(t)
  <2>1. CASE Recurs(t)
    BY <1>5, <1>9, <2>1 DEF Recurs, Started, Spent
  <2>2. CASE ~Recurs(t)
    <3>1. isloop[t] = "once" \/ ms[t] = 0
      BY <1>5, <2>2 DEF Recurs
    <3> QED
      BY <1>5, <1>9, <2>2, <3>1 DEF Started, Spent
  <2> QED
    BY <2>1, <2>2
<1>11. TimerOk(t)'
  BY <1>5, <1>9, <1>10 DEF TimerOk
<1>12. \A u \in Tm \ {t} : TimerOk(u)' /\ Armed'[u] = Armed[u]
  BY <1>1, <1>4, SameOk
<1>13. QueueInv'
  <2>1. \A u \in Tm \ {t} : ev'[u] = ev[u]
    BY <1>4 DEF Same
  <2>2. ev'[t] # "active"
    BY <1>9
  <2> QED
    BY <1>2, <2>1, <2>2 DEF QueueInv, IInv
<1>14. Promise!Fire(t)
  <2>1. Armed[t] = [cb |-> cb[t], loop |-> isloop[t], ms |-> ms[t], due |-> due[t]]
    BY <1>6, ArmedAt
  <2>2. Armed[t] # NotArmed
    BY <1>6, ArmedIsRecord
  <2>3. Promise!Later(Armed[t]) = Later(t)
    BY <2>1 DEF Promise!Later, Later
  <2>4. Armed'[t] = IF Recurs(t)
                    THEN [cb |-> cb[t], loop |-> isloop[t], ms |-> ms[t], due |-> Later(t)]
                    ELSE NotArmed
    <3>1. Armed'[t] = IF Started(t)'
                      THEN [cb |-> cb'[t], loop |-> isloop'[t], ms |-> ms'[t], due |-> due'[t]]
                      ELSE NotArmed
      BY DEF Armed
    <3>2. CASE Recurs(t)
      BY <1>9, <1>10, <3>1, <3>2
    <3>3. CASE ~Recurs(t)
      BY <1>10, <3>1, <3>3
    <3> QED
      BY <3>2, <3>3
  <2>5. Recurs(t) <=> Armed[t].loop = "loop" /\ Armed[t].ms > 0
    BY <1>5, <2>1 DEF Recurs
  <2>6. Armed'[t] = IF Armed[t].loop = "loop" /\ Armed[t].ms > 0
                    THEN [Armed[t] EXCEPT !.due = Promise!Later(Armed[t])]
                    ELSE NotArmed
    <3>1. CASE Recurs(t)
      <4>1. Armed'[t] = [cb |-> cb[t], loop |-> isloop[t], ms |-> ms[t], due |-> Later(t)]
        BY <2>4, <3>1
      <4>2. [Armed[t] EXCEPT !.due = Promise!Later(Armed[t])] = [cb |-> cb[t], loop |-> isloop[t], ms |-> ms[t], due |-> Later(t)]
        BY <2>1, <2>3
      <4> QED
        BY <2>5, <3>1, <4>1, <4>2
    <3>2. CASE ~Recurs(t)
      BY <2>4, <2>5, <3>2
    <3> QED
      BY <3>1, <3>2
  <2>7. Armed' = [Armed EXCEPT ![t] = Armed'[t]]
    BY <1>12, ArmedExcept
  <2>8. Armed' = [Armed EXCEPT ![t] = IF @.loop = "loop" /\ @.ms > 0
                                      THEN [@ EXCEPT !.due = Promise!Later(Armed[t])]
                                      ELSE NotArmed]
    BY <2>6, <2>7 DEF Armed
  <2>9. Armed[t].due <= now /\ running' = Armed[t].cb
    BY <1>1, <1>5, <2>1
  <2> QED
    BY <1>1, <2>2, <2>8, <2>9 DEF Promise!Fire
<1> QED
  BY <1>7, <1>8, <1>11, <1>12, <1>13, <1>14 DEF IInv, TimerInv, Mapped, Promise!Next

LEMMA StutterOk == ASSUME IInv, UNCHANGED vars PROVE IInv' /\ Mapped
<1>1. UNCHANGED <<timers, loop, now, running, starts, stops>>
  BY DEF vars, timers, loop
<1>2. QueueInv' /\ LoopInv'
  BY <1>1 DEF IInv, QueueInv, LoopInv, timers, loop
<1> QED
  BY <1>1, <1>2, LoopStep

LEMMA StepOk == IInv /\ [Next]_vars => IInv' /\ Mapped
<1> SUFFICES ASSUME IInv, [Next]_vars PROVE IInv' /\ Mapped
  OBVIOUS
<1>1. CASE User
  BY <1>1, NewTimerKeeps, UserStartKeeps, UserStopKeeps, DeleteTimerKeeps, StopDispatchKeeps,
     PhaseKeeps DEF User
<1>2. CASE CbReturn
  BY <1>2, CbReturnKeeps
<1>3. CASE Library
  BY <1>3, PhaseKeeps, TimeoutProcessKeeps, ProcessExitKeeps, ProcessTimerKeeps DEF Library
<1>4. CASE Clock
  BY <1>4, ClockKeeps
<1>5. CASE UNCHANGED vars
  BY <1>5, StutterOk
<1> QED
  BY <1>1, <1>2, <1>3, <1>4, <1>5 DEF Next

-----------------------------------------------------------------------------
(* The theorems. *)

\* The inductive invariant: types, the queue, and what holds of each timer.
THEOREM InvCorrect == Spec => []IInv
<1>1. IInv /\ [Next]_vars => IInv'
  BY StepOk
<1> QED
  BY <1>1, InitOk, PTL DEF Spec

\* Whenever user code can look, m_state says what libevent thinks: an event is in
\* the heap, or once in the queue, exactly when its timer is started.
THEOREM StateCorrect == Spec => []StateMatchesEvent
<1>1. ASSUME IInv PROVE TypeOK
  BY <1>1 DEF IInv, TypeInv, LoopInv, TimerInv, TimerOk, TypeOK, Event
<1>2. ASSUME IInv, NEW t \in Tm
      PROVE  Cardinality({i \in 1..Len(active) : active[i] = t}) = (IF ev[t] = "active" THEN 1 ELSE 0)
  <2> DEFINE at == {i \in 1..Len(active) : active[i] = t}
  <2>1. t # Exit /\ Once(active) /\ (ev[t] = "active" <=> In(active, t))
    BY <1>2, TimerAssumption DEF IInv, QueueInv
  <2>2. CASE ev[t] = "active"
    <3>1. PICK i \in 1..Len(active) : active[i] = t
      BY <2>1, <2>2 DEF In
    <3>2. at = {i}
      BY <2>1, <3>1 DEF Once
    <3> QED
      BY <2>2, <3>2, FS_Singleton
  <2>3. CASE ev[t] # "active"
    <3>1. at = {}
      BY <2>1, <2>3 DEF In
    <3> QED
      BY <2>3, <3>1, FS_EmptySet
  <2> QED
    BY <2>2, <2>3
<1>3. IInv => StateMatchesEvent
  BY <1>1, <1>2 DEF StateMatchesEvent, IInv, TimerInv, TimerOk
<1> QED
  BY <1>3, InvCorrect, PTL

\* The timers on the dispatch loop do what TimerPromise says: one that is stopped,
\* restarted or destroyed does not fire, however far its event had come, none
\* fires early, and a loop fires again one interval later.
THEOREM PromiseCorrect == Spec => PromiseSpec
<1>1. Init => Promise!Init
  <2> SUFFICES ASSUME Init PROVE Promise!Init
    OBVIOUS
  <2>1. \A t \in Tm : ~Started(t)
    BY DEF Init, Started
  <2>2. Armed = [t \in Tm |-> NotArmed]
    BY <2>1 DEF Armed
  <2> QED
    BY <2>2 DEF Init, Promise!Init, NoCb
<1>2. IInv /\ [Next]_vars => [Promise!Next]_<<now, Armed, running>>
  BY StepOk DEF Mapped
<1> QED
  BY <1>1, <1>2, InvCorrect, PTL DEF Spec, PromiseSpec, Promise!Spec, Promise!promiseVars
=============================================================================
