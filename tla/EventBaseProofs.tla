-------------------------- MODULE EventBaseProofs ---------------------------
(***************************************************************************)
(* Proofs about EventBase, for any events of each kind, any timeouts and   *)
(* any programs: the queues, flags and counters of the base agree, every   *)
(* signal is accounted for, a freed bufferevent stays quiet, and callbacks *)
(* are told the truth.                                                     *)
(***************************************************************************)
EXTENDS EventBase, DataLemmas

-----------------------------------------------------------------------------
(* The inductive invariant. *)

Base ==
    [flags     : [Ev -> SUBSET Flags],
     res       : [Ev -> SUBSET {"IO", "TIMEOUT", "SIGNAL"}],
     due       : [Ev -> Int], again : [Ev -> Nat], ncalls : [Ev -> Nat],
     active    : Seq(Ev), later : Seq(Ev),
     count     : Int, nactive : Int, deferreds : Nat, term : BOOLEAN]


\* What event_count counts.
Marks(flags) ==
    {p \in (Ev \ {Pipe}) \X (Flags \ {"FINALIZING"}) : p[2] \in flags[p[1]]}

\* Flags, queues and counters agree.
QueueInv(b) ==
    /\ b \in Base
    /\ IsInjective(b.active) /\ IsInjective(b.later)
    /\ \A e \in Ev :
         /\ "ACTIVE" \in b.flags[e] <=> Contains(b.active, e)
         /\ "ACTIVE_LATER" \in b.flags[e] <=> Contains(b.later, e)
         /\ ~("ACTIVE" \in b.flags[e] /\ "ACTIVE_LATER" \in b.flags[e])
    /\ b.nactive = Len(b.active) + Len(b.later)
    /\ b.count = Cardinality(Marks(b.flags))

\* Which kind of event can have which flag.
KindOf(b, e) ==
    /\ "INSERTED" \in b.flags[e] => InMap(e)
    /\ "TIMEOUT" \in b.flags[e] => e \in Timers \cup Ios
    /\ "ACTIVE_LATER" \in b.flags[e] => e \in Deferreds
    /\ "FINALIZING" \in b.flags[e] =>
         e \in Ios /\ b.flags[e] \cap {"INSERTED", "TIMEOUT", "ACTIVE_LATER"} = {}
KindInv(b) == \A e \in Ev : KindOf(b, e)

\* The result of an event whose callback waits is true, r being the events that are
\* ready; an I/O event that is not watched meanwhile waits for its timeout.
CauseOf(b, r, e) ==
    "ACTIVE" \in b.flags[e] /\ "FINALIZING" \notin b.flags[e] =>
        /\ "IO" \in b.res[e] => e \in r
        /\ "TIMEOUT" \in b.res[e] => b.due[e] <= 0
        /\ e \in Ios /\ "INSERTED" \notin b.flags[e] => "TIMEOUT" \in b.res[e]
CauseInv(b, r) == \A e \in Timers \cup Ios : CauseOf(b, r, e)

\* User code runs in the loop or outside of it; signals are reported by the event of
\* the pipe, which the loop runs once per turn.
LoopInv ==
    /\ uses \in Uses /\ phase \in {"out", "top", "process", "freed"}
    /\ running \in Ev \cup {Nobody} /\ turns \in Nat /\ ready \subseteq Ios
    /\ running # Nobody => phase = "process"
    /\ IF running \in Sigs THEN turns >= 1 ELSE turns = 0
    /\ "ACTIVE" \in base.flags[Pipe] => phase = "process"
    /\ \A s \in Sigs :
         "ACTIVE" \in base.flags[s] => phase = "process" /\ "ACTIVE" \notin base.flags[Pipe]

SigInv ==
    /\ pipe \in [Signals -> 0..MaxCaught] /\ owed \in [Sigs -> Nat]
    /\ \A s \in Sigs :
         /\ "ACTIVE" \in base.flags[s] => "INSERTED" \in base.flags[s] /\ base.ncalls[s] >= 1
         /\ running = s => "INSERTED" \in base.flags[s]
         /\ "INSERTED" \in base.flags[s] => owed[s] = pipe[SigNo[s]] + Waiting(s)

\* The life of a bufferevent.
Both(v) == {v.read, v.write}
BevOf(v) ==
    /\ bev[v] \in {"alive", "freeing"} => \A e \in Both(v) : "FINALIZING" \notin base.flags[e]
    /\ bev[v] = "freeing" => running \in Both(v)
    /\ bev[v] \in {"finalizing", "gone"} => running \notin Both(v)
    /\ bev[v] = "finalizing" => \E e \in Both(v) :
         /\ base.flags[e] = {"ACTIVE", "FINALIZING"}
         /\ \A f \in Both(v) \ {e} : base.flags[f] = {}
    /\ bev[v] = "gone" => \A e \in Both(v) : base.flags[e] \subseteq {"FINALIZING"}
BevInv ==
    /\ bev \in [Bevs -> {"alive", "freeing", "finalizing", "gone"}]
    /\ \A v \in Bevs : BevOf(v)

FreedInv ==
    phase = "freed" =>
        /\ base.active = <<>> /\ base.later = <<>>
        /\ \A e \in Ev : base.flags[e] \subseteq {"FINALIZING"}
        /\ \A v \in Bevs : bev[v] \in {"alive", "gone"}

IInv ==
    /\ QueueInv(base) /\ KindInv(base) /\ CauseInv(base, ready)
    /\ LoopInv /\ SigInv /\ BevInv /\ FreedInv

-----------------------------------------------------------------------------
(* The functions of event.c that touch flags, queues and counters.  Each      *)
(* leaves the three in agreement, and Rest says what it leaves alone.         *)

Rest(n, b) ==
    /\ n.res = b.res /\ n.due = b.due /\ n.again = b.again /\ n.ncalls = b.ncalls
    /\ n.term = b.term

\* n is b but for the flags of e, and for the queues and counters that go with them.
Becomes(n, b, e, S) == QueueInv(n) /\ Rest(n, b) /\ n.flags = [b.flags EXCEPT ![e] = S]

LEMMA MarksFinite ==
    ASSUME NEW flags \in [Ev -> SUBSET Flags]
    PROVE  IsFiniteSet(Marks(flags)) /\ Cardinality(Marks(flags)) \in Nat
<1>1. IsFiniteSet(Ev) /\ IsFiniteSet(Flags)
  <2>1. IsFiniteSet({}) /\ IsFiniteSet({} \cup {"INSERTED"})
        /\ IsFiniteSet({} \cup {"INSERTED"} \cup {"TIMEOUT"})
    BY FS_EmptySet, FS_AddElement
  <2>2. IsFiniteSet({} \cup {"INSERTED"} \cup {"TIMEOUT"} \cup {"ACTIVE"})
    BY <2>1, FS_AddElement
  <2>3. IsFiniteSet({} \cup {"INSERTED"} \cup {"TIMEOUT"} \cup {"ACTIVE"} \cup {"ACTIVE_LATER"})
    BY <2>2, FS_AddElement
  <2>4. IsFiniteSet({} \cup {"INSERTED"} \cup {"TIMEOUT"} \cup {"ACTIVE"} \cup {"ACTIVE_LATER"}
                       \cup {"FINALIZING"})
    BY <2>3, FS_AddElement
  <2>5. Flags = {} \cup {"INSERTED"} \cup {"TIMEOUT"} \cup {"ACTIVE"} \cup {"ACTIVE_LATER"}
                   \cup {"FINALIZING"}
    BY DEF Flags
  <2> QED
    BY <2>4, <2>5, KindsAssumption
<1>2. IsFiniteSet(Ev \X Flags)
  BY <1>1, FS_Product
<1>3. Marks(flags) \in SUBSET (Ev \X Flags)
  BY DEF Marks
<1> QED
  BY <1>2, <1>3, FS_Subset, FS_CardinalityType

\* A flag more, a flag less: event_count follows.
LEMMA MarkMore ==
    ASSUME NEW flags \in [Ev -> SUBSET Flags], NEW e \in Ev,
           NEW f \in Flags \ {"FINALIZING"}, f \notin flags[e],
           NEW more, more = [flags EXCEPT ![e] = @ \cup {f}]
    PROVE  /\ more \in [Ev -> SUBSET Flags]
           /\ Cardinality(Marks(more)) = Cardinality(Marks(flags)) + One(e)
<1>1. more \in [Ev -> SUBSET Flags]
  OBVIOUS
<1>2. CASE e = Pipe
  <2>1. Marks(more) = Marks(flags)
    BY <1>2 DEF Marks
  <2> QED
    BY <1>1, <1>2, <2>1, MarksFinite DEF One
<1>3. CASE e # Pipe
  <2>1. Marks(more) = Marks(flags) \cup {<<e, f>>}
    <3>1. ASSUME NEW p \in (Ev \ {Pipe}) \X (Flags \ {"FINALIZING"})
          PROVE  p[2] \in more[p[1]] <=> p[2] \in flags[p[1]] \/ p = <<e, f>>
      OBVIOUS
    <3>2. <<e, f>> \in (Ev \ {Pipe}) \X (Flags \ {"FINALIZING"})
      BY <1>3
    <3> QED
      BY <3>1, <3>2 DEF Marks
  <2>2. <<e, f>> \notin Marks(flags)
    BY DEF Marks
  <2> QED
    BY <1>1, <1>3, <2>1, <2>2, MarksFinite, FS_AddElement DEF One
<1> QED
  BY <1>2, <1>3

LEMMA MarkLess ==
    ASSUME NEW flags \in [Ev -> SUBSET Flags], NEW e \in Ev,
           NEW f \in Flags \ {"FINALIZING"}, f \in flags[e],
           NEW less, less = [flags EXCEPT ![e] = @ \ {f}]
    PROVE  /\ less \in [Ev -> SUBSET Flags]
           /\ Cardinality(Marks(less)) = Cardinality(Marks(flags)) - One(e)
<1>1. less \in [Ev -> SUBSET Flags] /\ flags = [less EXCEPT ![e] = @ \cup {f}] /\ f \notin less[e]
  OBVIOUS
<1>2. Cardinality(Marks(flags)) = Cardinality(Marks(less)) + One(e)
  BY <1>1, MarkMore
<1> QED
  BY <1>1, <1>2, MarksFinite DEF One

LEMMA QueueTypes ==
    ASSUME NEW b, QueueInv(b)
    PROVE  /\ b \in Base /\ b.flags \in [Ev -> SUBSET Flags]
           /\ b.active \in Seq(Ev) /\ b.later \in Seq(Ev)
           /\ IsInjective(b.active) /\ IsInjective(b.later)
           /\ Len(b.active) \in Nat /\ Len(b.later) \in Nat
           /\ b.nactive = Len(b.active) + Len(b.later) /\ b.count = Cardinality(Marks(b.flags))
           /\ b.count \in Int /\ b.nactive \in Int
           /\ \A e \in Ev : /\ "ACTIVE" \in b.flags[e] <=> Contains(b.active, e)
                            /\ "ACTIVE_LATER" \in b.flags[e] <=> Contains(b.later, e)
                            /\ ~("ACTIVE" \in b.flags[e] /\ "ACTIVE_LATER" \in b.flags[e])
  BY LenProperties DEF QueueInv, Base

LEMMA CountedFlags == {"INSERTED", "TIMEOUT", "ACTIVE", "ACTIVE_LATER"} = Flags \ {"FINALIZING"}
  BY DEF Flags

LEMMA Sums == \A x, y \in Nat : (x + y) + 1 = (x + 1) + y /\ (x + y) + 1 = x + (y + 1)
                              /\ (x + y) - 1 = (x - 1) + y /\ (x + y) - 1 = x + (y - 1)
  OBVIOUS

LEMMA Counters ==
    ASSUME NEW b, QueueInv(b), NEW e
    PROVE  /\ b.count + One(e) \in Int /\ b.count - One(e) \in Int
           /\ b.nactive + 1 \in Int /\ b.nactive - 1 \in Int
<1>1. b.count \in Int /\ b.nactive \in Int
  BY QueueTypes
<1>4. One(e) \in Int
  BY DEF One
<1>2. \A x, y \in Int : x + y \in Int /\ x - y \in Int
  OBVIOUS
<1>3. 1 \in Int
  OBVIOUS
<1> QED
  BY <1>1, <1>2, <1>3, <1>4, Zenon

LEMMA InsertActiveIs ==
    ASSUME NEW b, QueueInv(b), NEW e \in Ev, "ACTIVE_LATER" \notin b.flags[e]
    PROVE  Becomes(InsertActive(b, e), b, e, b.flags[e] \cup {"ACTIVE"})
<1> DEFINE n == InsertActive(b, e)
<1>0. b \in Base /\ b.flags \in [Ev -> SUBSET Flags]
  BY QueueTypes
<1>1. CASE "ACTIVE" \in b.flags[e]
  <2>1. n = b
    BY <1>1 DEF InsertActive
  <2>2. b.flags = [b.flags EXCEPT ![e] = @ \cup {"ACTIVE"}]
    BY <1>0, <1>1
  <2> QED
    BY <2>1, <2>2 DEF Rest, Becomes
<1>2. CASE "ACTIVE" \notin b.flags[e]
  <2>1. /\ Append(b.active, e) \in Seq(Ev) /\ IsInjective(Append(b.active, e))
        /\ Len(Append(b.active, e)) = Len(b.active) + 1
        /\ \A u : Contains(Append(b.active, e), u) <=> Contains(b.active, u) \/ u = e
    <3>1. b.active \in Seq(Ev) /\ IsInjective(b.active) /\ ~Contains(b.active, e)
      BY <1>2, QueueTypes
    <3> QED
      BY <3>1, AppendQueue
  <2>2. b.count + One(e) \in Int /\ b.nactive + 1 \in Int
    BY Counters
  <2>3. /\ n.flags = [b.flags EXCEPT ![e] = @ \cup {"ACTIVE"}]
        /\ n.active = Append(b.active, e) /\ n.later = b.later
        /\ n.count = b.count + One(e) /\ n.nactive = b.nactive + 1
        /\ Rest(n, b)
    BY <1>0, <1>2 DEF InsertActive, Base, Rest
  <2>4. n \in Base
    BY <1>0, <1>2, <2>1, <2>2 DEF InsertActive, Base, Flags
  <2> HIDE DEF n
  <2>5. Cardinality(Marks(n.flags)) = Cardinality(Marks(b.flags)) + One(e)
    BY <1>0, <1>2, <2>3, CountedFlags, MarkMore
  <2>6. ASSUME NEW u \in Ev
        PROVE  /\ "ACTIVE" \in n.flags[u] <=> Contains(n.active, u)
               /\ "ACTIVE_LATER" \in n.flags[u] <=> Contains(n.later, u)
               /\ ~("ACTIVE" \in n.flags[u] /\ "ACTIVE_LATER" \in n.flags[u])
    <3>1. n.flags[u] = IF u = e THEN b.flags[u] \cup {"ACTIVE"} ELSE b.flags[u]
      BY <1>0, <2>3
    <3>2. Contains(n.active, u) <=> Contains(b.active, u) \/ u = e
      BY <2>1, <2>3
    <3>3. /\ "ACTIVE" \in b.flags[u] <=> Contains(b.active, u)
          /\ "ACTIVE_LATER" \in b.flags[u] <=> Contains(b.later, u)
          /\ ~("ACTIVE" \in b.flags[u] /\ "ACTIVE_LATER" \in b.flags[u])
      BY QueueTypes
    <3> QED
      BY <3>1, <3>2, <3>3, <2>3
  <2>7. n.nactive = Len(n.active) + Len(n.later)
    <3>1. /\ Len(b.active) \in Nat /\ Len(b.later) \in Nat
          /\ b.nactive = Len(b.active) + Len(b.later)
      BY QueueTypes, Zenon
    <3>2. (Len(b.active) + Len(b.later)) + 1 = (Len(b.active) + 1) + Len(b.later)
      BY <3>1, Sums, Zenon
    <3> QED
      BY <2>1, <2>3, <3>1, <3>2, Zenon
  <2>8. IsInjective(n.active) /\ IsInjective(n.later) /\ n.count = Cardinality(Marks(n.flags))
    BY <2>1, <2>3, <2>5, QueueTypes
  <2>9. QueueInv(n)
    BY <2>4, <2>6, <2>7, <2>8 DEF QueueInv
  <2> QED
    BY <2>3, <2>9 DEF n, Becomes
<1> QED
  BY <1>1, <1>2

LEMMA RemoveActiveIs ==
    ASSUME NEW b, QueueInv(b), NEW e \in Ev, "ACTIVE" \in b.flags[e]
    PROVE  Becomes(RemoveActive(b, e), b, e, b.flags[e] \ {"ACTIVE"})
<1> DEFINE n == RemoveActive(b, e)
<1>0. b \in Base /\ b.flags \in [Ev -> SUBSET Flags]
  BY QueueTypes
<1>1. /\ RemoveFirst(b.active, e) \in Seq(Ev) /\ IsInjective(RemoveFirst(b.active, e))
      /\ Len(RemoveFirst(b.active, e)) = Len(b.active) - 1
      /\ \A u : Contains(RemoveFirst(b.active, e), u) <=> Contains(b.active, u) /\ u # e
  <2>1. b.active \in Seq(Ev) /\ IsInjective(b.active) /\ Contains(b.active, e)
    BY QueueTypes
  <2> QED
    BY <2>1, RemoveFirstFacts
<1>2. b.count - One(e) \in Int /\ b.nactive - 1 \in Int
  BY Counters
<1>3. /\ n.flags = [b.flags EXCEPT ![e] = @ \ {"ACTIVE"}]
      /\ n.active = RemoveFirst(b.active, e) /\ n.later = b.later
      /\ n.count = b.count - One(e) /\ n.nactive = b.nactive - 1
      /\ Rest(n, b)
  BY <1>0 DEF RemoveActive, Base, Rest
<1>4. n \in Base
  BY <1>0, <1>1, <1>2 DEF RemoveActive, Base, Flags
<1> HIDE DEF n
<1>5. Cardinality(Marks(n.flags)) = Cardinality(Marks(b.flags)) - One(e)
  BY <1>0, <1>3, CountedFlags, MarkLess
<1>6. ASSUME NEW u \in Ev
      PROVE  /\ "ACTIVE" \in n.flags[u] <=> Contains(n.active, u)
             /\ "ACTIVE_LATER" \in n.flags[u] <=> Contains(n.later, u)
             /\ ~("ACTIVE" \in n.flags[u] /\ "ACTIVE_LATER" \in n.flags[u])
  <2>1. n.flags[u] = IF u = e THEN b.flags[u] \ {"ACTIVE"} ELSE b.flags[u]
    BY <1>0, <1>3
  <2>2. Contains(n.active, u) <=> Contains(b.active, u) /\ u # e
    BY <1>1, <1>3
  <2>3. /\ "ACTIVE" \in b.flags[u] <=> Contains(b.active, u)
        /\ "ACTIVE_LATER" \in b.flags[u] <=> Contains(b.later, u)
        /\ ~("ACTIVE" \in b.flags[u] /\ "ACTIVE_LATER" \in b.flags[u])
    BY QueueTypes
  <2> QED
    BY <2>1, <2>2, <2>3, <1>3
<1>7. n.nactive = Len(n.active) + Len(n.later)
  <2>1. /\ Len(b.active) \in Nat /\ Len(b.later) \in Nat
        /\ b.nactive = Len(b.active) + Len(b.later)
    BY QueueTypes, Zenon
  <2>2. (Len(b.active) + Len(b.later)) - 1 = (Len(b.active) - 1) + Len(b.later)
    BY <2>1, Sums, Zenon
  <2> QED
    BY <1>1, <1>3, <2>1, <2>2, Zenon
<1>8. IsInjective(n.active) /\ IsInjective(n.later) /\ n.count = Cardinality(Marks(n.flags))
  BY <1>1, <1>3, <1>5, QueueTypes
<1>9. QueueInv(n)
  BY <1>4, <1>6, <1>7, <1>8 DEF QueueInv
<1> QED
  BY <1>3, <1>9 DEF n, Becomes

LEMMA RemoveLaterIs ==
    ASSUME NEW b, QueueInv(b), NEW e \in Ev, "ACTIVE_LATER" \in b.flags[e]
    PROVE  Becomes(RemoveLater(b, e), b, e, b.flags[e] \ {"ACTIVE_LATER"})
<1> DEFINE n == RemoveLater(b, e)
<1>0. b \in Base /\ b.flags \in [Ev -> SUBSET Flags]
  BY QueueTypes
<1>1. /\ RemoveFirst(b.later, e) \in Seq(Ev) /\ IsInjective(RemoveFirst(b.later, e))
      /\ Len(RemoveFirst(b.later, e)) = Len(b.later) - 1
      /\ \A u : Contains(RemoveFirst(b.later, e), u) <=> Contains(b.later, u) /\ u # e
  <2>1. b.later \in Seq(Ev) /\ IsInjective(b.later) /\ Contains(b.later, e)
    BY QueueTypes
  <2> QED
    BY <2>1, RemoveFirstFacts
<1>2. b.count - One(e) \in Int /\ b.nactive - 1 \in Int
  BY Counters
<1>3. /\ n.flags = [b.flags EXCEPT ![e] = @ \ {"ACTIVE_LATER"}]
      /\ n.active = b.active /\ n.later = RemoveFirst(b.later, e)
      /\ n.count = b.count - One(e) /\ n.nactive = b.nactive - 1
      /\ Rest(n, b)
  BY <1>0 DEF RemoveLater, Base, Rest
<1>4. n \in Base
  BY <1>0, <1>1, <1>2 DEF RemoveLater, Base, Flags
<1> HIDE DEF n
<1>5. Cardinality(Marks(n.flags)) = Cardinality(Marks(b.flags)) - One(e)
  BY <1>0, <1>3, CountedFlags, MarkLess
<1>6. ASSUME NEW u \in Ev
      PROVE  /\ "ACTIVE" \in n.flags[u] <=> Contains(n.active, u)
             /\ "ACTIVE_LATER" \in n.flags[u] <=> Contains(n.later, u)
             /\ ~("ACTIVE" \in n.flags[u] /\ "ACTIVE_LATER" \in n.flags[u])
  <2>1. n.flags[u] = IF u = e THEN b.flags[u] \ {"ACTIVE_LATER"} ELSE b.flags[u]
    BY <1>0, <1>3
  <2>2. Contains(n.later, u) <=> Contains(b.later, u) /\ u # e
    BY <1>1, <1>3
  <2>3. /\ "ACTIVE" \in b.flags[u] <=> Contains(b.active, u)
        /\ "ACTIVE_LATER" \in b.flags[u] <=> Contains(b.later, u)
        /\ ~("ACTIVE" \in b.flags[u] /\ "ACTIVE_LATER" \in b.flags[u])
    BY QueueTypes
  <2> QED
    BY <2>1, <2>2, <2>3, <1>3
<1>7. n.nactive = Len(n.active) + Len(n.later)
  <2>1. /\ Len(b.active) \in Nat /\ Len(b.later) \in Nat
        /\ b.nactive = Len(b.active) + Len(b.later)
    BY QueueTypes, Zenon
  <2>2. (Len(b.active) + Len(b.later)) - 1 = Len(b.active) + (Len(b.later) - 1)
    BY <2>1, Sums, Zenon
  <2> QED
    BY <1>1, <1>3, <2>1, <2>2, Zenon
<1>8. IsInjective(n.active) /\ IsInjective(n.later) /\ n.count = Cardinality(Marks(n.flags))
  BY <1>1, <1>3, <1>5, QueueTypes
<1>9. QueueInv(n)
  BY <1>4, <1>6, <1>7, <1>8 DEF QueueInv
<1> QED
  BY <1>3, <1>9 DEF n, Becomes

LEMMA InsertLaterIs ==
    ASSUME NEW b, QueueInv(b), NEW e \in Ev, b.flags[e] \cap {"ACTIVE", "ACTIVE_LATER"} = {}
    PROVE  Becomes(InsertLater(b, e), b, e, b.flags[e] \cup {"ACTIVE_LATER"})
<1> DEFINE n == InsertLater(b, e)
<1>0. b \in Base /\ b.flags \in [Ev -> SUBSET Flags]
  BY QueueTypes
<1>1. /\ Append(b.later, e) \in Seq(Ev) /\ IsInjective(Append(b.later, e))
      /\ Len(Append(b.later, e)) = Len(b.later) + 1
      /\ \A u : Contains(Append(b.later, e), u) <=> Contains(b.later, u) \/ u = e
  <2>1. b.later \in Seq(Ev) /\ IsInjective(b.later) /\ ~Contains(b.later, e)
    BY QueueTypes
  <2> QED
    BY <2>1, AppendQueue
<1>2. b.count + One(e) \in Int /\ b.nactive + 1 \in Int
  BY Counters
<1>3. /\ n.flags = [b.flags EXCEPT ![e] = @ \cup {"ACTIVE_LATER"}]
      /\ n.active = b.active /\ n.later = Append(b.later, e)
      /\ n.count = b.count + One(e) /\ n.nactive = b.nactive + 1
      /\ Rest(n, b)
  BY <1>0 DEF InsertLater, Base, Rest
<1>4. n \in Base
  BY <1>0, <1>1, <1>2 DEF InsertLater, Base, Flags
<1> HIDE DEF n
<1>5. Cardinality(Marks(n.flags)) = Cardinality(Marks(b.flags)) + One(e)
  <2>1. "ACTIVE_LATER" \notin b.flags[e] /\ "ACTIVE_LATER" \in Flags \ {"FINALIZING"}
    BY DEF Flags
  <2> QED
    BY <1>0, <1>3, <2>1, MarkMore
<1>6. ASSUME NEW u \in Ev
      PROVE  /\ "ACTIVE" \in n.flags[u] <=> Contains(n.active, u)
             /\ "ACTIVE_LATER" \in n.flags[u] <=> Contains(n.later, u)
             /\ ~("ACTIVE" \in n.flags[u] /\ "ACTIVE_LATER" \in n.flags[u])
  <2>1. n.flags[u] = IF u = e THEN b.flags[u] \cup {"ACTIVE_LATER"} ELSE b.flags[u]
    BY <1>0, <1>3
  <2>2. Contains(n.later, u) <=> Contains(b.later, u) \/ u = e
    BY <1>1, <1>3
  <2>3. /\ "ACTIVE" \in b.flags[u] <=> Contains(b.active, u)
        /\ "ACTIVE_LATER" \in b.flags[u] <=> Contains(b.later, u)
        /\ ~("ACTIVE" \in b.flags[u] /\ "ACTIVE_LATER" \in b.flags[u])
    BY QueueTypes
  <2> QED
    BY <2>1, <2>2, <2>3, <1>3
<1>7. n.nactive = Len(n.active) + Len(n.later)
  <2>1. /\ Len(b.active) \in Nat /\ Len(b.later) \in Nat
        /\ b.nactive = Len(b.active) + Len(b.later)
    BY QueueTypes, Zenon
  <2>2. (Len(b.active) + Len(b.later)) + 1 = Len(b.active) + (Len(b.later) + 1)
    BY <2>1, Sums, Zenon
  <2> QED
    BY <1>1, <1>3, <2>1, <2>2, Zenon
<1>8. IsInjective(n.active) /\ IsInjective(n.later) /\ n.count = Cardinality(Marks(n.flags))
  BY <1>1, <1>3, <1>5, QueueTypes
<1>9. QueueInv(n)
  BY <1>4, <1>6, <1>7, <1>8 DEF QueueInv
<1> QED
  BY <1>3, <1>9 DEF n, Becomes

LEMMA SetFlagIs ==
    ASSUME NEW b, QueueInv(b), NEW e \in Ev, NEW f \in {"INSERTED", "TIMEOUT"}, f \notin b.flags[e]
    PROVE  Becomes(SetFlag(b, e, f), b, e, b.flags[e] \cup {f})
<1> DEFINE n == SetFlag(b, e, f)
<1>0. b \in Base /\ b.flags \in [Ev -> SUBSET Flags] /\ f \in Flags \ {"FINALIZING"}
  BY QueueTypes DEF Flags
<1>1. b.count + One(e) \in Int
  BY Counters
<1>2. /\ n.flags = [b.flags EXCEPT ![e] = @ \cup {f}]
      /\ n.active = b.active /\ n.later = b.later
      /\ n.count = b.count + One(e) /\ n.nactive = b.nactive
      /\ Rest(n, b)
  BY <1>0 DEF SetFlag, Base, Rest
<1>3. n \in Base
  BY <1>0, <1>1 DEF SetFlag, Base, Flags
<1> HIDE DEF n
<1>4. Cardinality(Marks(n.flags)) = Cardinality(Marks(b.flags)) + One(e)
  BY <1>0, <1>2, MarkMore
<1>5. ASSUME NEW u \in Ev
      PROVE  /\ "ACTIVE" \in n.flags[u] <=> "ACTIVE" \in b.flags[u]
             /\ "ACTIVE_LATER" \in n.flags[u] <=> "ACTIVE_LATER" \in b.flags[u]
  BY <1>0, <1>2
<1>6. n.count = Cardinality(Marks(n.flags))
  BY <1>2, <1>4, QueueTypes
<1>7. /\ IsInjective(n.active) /\ IsInjective(n.later)
      /\ n.nactive = Len(n.active) + Len(n.later)
  <2>1. /\ IsInjective(b.active) /\ IsInjective(b.later)
        /\ b.nactive = Len(b.active) + Len(b.later)
    BY QueueTypes
  <2> QED
    BY <1>2, <2>1, Zenon
<1>8. ASSUME NEW u \in Ev
      PROVE  /\ "ACTIVE" \in n.flags[u] <=> Contains(n.active, u)
             /\ "ACTIVE_LATER" \in n.flags[u] <=> Contains(n.later, u)
             /\ ~("ACTIVE" \in n.flags[u] /\ "ACTIVE_LATER" \in n.flags[u])
  <2>1. /\ "ACTIVE" \in b.flags[u] <=> Contains(b.active, u)
        /\ "ACTIVE_LATER" \in b.flags[u] <=> Contains(b.later, u)
        /\ ~("ACTIVE" \in b.flags[u] /\ "ACTIVE_LATER" \in b.flags[u])
    BY QueueTypes
  <2> QED
    BY <1>2, <1>5, <2>1
<1>9. QueueInv(n)
  BY <1>3, <1>6, <1>7, <1>8 DEF QueueInv
<1> QED
  BY <1>2, <1>9 DEF n, Becomes

LEMMA ClearFlagIs ==
    ASSUME NEW b, QueueInv(b), NEW e \in Ev, NEW f \in {"INSERTED", "TIMEOUT"}, f \in b.flags[e]
    PROVE  Becomes(ClearFlag(b, e, f), b, e, b.flags[e] \ {f})
<1> DEFINE n == ClearFlag(b, e, f)
<1>0. b \in Base /\ b.flags \in [Ev -> SUBSET Flags] /\ f \in Flags \ {"FINALIZING"}
  BY QueueTypes DEF Flags
<1>1. b.count - One(e) \in Int
  BY Counters
<1>2. /\ n.flags = [b.flags EXCEPT ![e] = @ \ {f}]
      /\ n.active = b.active /\ n.later = b.later
      /\ n.count = b.count - One(e) /\ n.nactive = b.nactive
      /\ Rest(n, b)
  BY <1>0 DEF ClearFlag, Base, Rest
<1>3. n \in Base
  BY <1>0, <1>1 DEF ClearFlag, Base, Flags
<1> HIDE DEF n
<1>4. Cardinality(Marks(n.flags)) = Cardinality(Marks(b.flags)) - One(e)
  BY <1>0, <1>2, MarkLess
<1>5. ASSUME NEW u \in Ev
      PROVE  /\ "ACTIVE" \in n.flags[u] <=> "ACTIVE" \in b.flags[u]
             /\ "ACTIVE_LATER" \in n.flags[u] <=> "ACTIVE_LATER" \in b.flags[u]
  BY <1>0, <1>2
<1>6. n.count = Cardinality(Marks(n.flags))
  BY <1>2, <1>4, QueueTypes
<1>7. /\ IsInjective(n.active) /\ IsInjective(n.later)
      /\ n.nactive = Len(n.active) + Len(n.later)
  <2>1. /\ IsInjective(b.active) /\ IsInjective(b.later)
        /\ b.nactive = Len(b.active) + Len(b.later)
    BY QueueTypes
  <2> QED
    BY <1>2, <2>1, Zenon
<1>8. ASSUME NEW u \in Ev
      PROVE  /\ "ACTIVE" \in n.flags[u] <=> Contains(n.active, u)
             /\ "ACTIVE_LATER" \in n.flags[u] <=> Contains(n.later, u)
             /\ ~("ACTIVE" \in n.flags[u] /\ "ACTIVE_LATER" \in n.flags[u])
  <2>1. /\ "ACTIVE" \in b.flags[u] <=> Contains(b.active, u)
        /\ "ACTIVE_LATER" \in b.flags[u] <=> Contains(b.later, u)
        /\ ~("ACTIVE" \in b.flags[u] /\ "ACTIVE_LATER" \in b.flags[u])
    BY QueueTypes
  <2> QED
    BY <1>2, <1>5, <2>1
<1>9. QueueInv(n)
  BY <1>3, <1>6, <1>7, <1>8 DEF QueueInv
<1> QED
  BY <1>2, <1>9 DEF n, Becomes

\* What waits for the next turn is as many callbacks before and after.
LEMMA MarksMoved ==
    ASSUME NEW F \in [Ev -> SUBSET Flags],
           \A u \in Ev : ~("ACTIVE" \in F[u] /\ "ACTIVE_LATER" \in F[u]),
           NEW G, G = [u \in Ev |-> IF "ACTIVE_LATER" \in F[u]
                                    THEN (F[u] \ {"ACTIVE_LATER"}) \cup {"ACTIVE"}
                                    ELSE F[u]]
    PROVE  G \in [Ev -> SUBSET Flags] /\ Cardinality(Marks(G)) = Cardinality(Marks(F))
<1> DEFINE h == [p \in Marks(F) |-> IF p[2] = "ACTIVE_LATER" THEN <<p[1], "ACTIVE">> ELSE p]
<1>1. G \in [Ev -> SUBSET Flags]
  BY DEF Flags
<1>2. /\ \A p \in Marks(F) : /\ p[1] \in Ev \ {Pipe} /\ p[2] \in Flags \ {"FINALIZING"}
                             /\ p[2] \in F[p[1]] /\ p = <<p[1], p[2]>>
      /\ \A p \in Marks(G) : /\ p[1] \in Ev \ {Pipe} /\ p[2] \in Flags \ {"FINALIZING"}
                             /\ p[2] \in G[p[1]] /\ p = <<p[1], p[2]>>
      /\ \A u \in Ev \ {Pipe}, f \in Flags \ {"FINALIZING"} :
            (f \in F[u] => <<u, f>> \in Marks(F)) /\ (f \in G[u] => <<u, f>> \in Marks(G))
  BY DEF Marks
<1>3. /\ "ACTIVE" \in Flags \ {"FINALIZING"} /\ "ACTIVE_LATER" \in Flags \ {"FINALIZING"}
  BY DEF Flags
<1>4. ASSUME NEW p \in Marks(F) PROVE h[p] \in Marks(G)
  <2>1. CASE p[2] = "ACTIVE_LATER"
    <3>1. "ACTIVE" \in G[p[1]] /\ p[1] \in Ev \ {Pipe}
      BY <1>2, <2>1
    <3>2. h[p] = <<p[1], "ACTIVE">>
      BY <2>1
    <3> QED
      BY <1>2, <1>3, <3>1, <3>2
  <2>2. CASE p[2] # "ACTIVE_LATER"
    <3>1. p[2] \in G[p[1]] /\ p[1] \in Ev \ {Pipe} /\ p[2] \in Flags \ {"FINALIZING"} /\ p = <<p[1], p[2]>>
      BY <1>2, <2>2
    <3>2. h[p] = p
      BY <2>2
    <3> QED
      BY <1>2, <3>1, <3>2
  <2> QED
    BY <2>1, <2>2
<1>5. ASSUME NEW p \in Marks(F), NEW q \in Marks(F), h[p] = h[q] PROVE p = q
  <2>1. /\ p = <<p[1], p[2]>> /\ q = <<q[1], q[2]>> /\ p[2] \in F[p[1]] /\ q[2] \in F[q[1]]
        /\ p[1] \in Ev /\ q[1] \in Ev
    BY <1>2
  <2>2. /\ h[p] = IF p[2] = "ACTIVE_LATER" THEN <<p[1], "ACTIVE">> ELSE p
        /\ h[q] = IF q[2] = "ACTIVE_LATER" THEN <<q[1], "ACTIVE">> ELSE q
    OBVIOUS
  <2> HIDE DEF h
  <2>7. \A u, v, f, g : <<u, f>> = <<v, g>> => u = v /\ f = g
    OBVIOUS
  <2>3. CASE p[2] = "ACTIVE_LATER" /\ q[2] = "ACTIVE_LATER"
    <3>1. <<p[1], "ACTIVE">> = <<q[1], "ACTIVE">>
      BY <1>5, <2>2, <2>3
    <3>2. p[1] = q[1]
      BY <2>7, <3>1
    <3> QED
      BY <2>1, <2>3, <3>2
  <2>4. CASE p[2] # "ACTIVE_LATER" /\ q[2] # "ACTIVE_LATER"
    BY <1>5, <2>2, <2>4
  <2>5. CASE p[2] = "ACTIVE_LATER" /\ q[2] # "ACTIVE_LATER"
    <3>1. <<p[1], "ACTIVE">> = <<q[1], q[2]>>
      BY <1>5, <2>1, <2>2, <2>5
    <3>2. q[1] = p[1] /\ q[2] = "ACTIVE"
      BY <2>7, <3>1
    <3> QED
      BY <2>1, <2>5, <3>2
  <2>6. CASE p[2] # "ACTIVE_LATER" /\ q[2] = "ACTIVE_LATER"
    <3>1. <<p[1], p[2]>> = <<q[1], "ACTIVE">>
      BY <1>5, <2>1, <2>2, <2>6
    <3>2. q[1] = p[1] /\ p[2] = "ACTIVE"
      BY <2>7, <3>1
    <3> QED
      BY <2>1, <2>6, <3>2
  <2> QED
    BY <2>3, <2>4, <2>5, <2>6
<1>6. ASSUME NEW p \in Marks(G) PROVE \E q \in Marks(F) : h[q] = p
  <2>1. /\ p = <<p[1], p[2]>> /\ p[1] \in Ev \ {Pipe} /\ p[2] \in Flags \ {"FINALIZING"}
        /\ p[2] \in G[p[1]]
    BY <1>2
  <2>2. CASE p[2] \in F[p[1]] /\ p[2] # "ACTIVE_LATER"
    <3>1. p \in Marks(F) /\ h[p] = p
      BY <1>2, <2>1, <2>2
    <3> QED
      BY <3>1
  <2>3. CASE p[2] \notin F[p[1]]
    <3>1. p[2] = "ACTIVE" /\ "ACTIVE_LATER" \in F[p[1]]
      BY <2>1, <2>3
    <3>2. <<p[1], "ACTIVE_LATER">> \in Marks(F)
      BY <1>2, <1>3, <2>1, <3>1
    <3>3. h[<<p[1], "ACTIVE_LATER">>] = <<p[1], "ACTIVE">>
      BY <3>2
    <3> QED
      BY <2>1, <3>1, <3>2, <3>3
  <2>4. p[2] # "ACTIVE_LATER"
    BY <2>1
  <2> QED
    BY <2>2, <2>3, <2>4
<1>7. h \in Bijection(Marks(F), Marks(G))
  <2>1. h \in [Marks(F) -> Marks(G)]
    BY <1>4
  <2> QED
    BY <1>5, <1>6, <2>1 DEF Bijection, Injection, Surjection, IsInjective
<1> HIDE DEF h
<1>8. ExistsBijection(Marks(F), Marks(G))
  BY <1>7 DEF ExistsBijection
<1> QED
  BY <1>1, <1>8, MarksFinite, FS_Bijection

LEMMA MakeLaterActiveIs ==
    ASSUME NEW b, QueueInv(b)
    PROVE  /\ QueueInv(MakeLaterActive(b)) /\ Rest(MakeLaterActive(b), b)
           /\ MakeLaterActive(b).flags =
                  [e \in Ev |-> IF "ACTIVE_LATER" \in b.flags[e]
                                THEN (b.flags[e] \ {"ACTIVE_LATER"}) \cup {"ACTIVE"}
                                ELSE b.flags[e]]
<1> DEFINE n == MakeLaterActive(b)
           D == {i \in DOMAIN b.later : b.later[i] \in Deferreds}
           G == [e \in Ev |-> IF "ACTIVE_LATER" \in b.flags[e]
                              THEN (b.flags[e] \ {"ACTIVE_LATER"}) \cup {"ACTIVE"}
                              ELSE b.flags[e]]
<1>0. b \in Base /\ b.flags \in [Ev -> SUBSET Flags] /\ b.later \in Seq(Ev) /\ b.deferreds \in Nat
  <2>1. b \in Base /\ b.flags \in [Ev -> SUBSET Flags] /\ b.later \in Seq(Ev)
    BY QueueTypes
  <2> QED
    BY <2>1 DEF Base
<1>1. /\ b.active \o b.later \in Seq(Ev) /\ IsInjective(b.active \o b.later)
      /\ \A u : Contains(b.active \o b.later, u) <=> Contains(b.active, u) \/ Contains(b.later, u)
      /\ Len(b.active \o b.later) = Len(b.active) + Len(b.later)
      /\ Len(b.active) + Len(b.later) \in Nat
  <2>1. ASSUME NEW u, Contains(b.active, u), Contains(b.later, u) PROVE FALSE
    <3>1. u \in Ev
      BY <2>1, <1>0, LenProperties DEF Contains
    <3> QED
      BY <2>1, <3>1, QueueTypes
  <2>2. Len(b.active) \in Nat /\ Len(b.later) \in Nat
    BY QueueTypes
  <2>3. \A x, y \in Nat : x + y \in Nat
    OBVIOUS
  <2>4. Len(b.active) + Len(b.later) \in Nat
    BY <2>2, <2>3
  <2> QED
    BY <2>1, <2>4, QueueTypes, JoinedQueues
<1>2. b.deferreds + Cardinality(D) \in Nat
  <2>1. DOMAIN b.later = 1..Len(b.later) /\ IsFiniteSet(1..Len(b.later))
    <3>1. DOMAIN b.later = 1..Len(b.later) /\ Len(b.later) \in Int /\ 1 \in Int
      BY <1>0, LenProperties
    <3> QED
      BY <3>1, FS_Interval
  <2>2. IsFiniteSet(D)
    BY <2>1, FS_Subset
  <2>3. Cardinality(D) \in Nat
    BY <2>2, FS_CardinalityType
  <2> HIDE DEF D
  <2> QED
    BY <1>0, <2>3
<1>3. G \in [Ev -> SUBSET Flags] /\ Cardinality(Marks(G)) = Cardinality(Marks(b.flags))
  BY <1>0, QueueTypes, MarksMoved
<1>4. /\ n.flags = G /\ n.active = b.active \o b.later /\ n.later = <<>>
      /\ n.count = b.count /\ n.nactive = b.nactive /\ n.deferreds = b.deferreds + Cardinality(D)
      /\ Rest(n, b)
  BY <1>0 DEF MakeLaterActive, Base, Rest
<1>5. n \in Base
  <2>1. n = [b EXCEPT !.flags = G, !.active = b.active \o b.later, !.later = <<>>,
                      !.deferreds = b.deferreds + Cardinality(D)]
    BY <1>0 DEF MakeLaterActive, Base
  <2> HIDE DEF n, G, D
  <2>2. ASSUME NEW A \in Seq(Ev), NEW d \in Nat
        PROVE  [b EXCEPT !.flags = G, !.active = A, !.later = <<>>, !.deferreds = d] \in Base
    <3>1. G \in [Ev -> SUBSET Flags] /\ <<>> \in Seq(Ev)
      BY <1>3
    <3> QED
      BY <1>0, <3>1 DEF Base
  <2> QED
    BY <1>1, <1>2, <2>1, <2>2
<1> HIDE DEF n
<1>6. ASSUME NEW u \in Ev
      PROVE  /\ "ACTIVE" \in n.flags[u] <=> Contains(n.active, u)
             /\ "ACTIVE_LATER" \in n.flags[u] <=> Contains(n.later, u)
             /\ ~("ACTIVE" \in n.flags[u] /\ "ACTIVE_LATER" \in n.flags[u])
  <2>1. /\ "ACTIVE" \in n.flags[u] <=> "ACTIVE" \in b.flags[u] \/ "ACTIVE_LATER" \in b.flags[u]
        /\ "ACTIVE_LATER" \notin n.flags[u]
    BY <1>4
  <2>2. /\ Contains(n.active, u) <=> Contains(b.active, u) \/ Contains(b.later, u)
        /\ ~Contains(n.later, u)
    <3>1. ~Contains(<<>>, u)
      BY DEF Contains
    <3>2. n.active = b.active \o b.later /\ n.later = <<>>
      BY <1>4
    <3> QED
      BY <1>1, <3>1, <3>2
  <2>3. /\ "ACTIVE" \in b.flags[u] <=> Contains(b.active, u)
        /\ "ACTIVE_LATER" \in b.flags[u] <=> Contains(b.later, u)
    BY QueueTypes
  <2> QED
    BY <2>1, <2>2, <2>3
<1>7. n.nactive = Len(n.active) + Len(n.later)
  <2>1. /\ Len(b.active) + Len(b.later) \in Nat /\ b.nactive = Len(b.active) + Len(b.later)
    BY <1>1, QueueTypes, Zenon
  <2>2. Len(n.later) = 0
    BY <1>4
  <2>3. \A x \in Nat : x + 0 = x
    OBVIOUS
  <2>4. (Len(b.active) + Len(b.later)) + 0 = Len(b.active) + Len(b.later)
    BY <2>1, <2>3, Zenon
  <2> QED
    BY <1>1, <1>4, <2>1, <2>2, <2>4, Zenon
<1>8. IsInjective(n.active) /\ IsInjective(n.later) /\ n.count = Cardinality(Marks(n.flags))
  <2>1. IsInjective(<<>>)
    BY DEF IsInjective
  <2>2. b.count = Cardinality(Marks(b.flags))
    BY QueueTypes
  <2> QED
    BY <1>1, <1>3, <1>4, <2>1, <2>2, Zenon
<1>9. QueueInv(n)
  BY <1>5, <1>6, <1>7, <1>8 DEF QueueInv
<1> QED
  BY <1>4, <1>9 DEF n

-----------------------------------------------------------------------------
(* event_add, event_del, event_active and the others, event by event. *)

\* Event u is the same in n and b; all but e are.
Same(n, b, u) ==
    n.flags[u] = b.flags[u] /\ n.res[u] = b.res[u] /\ n.due[u] = b.due[u] /\ n.ncalls[u] = b.ncalls[u]
Others(n, b, e) == n.term = b.term /\ \A u \in Ev \ {e} : Same(n, b, u)

LEMMA BecomesIs ==
    ASSUME NEW b, QueueInv(b), NEW e \in Ev, NEW n, NEW S, Becomes(n, b, e, S)
    PROVE  /\ QueueInv(n) /\ n \in Base /\ n.flags[e] = S /\ S \subseteq Flags
           /\ Others(n, b, e) /\ Rest(n, b)
<1>1. b.flags \in [Ev -> SUBSET Flags]
  BY QueueTypes
<1>2. QueueInv(n) /\ Rest(n, b) /\ n.flags = [b.flags EXCEPT ![e] = S]
  BY DEF Becomes
<1>3. n \in Base /\ n.flags \in [Ev -> SUBSET Flags]
  BY <1>2, QueueTypes
<1>4. n.flags[e] = S /\ \A u \in Ev \ {e} : n.flags[u] = b.flags[u]
  BY <1>1, <1>2
<1>5. Others(n, b, e)
  BY <1>2, <1>4 DEF Rest, Others, Same
<1> QED
  BY <1>2, <1>3, <1>4, <1>5

LEMMA BecomesSelf ==
    ASSUME NEW b, QueueInv(b), NEW e \in Ev, NEW S, S = b.flags[e]
    PROVE  Becomes(b, b, e, S)
<1>1. b.flags \in [Ev -> SUBSET Flags]
  BY QueueTypes
<1>2. b.flags = [b.flags EXCEPT ![e] = S]
  BY <1>1
<1> QED
  BY <1>2 DEF Becomes, Rest

LEMMA BecomesThen ==
    ASSUME NEW b, QueueInv(b), NEW e \in Ev, NEW n, NEW S, Becomes(n, b, e, S),
           NEW m, NEW T, Becomes(m, n, e, T)
    PROVE  Becomes(m, b, e, T)
<1>1. b.flags \in [Ev -> SUBSET Flags]
  BY QueueTypes
<1>2. n.flags = [b.flags EXCEPT ![e] = S] /\ m.flags = [n.flags EXCEPT ![e] = T]
  BY DEF Becomes
<1>3. m.flags = [b.flags EXCEPT ![e] = T]
  BY <1>1, <1>2
<1> QED
  BY <1>3 DEF Becomes, Rest

LEMMA SameQueues ==
    ASSUME NEW b, QueueInv(b), NEW n \in Base,
           n.flags = b.flags, n.active = b.active, n.later = b.later,
           n.count = b.count, n.nactive = b.nactive
    PROVE  QueueInv(n)
  BY DEF QueueInv

LEMMA UnqueueIs ==
    ASSUME NEW b, QueueInv(b), NEW e \in Ev
    PROVE  Becomes(Unqueue(b, e), b, e, b.flags[e] \ {"ACTIVE", "ACTIVE_LATER"})
<1>1. ~("ACTIVE" \in b.flags[e] /\ "ACTIVE_LATER" \in b.flags[e])
  BY QueueTypes
<1>2. CASE "ACTIVE" \in b.flags[e]
  <2>1. b.flags[e] \ {"ACTIVE"} = b.flags[e] \ {"ACTIVE", "ACTIVE_LATER"}
    BY <1>1, <1>2
  <2>2. Becomes(RemoveActive(b, e), b, e, b.flags[e] \ {"ACTIVE"})
    BY <1>2, RemoveActiveIs
  <2> QED
    BY <1>2, <2>1, <2>2 DEF Unqueue
<1>3. CASE "ACTIVE" \notin b.flags[e] /\ "ACTIVE_LATER" \in b.flags[e]
  <2>1. b.flags[e] \ {"ACTIVE_LATER"} = b.flags[e] \ {"ACTIVE", "ACTIVE_LATER"}
    BY <1>3
  <2>2. Becomes(RemoveLater(b, e), b, e, b.flags[e] \ {"ACTIVE_LATER"})
    BY <1>3, RemoveLaterIs
  <2> QED
    BY <1>3, <2>1, <2>2 DEF Unqueue
<1>4. CASE "ACTIVE" \notin b.flags[e] /\ "ACTIVE_LATER" \notin b.flags[e]
  <2>1. b.flags[e] \ {"ACTIVE", "ACTIVE_LATER"} = b.flags[e]
    BY <1>4
  <2> QED
    BY <1>4, <2>1, BecomesSelf DEF Unqueue
<1> QED
  BY <1>2, <1>3, <1>4

LEMMA DelIs ==
    ASSUME NEW b, QueueInv(b), NEW e \in Ev
    PROVE  Becomes(Del(b, e), b, e, IF Finalizing(b, e) THEN b.flags[e] ELSE {})
<1> DEFINE b1 == IF "TIMEOUT" \in b.flags[e] THEN ClearFlag(b, e, "TIMEOUT") ELSE b
           b2 == Unqueue(b1, e)
           b3 == IF "INSERTED" \in b.flags[e] THEN ClearFlag(b2, e, "INSERTED") ELSE b2
<1>1. CASE Finalizing(b, e)
  BY <1>1, BecomesSelf DEF Del
<1>2. CASE ~Finalizing(b, e)
  <2>1. Becomes(b1, b, e, b.flags[e] \ {"TIMEOUT"})
    <3>1. CASE "TIMEOUT" \in b.flags[e]
      BY <3>1, ClearFlagIs
    <3>2. CASE "TIMEOUT" \notin b.flags[e]
      <4>1. b.flags[e] \ {"TIMEOUT"} = b.flags[e]
        BY <3>2
      <4> QED
        BY <3>2, <4>1, BecomesSelf
    <3> QED
      BY <3>1, <3>2
  <2> HIDE DEF b1
  <2>2. QueueInv(b1) /\ b1.flags[e] = b.flags[e] \ {"TIMEOUT"}
    BY <2>1, BecomesIs
  <2>3. Becomes(b2, b1, e, b1.flags[e] \ {"ACTIVE", "ACTIVE_LATER"})
    BY <2>2, UnqueueIs
  <2>4. Becomes(b2, b, e, b.flags[e] \ {"TIMEOUT", "ACTIVE", "ACTIVE_LATER"})
    <3>1. b1.flags[e] \ {"ACTIVE", "ACTIVE_LATER"} = b.flags[e] \ {"TIMEOUT", "ACTIVE", "ACTIVE_LATER"}
      BY <2>2
    <3>2. Becomes(b2, b, e, b1.flags[e] \ {"ACTIVE", "ACTIVE_LATER"})
      BY <2>1, <2>3, BecomesThen
    <3> QED
      BY <3>1, <3>2
  <2> HIDE DEF b2
  <2>5. /\ QueueInv(b2) /\ b2.flags[e] = b.flags[e] \ {"TIMEOUT", "ACTIVE", "ACTIVE_LATER"}
        /\ b2.flags[e] \subseteq Flags
    BY <2>4, BecomesIs
  <2>6. Becomes(b3, b, e, {})
    <3>1. CASE "INSERTED" \in b.flags[e]
      <4>1. Becomes(b3, b2, e, b2.flags[e] \ {"INSERTED"})
        BY <2>5, <3>1, ClearFlagIs
      <4>2. b2.flags[e] \ {"INSERTED"} = {}
        BY <1>2, <2>5 DEF Flags, Finalizing
      <4> QED
        BY <2>4, <4>1, <4>2, BecomesThen
    <3>2. CASE "INSERTED" \notin b.flags[e]
      <4>1. b.flags[e] \ {"TIMEOUT", "ACTIVE", "ACTIVE_LATER"} = {}
        BY <1>2, <2>5, <3>2 DEF Flags, Finalizing
      <4> QED
        BY <2>4, <3>2, <4>1
    <3> QED
      BY <3>1, <3>2
  <2>7. Del(b, e) = b3
    BY <1>2 DEF Del, b1, b2
  <2> HIDE DEF b3
  <2> QED
    BY <1>2, <2>6, <2>7
<1> QED
  BY <1>1, <1>2

LEMMA CallbackActivateIs ==
    ASSUME NEW b, QueueInv(b), NEW e \in Ev, ~Finalizing(b, e)
    PROVE  Becomes(CallbackActivate(b, e), b, e, (b.flags[e] \ {"ACTIVE_LATER"}) \cup {"ACTIVE"})
<1> DEFINE b1 == IF "ACTIVE_LATER" \in b.flags[e] THEN RemoveLater(b, e) ELSE b
<1>1. Becomes(b1, b, e, b.flags[e] \ {"ACTIVE_LATER"})
  <2>1. CASE "ACTIVE_LATER" \in b.flags[e]
    BY <2>1, RemoveLaterIs
  <2>2. CASE "ACTIVE_LATER" \notin b.flags[e]
    <3>1. b.flags[e] \ {"ACTIVE_LATER"} = b.flags[e]
      BY <2>2
    <3> QED
      BY <2>2, <3>1, BecomesSelf
  <2> QED
    BY <2>1, <2>2
<1>2. CallbackActivate(b, e) = InsertActive(b1, e)
  BY DEF CallbackActivate
<1> HIDE DEF b1
<1>3. QueueInv(b1) /\ b1.flags[e] = b.flags[e] \ {"ACTIVE_LATER"}
  BY <1>1, BecomesIs
<1>4. Becomes(InsertActive(b1, e), b1, e, b1.flags[e] \cup {"ACTIVE"})
  <2>1. "ACTIVE_LATER" \notin b1.flags[e]
    BY <1>3
  <2> QED
    BY <1>3, <2>1, InsertActiveIs
<1> QED
  BY <1>1, <1>2, <1>3, <1>4, BecomesThen

\* What event_active makes of an event: it waits for its callback.
LEMMA ActivateIs ==
    ASSUME NEW b, QueueInv(b), NEW e \in Ev, ~Finalizing(b, e),
           NEW what \in {"IO", "TIMEOUT", "SIGNAL"}, NEW k \in Nat
    PROVE  /\ QueueInv(Activate(b, e, what, k)) /\ Others(Activate(b, e, what, k), b, e)
           /\ Activate(b, e, what, k).flags[e] = (b.flags[e] \ {"ACTIVE_LATER"}) \cup {"ACTIVE"}
           /\ Activate(b, e, what, k).res[e] = Result(b, e, what)
           /\ Activate(b, e, what, k).due[e] = b.due[e]
           /\ Activate(b, e, what, k).ncalls[e] =
                  IF e \in Sigs /\ "ACTIVE" \notin b.flags[e] THEN k ELSE b.ncalls[e]
<1> DEFINE b1 == [b EXCEPT !.res[e] = Result(b, e, what)]
           b2 == [b1 EXCEPT !.ncalls[e] = IF e \in Sigs THEN k ELSE @]
           n == Activate(b, e, what, k)
<1>0. b \in Base
  BY QueueTypes
<1>1. Result(b, e, what) \in SUBSET {"IO", "TIMEOUT", "SIGNAL"}
  <2>1. b.res[e] \in SUBSET {"IO", "TIMEOUT", "SIGNAL"}
    BY <1>0 DEF Base
  <2> QED
    BY <2>1 DEF Result
<1>2. /\ b1 \in Base /\ b1.flags = b.flags /\ b1.active = b.active /\ b1.later = b.later
      /\ b1.count = b.count /\ b1.nactive = b.nactive /\ b1.term = b.term
      /\ b1.due = b.due /\ b1.ncalls = b.ncalls /\ b1.res[e] = Result(b, e, what)
      /\ \A u \in Ev \ {e} : b1.res[u] = b.res[u]
  BY <1>0, <1>1 DEF Base
<1>3. CASE "ACTIVE" \in b.flags[e]
  <2>1. n = b1
    BY <1>3 DEF Activate
  <2>2. QueueInv(b1)
    BY <1>2, SameQueues
  <2>3. b.flags[e] = (b.flags[e] \ {"ACTIVE_LATER"}) \cup {"ACTIVE"}
    BY <1>3, QueueTypes
  <2>4. Others(b1, b, e)
    BY <1>2 DEF Others, Same
  <2> HIDE DEF n, b1
  <2> QED
    BY <1>2, <1>3, <2>1, <2>2, <2>3, <2>4 DEF n
<1>4. CASE "ACTIVE" \notin b.flags[e]
  <2>1. n = CallbackActivate(b2, e)
    BY <1>4 DEF Activate
  <2> HIDE DEF b1, n
  <2>2. /\ b2 \in Base /\ b2.flags = b.flags /\ b2.active = b.active /\ b2.later = b.later
        /\ b2.count = b.count /\ b2.nactive = b.nactive /\ b2.term = b.term
        /\ b2.due = b.due /\ b2.res = b1.res
        /\ b2.ncalls[e] = IF e \in Sigs THEN k ELSE b.ncalls[e]
        /\ \A u \in Ev \ {e} : b2.ncalls[u] = b.ncalls[u]
    <3>1. b2.ncalls = [b.ncalls EXCEPT ![e] = IF e \in Sigs THEN k ELSE @]
      BY <1>2 DEF Base
    <3>2. b.ncalls \in [Ev -> Nat]
      BY <1>0 DEF Base
    <3>3. b2 \in Base
      BY <1>2, <3>2 DEF Base
    <3> QED
      BY <1>2, <3>1, <3>2, <3>3 DEF Base
  <2> HIDE DEF b2
  <2>3. QueueInv(b2) /\ ~Finalizing(b2, e)
    BY <2>2, SameQueues DEF Finalizing
  <2>4. Becomes(n, b2, e, (b.flags[e] \ {"ACTIVE_LATER"}) \cup {"ACTIVE"})
    BY <2>1, <2>2, <2>3, CallbackActivateIs
  <2>5. /\ QueueInv(n) /\ Rest(n, b2) /\ Others(n, b2, e)
        /\ n.flags[e] = (b.flags[e] \ {"ACTIVE_LATER"}) \cup {"ACTIVE"}
    BY <2>3, <2>4, BecomesIs
  <2>6. Others(n, b, e)
    BY <1>2, <2>2, <2>5 DEF Others, Same
  <2>7. n.res[e] = Result(b, e, what) /\ n.due[e] = b.due[e] /\ n.ncalls[e] = b2.ncalls[e]
    BY <1>2, <2>2, <2>5 DEF Rest
  <2> QED
    BY <1>4, <2>2, <2>5, <2>6, <2>7 DEF n
<1> QED
  BY <1>3, <1>4

Watchable(b, e) == InMap(e) /\ b.flags[e] \cap {"INSERTED", "ACTIVE", "ACTIVE_LATER"} = {}

LEMMA AddInsertedIs ==
    ASSUME NEW b, QueueInv(b), NEW e \in Ev
    PROVE  Becomes(AddInserted(b, e), b, e,
                   IF Watchable(b, e) THEN b.flags[e] \cup {"INSERTED"} ELSE b.flags[e])
<1>1. CASE Watchable(b, e)
  <2>1. "INSERTED" \notin b.flags[e]
    BY <1>1 DEF Watchable
  <2>2. Becomes(SetFlag(b, e, "INSERTED"), b, e, b.flags[e] \cup {"INSERTED"})
    BY <2>1, SetFlagIs
  <2> QED
    BY <1>1, <2>2 DEF AddInserted, Watchable
<1>2. CASE ~Watchable(b, e)
  BY <1>2, BecomesSelf DEF AddInserted, Watchable
<1> QED
  BY <1>1, <1>2

\* The flags of an event that gets a timeout.
Timed(b, e) ==
    (IF "ACTIVE" \in b.flags[e] /\ "TIMEOUT" \in b.res[e] THEN b.flags[e] \ {"ACTIVE"} ELSE b.flags[e])
    \cup {"TIMEOUT"}

LEMMA AddTimeoutIs ==
    ASSUME NEW b, QueueInv(b), NEW e \in Ev, NEW tv \in Int
    PROVE  /\ QueueInv(AddTimeout(b, e, tv)) /\ Others(AddTimeout(b, e, tv), b, e)
           /\ AddTimeout(b, e, tv).flags[e] = Timed(b, e)
           /\ AddTimeout(b, e, tv).res[e] = b.res[e]
           /\ AddTimeout(b, e, tv).ncalls[e] = b.ncalls[e]
<1> DEFINE b1 == IF "TIMEOUT" \in b.flags[e] THEN ClearFlag(b, e, "TIMEOUT") ELSE b
           b2 == TakeBack(b1, e)
           b3 == SetFlag(b2, e, "TIMEOUT")
           n == [b3 EXCEPT !.due[e] = tv]
           out == "ACTIVE" \in b.flags[e] /\ "TIMEOUT" \in b.res[e]
<1>1. Becomes(b1, b, e, b.flags[e] \ {"TIMEOUT"})
  <2>1. CASE "TIMEOUT" \in b.flags[e]
    BY <2>1, ClearFlagIs
  <2>2. CASE "TIMEOUT" \notin b.flags[e]
    <3>1. b.flags[e] \ {"TIMEOUT"} = b.flags[e]
      BY <2>2
    <3> QED
      BY <2>2, <3>1, BecomesSelf
  <2> QED
    BY <2>1, <2>2
<1>2. AddTimeout(b, e, tv) = n
  BY DEF AddTimeout
<1> HIDE DEF b1
<1>3. QueueInv(b1) /\ b1.flags[e] = b.flags[e] \ {"TIMEOUT"} /\ b1.res[e] = b.res[e]
  BY <1>1, BecomesIs DEF Rest
<1>4. Becomes(b2, b, e, (IF out THEN b.flags[e] \ {"ACTIVE"} ELSE b.flags[e]) \ {"TIMEOUT"})
  <2>1. CASE out
    <3>1. "ACTIVE" \in b1.flags[e] /\ "TIMEOUT" \in b1.res[e]
      BY <1>3, <2>1
    <3>2. Becomes(b2, b1, e, b1.flags[e] \ {"ACTIVE"})
      BY <1>3, <3>1, RemoveActiveIs DEF TakeBack
    <3>3. b1.flags[e] \ {"ACTIVE"} = (b.flags[e] \ {"ACTIVE"}) \ {"TIMEOUT"}
      BY <1>3
    <3> QED
      BY <1>1, <2>1, <3>2, <3>3, BecomesThen
  <2>2. CASE ~out
    <3>1. b2 = b1
      BY <1>3, <2>2 DEF TakeBack
    <3> QED
      BY <1>1, <2>2, <3>1
  <2> QED
    BY <2>1, <2>2
<1> HIDE DEF b2
<1>5. /\ QueueInv(b2)
      /\ b2.flags[e] = (IF out THEN b.flags[e] \ {"ACTIVE"} ELSE b.flags[e]) \ {"TIMEOUT"}
  BY <1>4, BecomesIs
<1>6. Becomes(b3, b2, e, b2.flags[e] \cup {"TIMEOUT"})
  <2>1. "TIMEOUT" \notin b2.flags[e]
    BY <1>5
  <2> QED
    BY <1>5, <2>1, SetFlagIs
<1>7. Becomes(b3, b, e, Timed(b, e))
  <2>1. b2.flags[e] \cup {"TIMEOUT"} = Timed(b, e)
    BY <1>5 DEF Timed
  <2> QED
    BY <1>4, <1>6, <2>1, BecomesThen
<1> HIDE DEF b3
<1>8. /\ QueueInv(b3) /\ b3 \in Base /\ b3.flags[e] = Timed(b, e) /\ Others(b3, b, e) /\ Rest(b3, b)
  BY <1>7, BecomesIs
<1>9. /\ n \in Base /\ n.flags = b3.flags /\ n.active = b3.active /\ n.later = b3.later
      /\ n.count = b3.count /\ n.nactive = b3.nactive /\ n.term = b3.term
      /\ n.res = b3.res /\ n.ncalls = b3.ncalls
      /\ \A u \in Ev \ {e} : n.due[u] = b3.due[u]
  BY <1>8 DEF Base
<1> HIDE DEF n
<1>10. QueueInv(n)
  BY <1>8, <1>9, SameQueues
<1>11. Others(n, b, e) /\ n.flags[e] = Timed(b, e) /\ n.res[e] = b.res[e] /\ n.ncalls[e] = b.ncalls[e]
  BY <1>8, <1>9 DEF Others, Same, Rest
<1> QED
  BY <1>2, <1>10, <1>11

\* The flags of an event that is added, without a timeout.
Added(b, e) == IF Watchable(b, e) THEN b.flags[e] \cup {"INSERTED"} ELSE b.flags[e]

LEMMA AddIs ==
    ASSUME NEW b, QueueInv(b), NEW e \in Ev, NEW tv \in Nat \cup {Forever}, ~Finalizing(b, e)
    PROVE  /\ QueueInv(Add(b, e, tv)) /\ Others(Add(b, e, tv), b, e)
           /\ Add(b, e, tv).res[e] = b.res[e] /\ Add(b, e, tv).ncalls[e] = b.ncalls[e]
           /\ tv = Forever => /\ Add(b, e, tv).flags[e] = Added(b, e)
                              /\ Add(b, e, tv).due[e] = b.due[e]
           /\ tv # Forever => Add(b, e, tv).flags[e] =
                 (IF "ACTIVE" \in b.flags[e] /\ "TIMEOUT" \in b.res[e]
                  THEN Added(b, e) \ {"ACTIVE"} ELSE Added(b, e)) \cup {"TIMEOUT"}
<1> DEFINE b1 == AddInserted(b, e)
           b2 == AddTimeout(b1, e, tv)
           n  == [b2 EXCEPT !.again[e] = IF Persistent(e) THEN tv ELSE @]
<1>1. Becomes(b1, b, e, Added(b, e))
  BY AddInsertedIs DEF Added
<1>2. Add(b, e, tv) = IF tv = Forever THEN b1 ELSE n
  BY DEF Add
<1> HIDE DEF b1
<1>3. QueueInv(b1) /\ b1.flags[e] = Added(b, e) /\ Rest(b1, b) /\ Others(b1, b, e)
  BY <1>1, BecomesIs
<1>4. CASE tv = Forever
  BY <1>2, <1>3, <1>4 DEF Rest
<1>5. CASE tv # Forever
  <2>0. tv \in Nat /\ tv \in Int
    BY <1>5
  <2>1. /\ QueueInv(b2) /\ Others(b2, b1, e) /\ b2.flags[e] = Timed(b1, e)
        /\ b2.res[e] = b1.res[e] /\ b2.ncalls[e] = b1.ncalls[e]
    BY <1>3, <2>0, AddTimeoutIs
  <2> HIDE DEF b2
  <2>2. b2 \in Base
    BY <2>1, QueueTypes
  <2>3. /\ n \in Base /\ n.flags = b2.flags /\ n.active = b2.active /\ n.later = b2.later
        /\ n.count = b2.count /\ n.nactive = b2.nactive /\ n.term = b2.term
        /\ n.res = b2.res /\ n.ncalls = b2.ncalls /\ n.due = b2.due
    BY <2>0, <2>2 DEF Base
  <2> HIDE DEF n
  <2>4. QueueInv(n)
    BY <2>1, <2>3, SameQueues
  <2>5. "ACTIVE" \in b1.flags[e] <=> "ACTIVE" \in b.flags[e]
    BY <1>3 DEF Added
  <2>6. Timed(b1, e) = (IF "ACTIVE" \in b.flags[e] /\ "TIMEOUT" \in b.res[e]
                        THEN Added(b, e) \ {"ACTIVE"} ELSE Added(b, e)) \cup {"TIMEOUT"}
    BY <1>3, <2>5 DEF Timed, Rest
  <2>7. /\ Others(n, b, e) /\ n.res[e] = b.res[e] /\ n.ncalls[e] = b.ncalls[e]
        /\ n.flags[e] = Timed(b1, e)
    BY <1>3, <2>1, <2>3 DEF Others, Same, Rest
  <2> QED
    BY <1>2, <1>5, <2>4, <2>6, <2>7
<1> QED
  BY <1>4, <1>5

\* A deferred callback is put into one of the queues, unless it is in one.
LEMMA AddForeverIs ==
    ASSUME NEW b, QueueInv(b), NEW e \in Ev, ~Finalizing(b, e)
    PROVE  /\ QueueInv(Add(b, e, Forever)) /\ Others(Add(b, e, Forever), b, e)
           /\ Add(b, e, Forever).flags[e] = Added(b, e)
<1>1. PICK tv : tv = Forever
  OBVIOUS
<1>2. tv \in Nat \cup {Forever}
  BY <1>1
<1>3. /\ QueueInv(Add(b, e, tv)) /\ Others(Add(b, e, tv), b, e)
      /\ tv = Forever => Add(b, e, tv).flags[e] = Added(b, e)
  BY <1>2, AddIs
<1> QED
  BY <1>1, <1>3

LEMMA ScheduleIs ==
    ASSUME NEW b, QueueInv(b), NEW d \in Ev, ~Finalizing(b, d)
    PROVE  /\ QueueInv(Schedule(b, d)) /\ Others(Schedule(b, d), b, d)
           /\ Schedule(b, d).flags[d] \subseteq b.flags[d] \cup {"ACTIVE", "ACTIVE_LATER"}
<1> DEFINE n == Schedule(b, d)
<1>1. CASE b.deferreds > MaxDeferreds
  <2>1. CASE b.flags[d] \cap {"ACTIVE", "ACTIVE_LATER"} # {}
    <3>1. n = b
      BY <1>1, <2>1 DEF Schedule, InsertLater
    <3> QED
      BY <3>1 DEF Others, Same
  <2>2. CASE b.flags[d] \cap {"ACTIVE", "ACTIVE_LATER"} = {}
    <3>1. n = InsertLater(b, d)
      BY <1>1 DEF Schedule
    <3> HIDE DEF n
    <3>2. Becomes(n, b, d, b.flags[d] \cup {"ACTIVE_LATER"})
      BY <2>2, <3>1, InsertLaterIs
    <3>3. QueueInv(n) /\ Others(n, b, d) /\ n.flags[d] = b.flags[d] \cup {"ACTIVE_LATER"}
      BY <3>2, BecomesIs
    <3> QED
      BY <3>3 DEF n
  <2> QED
    BY <2>1, <2>2
<1>2. CASE ~(b.deferreds > MaxDeferreds)
  <2>1. CASE b.flags[d] \cap {"ACTIVE", "ACTIVE_LATER"} # {}
    <3>1. n = CallbackActivate(b, d)
      BY <1>2, <2>1 DEF Schedule
    <3> HIDE DEF n
    <3>2. Becomes(n, b, d, (b.flags[d] \ {"ACTIVE_LATER"}) \cup {"ACTIVE"})
      BY <3>1, CallbackActivateIs
    <3>3. QueueInv(n) /\ Others(n, b, d) /\ n.flags[d] = (b.flags[d] \ {"ACTIVE_LATER"}) \cup {"ACTIVE"}
      BY <3>2, BecomesIs
    <3>4. n.flags[d] \subseteq b.flags[d] \cup {"ACTIVE", "ACTIVE_LATER"}
      BY <3>3
    <3> QED
      BY <3>3, <3>4 DEF n
  <2>2. CASE b.flags[d] \cap {"ACTIVE", "ACTIVE_LATER"} = {}
    <3> DEFINE m == InsertActive(b, d)
    <3>1. n = [m EXCEPT !.deferreds = @ + 1]
      BY <1>2, <2>2 DEF Schedule
    <3>2. Becomes(m, b, d, b.flags[d] \cup {"ACTIVE"})
      <4>1. "ACTIVE_LATER" \notin b.flags[d]
        BY <2>2
      <4> QED
        BY <4>1, InsertActiveIs
    <3> HIDE DEF m, n
    <3>3. QueueInv(m) /\ m \in Base /\ Others(m, b, d) /\ m.flags[d] = b.flags[d] \cup {"ACTIVE"}
      BY <3>2, BecomesIs
    <3>4. /\ n \in Base /\ n.flags = m.flags /\ n.active = m.active /\ n.later = m.later
          /\ n.count = m.count /\ n.nactive = m.nactive /\ n.term = m.term
          /\ n.res = m.res /\ n.ncalls = m.ncalls /\ n.due = m.due
      <4>1. m.deferreds \in Nat /\ m.deferreds + 1 \in Nat
        BY <3>3 DEF Base
      <4> QED
        BY <3>1, <3>3, <4>1 DEF Base
    <3>5. QueueInv(n)
      BY <3>3, <3>4, SameQueues
    <3>6. Others(n, b, d)
      BY <3>3, <3>4 DEF Others, Same
    <3>7. n.flags[d] \subseteq b.flags[d] \cup {"ACTIVE", "ACTIVE_LATER"}
      BY <3>3, <3>4
    <3> QED
      BY <3>5, <3>6, <3>7 DEF n
  <2> QED
    BY <2>1, <2>2
<1> QED
  BY <1>1, <1>2

LEMMA FinalizeIs ==
    ASSUME NEW b, QueueInv(b), NEW e \in Ev, ~Finalizing(b, e)
    PROVE  /\ QueueInv(Finalize(b, e)) /\ Others(Finalize(b, e), b, e)
           /\ Finalize(b, e).flags[e] = {"ACTIVE", "FINALIZING"}
           /\ Finalize(b, e).res[e] = b.res[e]
<1> DEFINE b1 == Del(b, e)
           b2 == CallbackActivate(b1, e)
           n  == [b2 EXCEPT !.flags[e] = @ \cup {"FINALIZING"}]
<1>1. Becomes(b1, b, e, {})
  BY DelIs
<1>2. Finalize(b, e) = n
  BY DEF Finalize
<1> HIDE DEF b1
<1>3. QueueInv(b1) /\ b1.flags[e] = {}
  BY <1>1, BecomesIs
<1>4. Becomes(b2, b1, e, {"ACTIVE"})
  <2>1. ~Finalizing(b1, e) /\ (b1.flags[e] \ {"ACTIVE_LATER"}) \cup {"ACTIVE"} = {"ACTIVE"}
    BY <1>3 DEF Finalizing
  <2>2. Becomes(b2, b1, e, (b1.flags[e] \ {"ACTIVE_LATER"}) \cup {"ACTIVE"})
    BY <1>3, <2>1, CallbackActivateIs
  <2> QED
    BY <2>1, <2>2
<1>5. Becomes(b2, b, e, {"ACTIVE"})
  BY <1>1, <1>4, BecomesThen
<1> HIDE DEF b2
<1>6. QueueInv(b2) /\ b2 \in Base /\ b2.flags[e] = {"ACTIVE"} /\ Others(b2, b, e) /\ Rest(b2, b)
  BY <1>5, BecomesIs
<1>7. /\ n.flags = [b2.flags EXCEPT ![e] = @ \cup {"FINALIZING"}]
      /\ n \in Base /\ n.active = b2.active /\ n.later = b2.later
      /\ n.count = b2.count /\ n.nactive = b2.nactive /\ n.term = b2.term
      /\ n.res = b2.res /\ n.ncalls = b2.ncalls /\ n.due = b2.due
  BY <1>6 DEF Base, Flags
<1> HIDE DEF n
<1>8. b2.flags \in [Ev -> SUBSET Flags]
  BY <1>6, QueueTypes
<1>9. /\ n.flags[e] = {"ACTIVE", "FINALIZING"}
      /\ \A u \in Ev \ {e} : n.flags[u] = b2.flags[u]
      /\ \A u \in Ev, f \in Flags \ {"FINALIZING"} : f \in n.flags[u] <=> f \in b2.flags[u]
  BY <1>6, <1>7, <1>8
<1>10. QueueInv(n)
  <2>1. Marks(n.flags) = Marks(b2.flags)
    BY <1>9 DEF Marks
  <2>2. n.count = Cardinality(Marks(n.flags))
    BY <1>6, <1>7, <2>1, QueueTypes
  <2>3. ASSUME NEW u \in Ev
        PROVE  /\ "ACTIVE" \in n.flags[u] <=> Contains(n.active, u)
               /\ "ACTIVE_LATER" \in n.flags[u] <=> Contains(n.later, u)
               /\ ~("ACTIVE" \in n.flags[u] /\ "ACTIVE_LATER" \in n.flags[u])
    <3>1. /\ "ACTIVE" \in b2.flags[u] <=> Contains(b2.active, u)
          /\ "ACTIVE_LATER" \in b2.flags[u] <=> Contains(b2.later, u)
          /\ ~("ACTIVE" \in b2.flags[u] /\ "ACTIVE_LATER" \in b2.flags[u])
      BY <1>6, QueueTypes
    <3>2. "ACTIVE" \in Flags \ {"FINALIZING"} /\ "ACTIVE_LATER" \in Flags \ {"FINALIZING"}
      BY DEF Flags
    <3> QED
      BY <1>7, <1>9, <3>1, <3>2
  <2>4. /\ IsInjective(n.active) /\ IsInjective(n.later)
        /\ n.nactive = Len(n.active) + Len(n.later)
    <3>1. /\ IsInjective(b2.active) /\ IsInjective(b2.later)
          /\ b2.nactive = Len(b2.active) + Len(b2.later)
      BY <1>6, QueueTypes
    <3> QED
      BY <1>7, <3>1, Zenon
  <2> QED
    BY <1>7, <2>2, <2>3, <2>4 DEF QueueInv
<1>11. Others(n, b, e) /\ n.res[e] = b.res[e]
  BY <1>6, <1>7, <1>9 DEF Others, Same, Rest
<1> QED
  BY <1>2, <1>9, <1>10, <1>11

\* What is left of a bufferevent that is freed: one event, with the finalizer.
LEMMA FinalizeManyIs ==
    ASSUME NEW b, QueueInv(b), NEW v \in Bevs, NEW current,
           \A e \in Both(v) : ~Finalizing(b, e)
    PROVE  /\ QueueInv(FinalizeMany(b, v, current))
           /\ FinalizeMany(b, v, current).term = b.term
           /\ \A u \in Ev \ Both(v) : Same(FinalizeMany(b, v, current), b, u)
           /\ \E e \in Both(v) : /\ FinalizeMany(b, v, current).flags[e] = {"ACTIVE", "FINALIZING"}
                                 /\ \A f \in Both(v) \ {e} : FinalizeMany(b, v, current).flags[f] = {}
<1> DEFINE at == IF current = v.write THEN v.write ELSE v.read
           of == IF at = v.read THEN v.write ELSE v.read
           b1 == Del(b, of)
           n  == FinalizeMany(b, v, current)
<1>1. v.read # v.write /\ Both(v) \subseteq Ev
  BY BevsAssumption DEF Both, Ev, Ios
<1>2. at \in Ev /\ of \in Ev /\ at # of /\ Both(v) = {at, of}
  BY <1>1 DEF Both
<1>3. n = Finalize(b1, at)
  BY DEF FinalizeMany
<1> HIDE DEF at, of, n
<1>4. Becomes(b1, b, of, {})
  <2>1. ~Finalizing(b, of)
    BY <1>2
  <2>2. Becomes(b1, b, of, IF Finalizing(b, of) THEN b.flags[of] ELSE {})
    BY <1>2, DelIs
  <2> QED
    BY <2>1, <2>2
<1> HIDE DEF b1
<1>5. QueueInv(b1) /\ Others(b1, b, of) /\ b1.flags[of] = {}
  BY <1>2, <1>4, BecomesIs
<1>6. ~Finalizing(b1, at)
  BY <1>2, <1>5 DEF Finalizing, Others, Same
<1>7. /\ QueueInv(n) /\ Others(n, b1, at) /\ n.flags[at] = {"ACTIVE", "FINALIZING"}
  BY <1>2, <1>3, <1>5, <1>6, FinalizeIs
<1>8. n.term = b.term /\ \A u \in Ev \ Both(v) : Same(n, b, u)
  BY <1>2, <1>5, <1>7 DEF Others, Same
<1>9. n.flags[of] = {}
  BY <1>2, <1>5, <1>7 DEF Others, Same
<1> QED
  BY <1>2, <1>7, <1>8, <1>9 DEF n

LEMMA TakeHeadIs ==
    ASSUME NEW b, QueueInv(b), NEW e \in Ev, "ACTIVE" \in b.flags[e]
    PROVE  Becomes(TakeHead(b, e), b, e,
                   IF Persistent(e) \/ Finalizing(b, e) THEN b.flags[e] \ {"ACTIVE"} ELSE {})
<1>1. CASE Persistent(e) \/ Finalizing(b, e)
  BY <1>1, RemoveActiveIs DEF TakeHead
<1>2. CASE ~(Persistent(e) \/ Finalizing(b, e))
  <2>1. Becomes(Del(b, e), b, e, IF Finalizing(b, e) THEN b.flags[e] ELSE {})
    BY DelIs
  <2> QED
    BY <1>2, <2>1 DEF TakeHead
<1> QED
  BY <1>1, <1>2

\* The event whose callback is to be called is watched again before it gets its
\* next timeout.
LEMMA PersistIs ==
    ASSUME NEW b, QueueInv(b), NEW e \in Ev,
           "ACTIVE" \notin b.flags[e], "ACTIVE_LATER" \notin b.flags[e]
    PROVE  /\ QueueInv(Persist(b, e)) /\ Others(Persist(b, e), b, e)
           /\ \/ Persist(b, e).flags[e] = b.flags[e]
              \/ Persist(b, e).flags[e] = Added(b, e) \cup {"TIMEOUT"}
<1> DEFINE b1   == AddInserted(b, e)
           next == b.again[e] + IF "TIMEOUT" \in b.res[e] THEN b.due[e] ELSE 0
           tv   == IF next < 0 THEN b.again[e] ELSE next
           n    == Persist(b, e)
<1>1. CASE b.again[e] = 0
  <2>1. n = b
    BY <1>1 DEF Persist
  <2> HIDE DEF n
  <2> QED
    BY <2>1 DEF n, Others, Same
<1>2. CASE b.again[e] # 0
  <2>1. n = AddTimeout(b1, e, tv)
    BY <1>2 DEF Persist
  <2>2. Becomes(b1, b, e, Added(b, e))
    BY AddInsertedIs DEF Added
  <2>3. tv \in Int
    <3>1. b \in Base
      BY QueueTypes
    <3>2. b.again[e] \in Int /\ b.due[e] \in Int
      BY <3>1 DEF Base
    <3>3. \A x, y \in Int : x + y \in Int /\ x + 0 \in Int
      OBVIOUS
    <3>4. next \in Int
      BY <3>2, <3>3
    <3> HIDE DEF next
    <3> QED
      BY <3>2, <3>4
  <2> HIDE DEF b1, tv, n
  <2>4. QueueInv(b1) /\ b1.flags[e] = Added(b, e) /\ Others(b1, b, e)
    BY <2>2, BecomesIs
  <2>5. /\ QueueInv(n) /\ Others(n, b1, e) /\ n.flags[e] = Timed(b1, e)
    BY <2>1, <2>3, <2>4, AddTimeoutIs
  <2>6. Timed(b1, e) = Added(b, e) \cup {"TIMEOUT"}
    BY <2>4 DEF Timed, Added
  <2>7. Others(n, b, e)
    BY <2>4, <2>5 DEF Others, Same
  <2> QED
    BY <2>5, <2>6, <2>7 DEF n
<1> QED
  BY <1>1, <1>2

-----------------------------------------------------------------------------
(* The invariant holds at first. *)

LEMMA Kinds ==
    /\ \A e \in Timers : /\ e \in Ev /\ ~InMap(e) /\ e # Pipe
                         /\ e \notin Ios \cup Sigs \cup Deferreds \cup Exits
    /\ \A e \in Ios : /\ e \in Ev /\ InMap(e) /\ e # Pipe
                      /\ e \notin Timers \cup Sigs \cup Deferreds \cup Exits
    /\ \A e \in Sigs : /\ e \in Ev /\ InMap(e) /\ e # Pipe
                       /\ e \notin Timers \cup Ios \cup Deferreds \cup Exits
    /\ \A e \in Deferreds : /\ e \in Ev /\ ~InMap(e) /\ e # Pipe
                            /\ e \notin Timers \cup Ios \cup Sigs \cup Exits
    /\ \A e \in Exits : /\ e \in Ev /\ ~InMap(e) /\ e # Pipe
                        /\ e \notin Timers \cup Ios \cup Sigs \cup Deferreds
    /\ Pipe \in Ev /\ InMap(Pipe) /\ Pipe \notin Timers \cup Ios \cup Sigs \cup Deferreds \cup Exits
    /\ Nobody \notin Ev
  BY KindsAssumption DEF Ev, InMap

LEMMA Bufferevents ==
    /\ \A v \in Bevs : Both(v) \subseteq Ios /\ v.read \in Both(v) /\ v.write \in Both(v)
    /\ \A v, w \in Bevs : v # w => Both(v) \cap Both(w) = {}
    /\ \A e \in Ios : \E v \in Bevs : e \in Both(v)
  BY BevsAssumption DEF Both, Ios

LEMMA InitInv == Init => IInv
<1> SUFFICES ASSUME Init PROVE IInv
  OBVIOUS
<1>1. /\ \A e \in Ev : base.flags[e] = {}
      /\ base.active = <<>> /\ base.later = <<>> /\ base.count = 0 /\ base.nactive = 0
  BY DEF Init
<1>2. base \in Base
  BY DEF Init, Base
<1>3. QueueInv(base)
  <2>1. Marks(base.flags) = {}
    BY <1>1 DEF Marks
  <2>2. Cardinality({}) = 0
    BY FS_EmptySet
  <2>3. IsInjective(<<>>) /\ Len(<<>>) = 0 /\ 0 = 0 + 0 /\ \A u : ~Contains(<<>>, u)
    BY DEF IsInjective, Contains
  <2>4. base.nactive = Len(base.active) + Len(base.later)
    BY <1>1, <2>3
  <2>5. base.count = Cardinality(Marks(base.flags))
    BY <1>1, <2>1, <2>2
  <2>6. IsInjective(base.active) /\ IsInjective(base.later)
    BY <1>1, <2>3
  <2>7. ASSUME NEW u \in Ev
        PROVE  /\ "ACTIVE" \in base.flags[u] <=> Contains(base.active, u)
               /\ "ACTIVE_LATER" \in base.flags[u] <=> Contains(base.later, u)
               /\ ~("ACTIVE" \in base.flags[u] /\ "ACTIVE_LATER" \in base.flags[u])
    BY <1>1, <2>3
  <2> QED
    BY <1>2, <2>4, <2>5, <2>6, <2>7 DEF QueueInv
<1>4. KindInv(base)
  BY <1>1 DEF KindInv, KindOf
<1>5. CauseInv(base, ready)
  BY <1>1, Kinds DEF CauseInv, CauseOf
<1>6. LoopInv
  BY <1>1, Kinds DEF Init, LoopInv
<1>7. SigInv
  <2>1. \A s \in Sigs : base.flags[s] = {} /\ running # s
    BY <1>1, Kinds DEF Init
  <2>2. pipe \in [Signals -> 0..MaxCaught] /\ owed \in [Sigs -> Nat]
    BY BoundAssumption DEF Init
  <2> QED
    BY <2>1, <2>2 DEF SigInv
<1>8. BevInv
  <2>1. \A v \in Bevs : bev[v] = "alive" /\ \A e \in Both(v) : "FINALIZING" \notin base.flags[e]
    BY <1>1, Kinds, Bufferevents DEF Init
  <2> QED
    BY <2>1 DEF BevInv, BevOf, Init
<1>9. FreedInv
  BY DEF FreedInv, Init
<1> QED
  BY <1>3, <1>4, <1>5, <1>6, <1>7, <1>8, <1>9 DEF IInv

-----------------------------------------------------------------------------
(* What a step on one event leaves alone. *)

\* What Watched says of a step.
WatchStep ==
    \A e \in Ios :
        /\ "TIMEOUT" \in base'.flags[e] /\ "INSERTED" \notin base'.flags[e]
        /\ ~("TIMEOUT" \in base.flags[e] /\ "INSERTED" \notin base.flags[e])
        => /\ "ACTIVE" \in base.flags[e] /\ "TIMEOUT" \in base.res[e]
           /\ UNCHANGED running

LEMMA KindKept ==
    ASSUME NEW b, NEW n, NEW E, KindInv(b), \A u \in Ev \ E : Same(n, b, u),
           \A u \in E \cap Ev : KindOf(n, u)
    PROVE  KindInv(n)
  BY DEF KindInv, KindOf, Same

LEMMA CauseKept ==
    ASSUME NEW b, NEW n, NEW E, NEW r, NEW s, CauseInv(b, r),
           \A u \in Ev \ E : Same(n, b, u) /\ (u \in r => u \in s),
           \A u \in E \cap (Timers \cup Ios) : CauseOf(n, s, u)
    PROVE  CauseInv(n, s)
<1> SUFFICES ASSUME NEW u \in Timers \cup Ios, u \notin E PROVE CauseOf(n, s, u)
  BY DEF CauseInv
<1>1. u \in Ev \ E
  BY Kinds
<1>2. CauseOf(b, r, u) /\ Same(n, b, u) /\ (u \in r => u \in s)
  BY <1>1 DEF CauseInv
<1> QED
  BY <1>2 DEF CauseOf, Same

\* Events that are not in the heap or the maps of the base are no concern of Watched.
LEMMA WatchKept ==
    ASSUME NEW E, \A u \in Ev \ E : Same(base', base, u),
           \A u \in E \cap Ios : "TIMEOUT" \in base'.flags[u] => "INSERTED" \in base'.flags[u]
    PROVE  WatchStep
<1> SUFFICES ASSUME NEW u \in Ios, u \notin E, "TIMEOUT" \in base'.flags[u], "INSERTED" \notin base'.flags[u]
             PROVE  "TIMEOUT" \in base.flags[u] /\ "INSERTED" \notin base.flags[u]
  BY DEF WatchStep
<1>1. Same(base', base, u)
  BY Kinds
<1> QED
  BY <1>1 DEF Same

\* A step that changes timers, deferred callbacks, exits and the events of
\* bufferevents that the program uses.
LEMMA OneEvent ==
    ASSUME IInv, NEW e \in Ev, e \notin Sigs, e # Pipe,
           QueueInv(base'), Others(base', base, e), KindOf(base', e),
           e \in Timers \cup Ios => CauseOf(base', ready, e),
           e \in Ios => Alive(e) /\ "FINALIZING" \notin base'.flags[e],
           phase # "freed",
           UNCHANGED <<uses, phase, running, turns, ready, pipe, owed, bev>>
    PROVE  IInv'
<1>1. \A u \in Ev \ {e} : Same(base', base, u)
  BY DEF Others
<1>2. KindInv(base')
  <2>1. \A u \in {e} \cap Ev : KindOf(base', u)
    OBVIOUS
  <2>2. KindInv(base)
    BY DEF IInv
  <2> QED
    BY <1>1, <2>1, <2>2, KindKept
<1>3. CauseInv(base', ready')
  <2>1. \A u \in {e} \cap (Timers \cup Ios) : CauseOf(base', ready', u)
    OBVIOUS
  <2>2. \A u \in Ev \ {e} : Same(base', base, u) /\ (u \in ready => u \in ready')
    BY <1>1
  <2>3. CauseInv(base, ready)
    BY DEF IInv
  <2> QED
    BY <2>1, <2>2, <2>3, CauseKept
<1>4. \A s \in Sigs : base'.flags[s] = base.flags[s] /\ base'.ncalls[s] = base.ncalls[s]
  BY <1>1, Kinds DEF Same
<1>5. base'.flags[Pipe] = base.flags[Pipe]
  BY <1>1, Kinds DEF Same
<1>6. LoopInv'
  BY <1>4, <1>5 DEF IInv, LoopInv
<1>7. SigInv'
  BY <1>4 DEF IInv, SigInv, Waiting
<1>8. ASSUME NEW v \in Bevs PROVE BevOf(v)'
  <2>1. BevOf(v)
    BY DEF IInv, BevInv
  <2>2. Both(v) \subseteq Ev
    BY Kinds, Bufferevents
  <2>3. CASE e \notin Both(v)
    <3>1. \A u \in Both(v) : base'.flags[u] = base.flags[u]
      BY <1>1, <2>2, <2>3 DEF Same
    <3> QED
      BY <2>1, <3>1 DEF BevOf, Both
  <2>4. CASE e \in Both(v)
    <3>1. e \in Ios
      BY <2>4, Bufferevents
    <3>2. bev[v] = "alive"
      <4>1. PICK w \in Bevs : e \in Both(w) /\ bev[w] = "alive"
        BY <3>1 DEF Alive, Both
      <4> QED
        BY <2>4, <4>1, Bufferevents
    <3>3. \A u \in Both(v) : "FINALIZING" \notin base'.flags[u]
      BY <1>1, <2>1, <2>2, <3>1, <3>2 DEF Same, BevOf, Both
    <3> QED
      BY <3>2, <3>3 DEF BevOf, Both
  <2> QED
    BY <2>3, <2>4
<1>9. BevInv' /\ FreedInv'
  BY <1>8 DEF IInv, BevInv, FreedInv
<1> QED
  BY <1>2, <1>3, <1>6, <1>7, <1>9 DEF IInv

-----------------------------------------------------------------------------
(* The steps of the program. *)

LEMMA InUserCode ==
    ASSUME IInv, UserCode
    PROVE  phase # "freed"
  BY DEF IInv, LoopInv, UserCode

LEMMA Usables ==
    ASSUME IInv, NEW e \in Timers \cup Ios, Usable(e)
    PROVE  /\ e \in Ev /\ e \notin Sigs /\ e # Pipe /\ ~Finalizing(base, e)
           /\ "ACTIVE_LATER" \notin base.flags[e] /\ (e \in Ios => Alive(e))
           /\ KindOf(base, e) /\ CauseOf(base, ready, e)
<1>1. e \in Ev /\ e \notin Sigs /\ e # Pipe /\ e \notin Deferreds
  BY Kinds
<1>2. KindOf(base, e) /\ CauseOf(base, ready, e)
  BY <1>1 DEF IInv, KindInv, CauseInv
<1>3. e \in Ios => Alive(e) /\ ~Finalizing(base, e)
  <2> SUFFICES ASSUME e \in Ios PROVE Alive(e) /\ ~Finalizing(base, e)
    OBVIOUS
  <2>1. Alive(e)
    BY Kinds DEF Usable
  <2>2. PICK v \in Bevs : e \in Both(v) /\ bev[v] = "alive"
    BY <2>1 DEF Alive, Both
  <2>3. BevOf(v)
    BY DEF IInv, BevInv
  <2> QED
    BY <2>1, <2>2, <2>3 DEF BevOf, Finalizing
<1> QED
  BY <1>1, <1>2, <1>3, Kinds DEF KindOf, Finalizing

LEMMA UserAddInv ==
    ASSUME IInv, NEW e \in Timers \cup Ios, UserAdd(e)
    PROVE  IInv' /\ WatchStep
<1> DEFINE tv  == Tv[e]
           new == base'
<1>1. /\ UserCode /\ Usable(e) /\ base' = Add(base, e, tv)
      /\ UNCHANGED <<uses, phase, running, turns, ready, pipe, owed, bev>>
  BY DEF UserAdd
<1>2. /\ e \in Ev /\ e \notin Sigs /\ e # Pipe /\ ~Finalizing(base, e)
      /\ "ACTIVE_LATER" \notin base.flags[e] /\ (e \in Ios => Alive(e))
      /\ KindOf(base, e) /\ CauseOf(base, ready, e)
  BY <1>1, Usables
<1>3. tv \in Nat \cup {Forever} /\ QueueInv(base)
  BY TvAssumption DEF IInv
<1> HIDE DEF tv
<1>4. /\ QueueInv(base') /\ Others(base', base, e) /\ base'.res[e] = base.res[e]
      /\ tv = Forever => base'.flags[e] = Added(base, e) /\ base'.due[e] = base.due[e]
      /\ tv # Forever => base'.flags[e] =
            (IF "ACTIVE" \in base.flags[e] /\ "TIMEOUT" \in base.res[e]
             THEN Added(base, e) \ {"ACTIVE"} ELSE Added(base, e)) \cup {"TIMEOUT"}
  BY <1>1, <1>2, <1>3, AddIs
<1>5. /\ "FINALIZING" \notin base'.flags[e] /\ "ACTIVE_LATER" \notin base'.flags[e]
      /\ "INSERTED" \in base'.flags[e] <=> "INSERTED" \in base.flags[e] \/ Watchable(base, e)
      /\ "ACTIVE" \in base'.flags[e] =>
            "ACTIVE" \in base.flags[e] /\ (tv # Forever => "TIMEOUT" \notin base.res[e])
      /\ "TIMEOUT" \in base'.flags[e] => "TIMEOUT" \in base.flags[e] \/ tv # Forever
  <2>1. CASE tv = Forever
    BY <1>2, <1>4, <2>1 DEF Added, Finalizing
  <2>2. CASE tv # Forever
    BY <1>2, <1>4, <2>2 DEF Added, Finalizing
  <2> QED
    BY <2>1, <2>2
<1>6. KindOf(base', e)
  BY <1>2, <1>5 DEF KindOf, Watchable
<1>7. CauseOf(base', ready, e)
  <2> SUFFICES ASSUME "ACTIVE" \in base'.flags[e], "FINALIZING" \notin base'.flags[e]
               PROVE  /\ "IO" \in base'.res[e] => e \in ready
                      /\ "TIMEOUT" \in base'.res[e] => base'.due[e] <= 0
                      /\ e \in Ios /\ "INSERTED" \notin base'.flags[e] => "TIMEOUT" \in base'.res[e]
    BY DEF CauseOf
  <2>1. /\ "IO" \in base.res[e] => e \in ready
        /\ "TIMEOUT" \in base.res[e] => base.due[e] <= 0
        /\ e \in Ios /\ "INSERTED" \notin base.flags[e] => "TIMEOUT" \in base.res[e]
    BY <1>2, <1>5 DEF CauseOf, Finalizing
  <2>2. "TIMEOUT" \in base.res[e] => base'.due[e] = base.due[e]
    BY <1>4, <1>5
  <2> QED
    BY <1>4, <1>5, <2>1, <2>2
<1>8. IInv'
  BY <1>1, <1>2, <1>4, <1>5, <1>6, <1>7, InUserCode, OneEvent
<1>9. WatchStep
  <2> SUFFICES ASSUME NEW u \in Ios,
                      "TIMEOUT" \in base'.flags[u], "INSERTED" \notin base'.flags[u],
                      ~("TIMEOUT" \in base.flags[u] /\ "INSERTED" \notin base.flags[u])
               PROVE  "ACTIVE" \in base.flags[u] /\ "TIMEOUT" \in base.res[u]
    BY <1>1 DEF WatchStep
  <2>1. u \in Ev
    BY Kinds
  <2>2. u = e
    BY <1>4, <2>1 DEF Others, Same
  <2>3. ~Watchable(base, e) /\ InMap(e) /\ "INSERTED" \notin base.flags[e]
    BY <1>5, <2>2, Kinds
  <2>4. "ACTIVE" \in base.flags[e]
    BY <1>2, <2>3 DEF Watchable
  <2> QED
    BY <1>2, <2>2, <2>3, <2>4 DEF CauseOf, Finalizing
<1> QED
  BY <1>8, <1>9

LEMMA UserDelInv ==
    ASSUME IInv, NEW e \in Timers \cup Ios, UserDel(e)
    PROVE  IInv' /\ WatchStep
<1>1. /\ UserCode /\ Usable(e) /\ base' = Del(base, e)
      /\ UNCHANGED <<uses, phase, running, turns, ready, pipe, owed, bev>>
  BY DEF UserDel
<1>2. /\ e \in Ev /\ e \notin Sigs /\ e # Pipe /\ ~Finalizing(base, e) /\ (e \in Ios => Alive(e))
      /\ QueueInv(base)
  BY <1>1, Usables DEF IInv
<1>3. QueueInv(base') /\ Others(base', base, e) /\ base'.flags[e] = {}
  <2>1. Becomes(base', base, e, {})
    BY <1>1, <1>2, DelIs
  <2> QED
    BY <1>2, <2>1, BecomesIs
<1>4. KindOf(base', e) /\ CauseOf(base', ready, e)
  BY <1>3 DEF KindOf, CauseOf
<1>5. IInv'
  BY <1>1, <1>2, <1>3, <1>4, InUserCode, OneEvent
<1>6. WatchStep
  <2>1. \A u \in Ev \ {e} : Same(base', base, u)
    BY <1>3 DEF Others
  <2> QED
    BY <1>3, <2>1, WatchKept
<1> QED
  BY <1>5, <1>6

LEMMA UserScheduleInv ==
    ASSUME IInv, NEW d \in Deferreds, UserSchedule(d) \/ UserCancel(d)
    PROVE  IInv' /\ WatchStep
<1>1. /\ UserCode /\ UNCHANGED <<uses, phase, running, turns, ready, pipe, owed, bev>>
      /\ base' = Schedule(base, d) \/ base' = Unqueue(base, d)
  BY DEF UserSchedule, UserCancel
<1>2. /\ d \in Ev /\ d \notin Sigs /\ d # Pipe /\ d \notin Timers \cup Ios
      /\ QueueInv(base) /\ KindOf(base, d)
  BY Kinds DEF IInv, KindInv
<1>3. ~Finalizing(base, d)
  BY <1>2 DEF KindOf, Finalizing
<1>4. /\ QueueInv(base') /\ Others(base', base, d)
      /\ base'.flags[d] \subseteq base.flags[d] \cup {"ACTIVE", "ACTIVE_LATER"}
  <2>1. CASE base' = Schedule(base, d)
    BY <1>2, <1>3, <2>1, ScheduleIs
  <2>2. CASE base' = Unqueue(base, d)
    <3>1. Becomes(base', base, d, base.flags[d] \ {"ACTIVE", "ACTIVE_LATER"})
      BY <1>2, <2>2, UnqueueIs
    <3>2. /\ QueueInv(base') /\ Others(base', base, d)
          /\ base'.flags[d] = base.flags[d] \ {"ACTIVE", "ACTIVE_LATER"}
      BY <1>2, <3>1, BecomesIs
    <3> QED
      BY <3>2
  <2> QED
    BY <1>1, <2>1, <2>2
<1>5. KindOf(base', d)
  BY <1>2, <1>3, <1>4 DEF KindOf, Finalizing
<1>6. IInv'
  BY <1>1, <1>2, <1>4, <1>5, InUserCode, OneEvent
<1>7. WatchStep
  <2>1. \A u \in Ev \ {d} : Same(base', base, u)
    BY <1>4 DEF Others
  <2>2. {d} \cap Ios = {}
    BY <1>2
  <2> QED
    BY <2>1, <2>2, WatchKept
<1> QED
  BY <1>6, <1>7

LEMMA StopDispatchInv ==
    ASSUME IInv, NEW x \in Exits, StopDispatch(x)
    PROVE  IInv' /\ WatchStep
<1>1. /\ UserCode /\ UNCHANGED <<uses, phase, running, turns, ready, pipe, owed, bev>>
      /\ base.flags[x] = {} /\ base' = Activate(base, x, "TIMEOUT", 1)
  BY DEF StopDispatch
<1>2. /\ x \in Ev /\ x \notin Sigs /\ x # Pipe /\ x \notin Timers \cup Ios
      /\ QueueInv(base) /\ ~Finalizing(base, x)
  BY <1>1, Kinds DEF IInv, Finalizing
<1>3. /\ QueueInv(base') /\ Others(base', base, x)
      /\ base'.flags[x] = (base.flags[x] \ {"ACTIVE_LATER"}) \cup {"ACTIVE"}
  BY <1>1, <1>2, ActivateIs
<1>4. KindOf(base', x)
  BY <1>1, <1>3 DEF KindOf
<1>5. IInv'
  BY <1>1, <1>2, <1>3, <1>4, InUserCode, OneEvent
<1>6. WatchStep
  <2>1. \A u \in Ev \ {x} : Same(base', base, u)
    BY <1>3 DEF Others
  <2>2. {x} \cap Ios = {}
    BY <1>2
  <2> QED
    BY <2>1, <2>2, WatchKept
<1> QED
  BY <1>5, <1>6

LEMMA BevKept ==
    ASSUME BevInv, \A u \in Ios : base'.flags[u] = base.flags[u], UNCHANGED bev,
           \A u \in Ios : running' = u <=> running = u
    PROVE  BevInv'
<1>1. ASSUME NEW v \in Bevs PROVE BevOf(v)'
  <2>1. BevOf(v) /\ Both(v) \subseteq Ios
    BY Bufferevents DEF BevInv
  <2>2. \A u \in Both(v) : base'.flags[u] = base.flags[u]
    BY <2>1
  <2>3. running' \in Both(v) <=> running \in Both(v)
    BY <2>1
  <2> QED
    BY <2>1, <2>2, <2>3 DEF BevOf, Both
<1> QED
  BY <1>1 DEF BevInv

\* The signals are left alone.
LEMMA SigKept ==
    ASSUME SigInv, UNCHANGED <<pipe, owed, turns>>,
           \A s \in Sigs : /\ base'.flags[s] = base.flags[s] /\ base'.ncalls[s] = base.ncalls[s]
                           /\ running' = s <=> running = s
    PROVE  SigInv'
  BY DEF SigInv, Waiting

LEMMA RegSignalInv ==
    ASSUME IInv, NEW s \in Sigs, RegSignal(s)
    PROVE  IInv' /\ WatchStep
<1> DEFINE b1 == Add(base, Pipe, Forever)
           E  == {s, Pipe}
<1>1. /\ UserCode /\ UNCHANGED <<uses, phase, running, turns, ready, pipe, bev>>
      /\ base.flags[s] = {} /\ base' = Add(b1, s, Forever)
      /\ owed' = [owed EXCEPT ![s] = pipe[SigNo[s]]]
  BY DEF RegSignal
<1>2. /\ s \in Ev /\ Pipe \in Ev /\ s # Pipe /\ InMap(s) /\ InMap(Pipe)
      /\ s \notin Timers \cup Ios \cup Deferreds /\ Pipe \notin Timers \cup Ios \cup Sigs
      /\ QueueInv(base) /\ KindOf(base, Pipe)
  BY Kinds DEF IInv, KindInv
<1>3. ~Finalizing(base, Pipe)
  BY <1>2 DEF KindOf, Finalizing
<1>4. /\ QueueInv(b1) /\ Others(b1, base, Pipe) /\ b1.flags[Pipe] = Added(base, Pipe)
  BY <1>2, <1>3, AddForeverIs
<1> HIDE DEF b1
<1>5. b1.flags[s] = {}
  BY <1>1, <1>2, <1>4 DEF Others, Same
<1>6. QueueInv(base') /\ Others(base', b1, s) /\ base'.flags[s] = {"INSERTED"}
  <2>1. ~Finalizing(b1, s)
    BY <1>5 DEF Finalizing
  <2>2. QueueInv(base') /\ Others(base', b1, s) /\ base'.flags[s] = Added(b1, s)
    BY <1>1, <1>2, <1>4, <2>1, AddForeverIs
  <2>3. Added(b1, s) = {"INSERTED"}
    BY <1>2, <1>5 DEF Added, Watchable
  <2> QED
    BY <2>2, <2>3
<1>7. /\ \A u \in Ev \ E : Same(base', base, u)
      /\ base'.flags[Pipe] = Added(base, Pipe)
  BY <1>2, <1>4, <1>6 DEF Others, Same
<1>8. KindInv(base')
  <2>1. KindOf(base', s)
    BY <1>2, <1>6 DEF KindOf
  <2>2. KindOf(base', Pipe)
    BY <1>2, <1>7 DEF KindOf, Added
  <2>3. \A u \in E \cap Ev : KindOf(base', u)
    BY <2>1, <2>2
  <2>4. KindInv(base)
    BY DEF IInv
  <2> HIDE DEF E
  <2> QED
    BY <1>7, <2>3, <2>4, KindKept
<1>9. CauseInv(base', ready')
  <2>1. E \cap (Timers \cup Ios) = {} /\ CauseInv(base, ready)
    BY <1>2 DEF IInv
  <2>2. \A u \in Ev \ E : Same(base', base, u) /\ (u \in ready => u \in ready')
    BY <1>1, <1>7
  <2>3. \A u \in E \cap (Timers \cup Ios) : CauseOf(base', ready', u)
    BY <2>1
  <2>4. CauseInv(base, ready)
    BY <2>1
  <2> HIDE DEF E
  <2> QED
    BY <2>2, <2>3, <2>4, CauseKept
<1>10. \A t \in Sigs \ {s} : base'.flags[t] = base.flags[t] /\ base'.ncalls[t] = base.ncalls[t]
  BY <1>2, <1>7, Kinds DEF Same
<1>11. LoopInv'
  <2>1. "ACTIVE" \in base'.flags[Pipe] <=> "ACTIVE" \in base.flags[Pipe]
    BY <1>7 DEF Added
  <2> QED
    BY <1>1, <1>6, <1>10, <2>1 DEF IInv, LoopInv
<1>12. SigInv'
  <2>1. SigInv /\ running # s
    BY <1>1 DEF IInv, SigInv
  <2>2. pipe[SigNo[s]] \in Nat
    BY <2>1, BoundAssumption DEF SigInv, Signals
  <2>3. owed' \in [Sigs -> Nat] /\ owed'[s] = pipe[SigNo[s]] /\ \A t \in Sigs \ {s} : owed'[t] = owed[t]
    BY <1>1, <2>1, <2>2 DEF SigInv
  <2>4. \A t \in Sigs \ {s} : Waiting(t)' = Waiting(t)
    BY <1>1, <1>10 DEF Waiting
  <2>5. owed'[s] = pipe'[SigNo[s]] + Waiting(s)'
    <3>1. Waiting(s)' = 0
      <4>1. Waiting(s)' = 0 + 0
        BY <1>1, <1>6, <2>1 DEF Waiting
      <4> QED
        BY <4>1
    <3>2. pipe[SigNo[s]] = pipe[SigNo[s]] + 0
      BY <2>2
    <3>3. owed'[s] = pipe[SigNo[s]] /\ pipe' = pipe
      BY <1>1, <2>3
    <3> QED
      BY <3>1, <3>2, <3>3, Zenon
  <2>6. ASSUME NEW t \in Sigs
        PROVE  /\ "ACTIVE" \in base'.flags[t] => "INSERTED" \in base'.flags[t] /\ base'.ncalls[t] >= 1
               /\ running' = t => "INSERTED" \in base'.flags[t]
               /\ "INSERTED" \in base'.flags[t] => owed'[t] = pipe'[SigNo[t]] + Waiting(t)'
    <3>1. CASE t = s
      BY <1>6, <2>5, <3>1
    <3>2. CASE t # s
      BY <1>1, <1>10, <2>1, <2>3, <2>4, <3>2 DEF SigInv
    <3> QED
      BY <3>1, <3>2
  <2> QED
    BY <1>1, <2>1, <2>3, <2>6 DEF SigInv
<1>13. \A u \in Ios : base'.flags[u] = base.flags[u]
  BY <1>2, <1>7, Kinds DEF Same
<1>14. BevInv' /\ FreedInv'
  BY <1>1, <1>13, BevKept, InUserCode DEF IInv, FreedInv
<1>15. WatchStep
  BY <1>13 DEF WatchStep
<1> QED
  BY <1>6, <1>8, <1>9, <1>11, <1>12, <1>14, <1>15 DEF IInv

\* A bufferevent that is freed: its finalizer waits in one event, the other is out.
LEMMA BevGone ==
    ASSUME IInv, NEW v \in Bevs, bev[v] \in {"alive", "freeing"}, phase # "freed",
           NEW current, base' = FinalizeMany(base, v, current),
           bev' = [bev EXCEPT ![v] = "finalizing"], running' \notin Both(v),
           \A u \in Ios \ Both(v) : running' = u <=> running = u, UNCHANGED ready
    PROVE  /\ QueueInv(base') /\ KindInv(base') /\ CauseInv(base', ready') /\ BevInv'
           /\ \A u \in Ev \ Both(v) : Same(base', base, u)
           /\ WatchStep
<1> DEFINE E == Both(v)
<1>1. E \subseteq Ios /\ E \subseteq Ev /\ \A e \in E : ~Finalizing(base, e)
  BY Kinds, Bufferevents DEF IInv, BevInv, BevOf, Finalizing
<1>2. /\ QueueInv(base') /\ \A u \in Ev \ E : Same(base', base, u)
      /\ \E e \in E : /\ base'.flags[e] = {"ACTIVE", "FINALIZING"}
                      /\ \A f \in E \ {e} : base'.flags[f] = {}
  BY <1>1, FinalizeManyIs DEF IInv
<1>3. \A e \in E : base'.flags[e] = {"ACTIVE", "FINALIZING"} \/ base'.flags[e] = {}
  BY <1>2
<1>4. KindInv(base')
  <2>1. \A u \in E \cap Ev : KindOf(base', u)
    BY <1>1, <1>3 DEF KindOf
  <2>2. KindInv(base)
    BY DEF IInv
  <2> HIDE DEF E
  <2> QED
    BY <1>2, <2>1, <2>2, KindKept
<1>5. CauseInv(base', ready')
  <2>1. \A u \in E \cap (Timers \cup Ios) : CauseOf(base', ready', u)
    BY <1>3 DEF CauseOf
  <2>2. CauseInv(base, ready)
    BY DEF IInv
  <2>3. \A u \in Ev \ E : Same(base', base, u) /\ (u \in ready => u \in ready')
    BY <1>2
  <2> HIDE DEF E
  <2> QED
    BY <2>1, <2>2, <2>3, CauseKept
<1>6. ASSUME NEW w \in Bevs PROVE BevOf(w)'
  <2>1. CASE w = v
    <3>1. bev'[v] = "finalizing"
      BY DEF IInv, BevInv
    <3> QED
      BY <1>2, <2>1, <3>1 DEF BevOf, Both
  <2>2. CASE w # v
    <3>1. /\ BevOf(w) /\ bev'[w] = bev[w] /\ Both(w) \cap E = {} /\ Both(w) \subseteq Ios
      BY <2>2, Bufferevents DEF IInv, BevInv
    <3>2. \A u \in Both(w) : base'.flags[u] = base.flags[u] /\ (running' = u <=> running = u)
      BY <1>2, <3>1, Kinds DEF Same
    <3>3. running' \in Both(w) <=> running \in Both(w)
      BY <3>2
    <3> QED
      BY <3>1, <3>2, <3>3 DEF BevOf, Both
  <2> QED
    BY <2>1, <2>2
<1>7. BevInv'
  BY <1>6 DEF IInv, BevInv
<1>8. WatchStep
  <2>1. \A u \in E \cap Ios : "TIMEOUT" \in base'.flags[u] => "INSERTED" \in base'.flags[u]
    BY <1>3
  <2> HIDE DEF E
  <2> QED
    BY <1>2, <2>1, WatchKept
<1> QED
  BY <1>2, <1>4, <1>5, <1>7, <1>8

LEMMA BevFreeInv ==
    ASSUME IInv, NEW v \in Bevs, BevFree(v)
    PROVE  IInv' /\ WatchStep
<1>1. /\ UserCode /\ bev[v] = "alive" /\ UNCHANGED <<uses, phase, running, turns, ready, pipe, owed>>
      /\ phase # "freed"
  BY InUserCode DEF BevFree
<1>2. CASE running \in Both(v)
  <2>1. UNCHANGED base /\ bev' = [bev EXCEPT ![v] = "freeing"]
    BY <1>2 DEF BevFree, Both
  <2>2. \A w \in Bevs : BevOf(w)'
    BY <1>1, <1>2, <2>1 DEF IInv, BevInv, BevOf, Both
  <2>3. BevInv'
    BY <2>1, <2>2 DEF IInv, BevInv
  <2>4. LoopInv' /\ SigInv' /\ FreedInv'
    BY <1>1, <2>1 DEF IInv, LoopInv, SigInv, Waiting, FreedInv
  <2>5. WatchStep
    BY <2>1 DEF WatchStep
  <2> QED
    BY <1>1, <2>1, <2>3, <2>4, <2>5 DEF IInv
<1>3. CASE running \notin Both(v)
  <2>1. /\ base' = FinalizeMany(base, v, running) /\ bev' = [bev EXCEPT ![v] = "finalizing"]
    BY <1>3 DEF BevFree, Both
  <2>2. /\ QueueInv(base') /\ KindInv(base') /\ CauseInv(base', ready') /\ BevInv'
        /\ \A u \in Ev \ Both(v) : Same(base', base, u)
        /\ WatchStep
    BY <1>1, <1>3, <2>1, BevGone
  <2>3. \A u \in Sigs \cup {Pipe} : base'.flags[u] = base.flags[u] /\ base'.ncalls[u] = base.ncalls[u]
    BY <2>2, Kinds, Bufferevents DEF Same
  <2>4. LoopInv' /\ FreedInv'
    BY <1>1, <2>3 DEF IInv, LoopInv, FreedInv
  <2>5. SigInv'
    BY <1>1, <2>3, SigKept DEF IInv
  <2> QED
    BY <1>1, <2>2, <2>4, <2>5 DEF IInv
<1> QED
  BY <1>2, <1>3

LEMMA CbReturnInv ==
    ASSUME IInv, CbReturn
    PROVE  IInv' /\ WatchStep
<1> DEFINE done == {v \in Bevs : running \in Both(v) /\ bev[v] = "freeing"}
           v == CHOOSE v \in done : TRUE
<1>1. /\ running # Nobody /\ running \in Ev /\ phase = "process" /\ turns \in Nat
      /\ IF running \in Sigs THEN turns >= 1 ELSE turns = 0
      /\ UNCHANGED <<uses, phase, ready, pipe>>
  BY DEF CbReturn, IInv, LoopInv
<1>2. \/ turns > 1 /\ turns' = turns - 1 /\ owed' = [owed EXCEPT ![running] = @ - 1] /\ running' = running
      \/ ~(turns > 1) /\ turns' = 0 /\ running' = Nobody /\ owed' = owed
  BY DEF CbReturn
<1>3. /\ bev' = [w \in Bevs |-> IF w \in done THEN "finalizing" ELSE bev[w]]
      /\ base' = IF done = {} THEN base ELSE FinalizeMany(base, v, running)
  BY DEF CbReturn, Both
<1>4. /\ bev \in [Bevs -> {"alive", "freeing", "finalizing", "gone"}]
      /\ pipe \in [Signals -> 0..MaxCaught] /\ owed \in [Sigs -> Nat]
  BY DEF IInv, BevInv, SigInv
<1>5. CASE done = {}
  <2>1. base' = base /\ bev' = bev
    BY <1>3, <1>4, <1>5
  <2>2. BevInv'
    <3>1. ASSUME NEW w \in Bevs PROVE BevOf(w)'
      <4>1. BevOf(w) /\ Both(w) \subseteq Ev
        BY Kinds, Bufferevents DEF IInv, BevInv
      <4>2. bev[w] # "freeing" \/ running \notin Both(w)
        BY <1>5
      <4>3. running' = running \/ running' \notin Both(w)
        BY <1>2, <4>1, Kinds
      <4> QED
        BY <2>1, <4>1, <4>2, <4>3 DEF BevOf, Both
    <3> QED
      BY <2>1, <3>1 DEF IInv, BevInv
  <2>3. LoopInv'
    BY <1>1, <1>2, <2>1, Kinds DEF IInv, LoopInv
  <2>4. SigInv'
    <3>1. CASE turns > 1
      <4>1. running \in Sigs /\ "INSERTED" \in base.flags[running] /\ running' = running /\ turns' = turns - 1
        BY <1>1, <1>2, <3>1 DEF IInv, SigInv
      <4>2. owed[running] = pipe[SigNo[running]] + Waiting(running)
        BY <4>1 DEF IInv, SigInv
      <4>3. pipe[SigNo[running]] \in Nat /\ base.ncalls[running] \in Nat /\ owed[running] \in Nat
        <5>1. base \in Base
          BY QueueTypes DEF IInv
        <5>2. base.ncalls[running] \in Nat
          BY <1>1, <5>1 DEF Base
        <5>3. SigNo[running] \in Signals
          BY <4>1 DEF Signals
        <5> QED
          BY <1>4, <4>1, <5>2, <5>3, BoundAssumption
      <4> DEFINE k == IF "ACTIVE" \in base.flags[running] THEN base.ncalls[running] ELSE 0
                 o == owed[running]
                 p == pipe[SigNo[running]]
      <4>4. Waiting(running) = k + (turns - 1) /\ Waiting(running)' = k + ((turns - 1) - 1) /\ k \in Nat
        BY <2>1, <4>1, <4>3 DEF Waiting
      <4>5. o - 1 \in Nat /\ o - 1 = p + (k + ((turns - 1) - 1))
        <5>1. o = p + (k + (turns - 1)) /\ p \in Nat /\ o \in Nat
          BY <4>2, <4>3, <4>4
        <5> HIDE DEF k, o, p
        <5>2. turns \in Nat /\ turns > 1 /\ k \in Nat
          BY <1>1, <3>1, <4>4
        <5> QED
          BY <5>1, <5>2
      <4>6. owed' = [owed EXCEPT ![running] = o - 1]
        BY <1>2, <3>1
      <4> HIDE DEF o, k
      <4>7. owed' \in [Sigs -> Nat] /\ owed'[running] = o - 1 /\ \A s \in Sigs \ {running} : owed'[s] = owed[s]
        BY <1>4, <4>1, <4>5, <4>6
      <4>8. owed'[running] = pipe'[SigNo[running]] + Waiting(running)'
        BY <1>1, <4>4, <4>5, <4>7, Zenon
      <4>9. ASSUME NEW s \in Sigs
            PROVE  /\ "ACTIVE" \in base'.flags[s] => "INSERTED" \in base'.flags[s] /\ base'.ncalls[s] >= 1
                   /\ running' = s => "INSERTED" \in base'.flags[s]
                   /\ "INSERTED" \in base'.flags[s] => owed'[s] = pipe'[SigNo[s]] + Waiting(s)'
        <5>1. CASE s = running
          BY <2>1, <4>1, <4>8, <5>1 DEF IInv, SigInv
        <5>2. CASE s # running
          <6>1. Waiting(s)' = Waiting(s)
            BY <2>1, <4>1, <5>2 DEF Waiting
          <6> QED
            BY <1>1, <2>1, <4>1, <4>7, <5>2, <6>1 DEF IInv, SigInv
        <5> QED
          BY <5>1, <5>2
      <4> QED
        BY <1>1, <1>4, <4>7, <4>9 DEF SigInv
    <3>2. CASE ~(turns > 1)
      <4>1. running' = Nobody /\ owed' = owed /\ (running \in Sigs => turns = 1)
        BY <1>1, <1>2, <3>2
      <4>2. \A s \in Sigs : running' # s
        BY <4>1, Kinds
      <4>3. ASSUME NEW s \in Sigs PROVE Waiting(s)' = Waiting(s)
        BY <2>1, <4>1, <4>2 DEF Waiting
      <4> QED
        BY <1>1, <1>4, <2>1, <4>1, <4>2, <4>3 DEF IInv, SigInv
    <3> QED
      BY <3>1, <3>2
  <2>5. FreedInv' /\ WatchStep
    BY <1>1, <2>1 DEF FreedInv, WatchStep
  <2> QED
    BY <1>1, <2>1, <2>2, <2>3, <2>4, <2>5 DEF IInv
<1>6. CASE done # {}
  <2>1. v \in Bevs /\ running \in Both(v) /\ bev[v] = "freeing"
    <3>1. v \in done
      BY <1>6
    <3> HIDE DEF v
    <3> QED
      BY <3>1
  <2>2. base' = FinalizeMany(base, v, running)
    BY <1>3, <1>6
  <2> HIDE DEF v
  <2>3. \A w \in Bevs : w \in done <=> w = v
    BY <2>1, Bufferevents
  <2>4. bev' = [bev EXCEPT ![v] = "finalizing"]
    BY <1>3, <1>4, <2>3
  <2> HIDE DEF done
  <2>5. running \in Ios /\ running \notin Sigs
    BY <2>1, Kinds, Bufferevents
  <2>6. running' = Nobody /\ turns' = turns /\ owed' = owed /\ turns' = 0
    BY <1>1, <1>2, <2>5
  <2>7. running' \notin Both(v) /\ \A u \in Ios \ Both(v) : running' = u <=> running = u
    BY <2>1, <2>6, Kinds, Bufferevents
  <2>8. /\ QueueInv(base') /\ KindInv(base') /\ CauseInv(base', ready') /\ BevInv'
        /\ \A u \in Ev \ Both(v) : Same(base', base, u)
        /\ WatchStep
    BY <1>1, <2>1, <2>2, <2>4, <2>7, BevGone
  <2>9. \A u \in Sigs \cup {Pipe} : base'.flags[u] = base.flags[u] /\ base'.ncalls[u] = base.ncalls[u]
    BY <2>1, <2>8, Kinds, Bufferevents DEF Same
  <2>10. LoopInv'
    BY <1>1, <2>6, <2>9, Kinds DEF IInv, LoopInv
  <2>11. SigInv'
    <3>1. \A s \in Sigs : running' = s <=> running = s
      BY <2>5, <2>6, Kinds
    <3> QED
      BY <1>1, <2>6, <2>9, <3>1, SigKept DEF IInv
  <2>12. FreedInv'
    BY <1>1 DEF FreedInv
  <2> QED
    BY <2>8, <2>10, <2>11, <2>12 DEF IInv
<1> QED
  BY <1>5, <1>6

-----------------------------------------------------------------------------
(* The steps of the loop that call nothing, and those of the world. *)

\* Nothing but the times and the loop's own fields change.
LEMMA FlagsKept ==
    ASSUME IInv, base' \in Base,
           base'.flags = base.flags, base'.res = base.res, base'.ncalls = base.ncalls,
           base'.active = base.active, base'.later = base.later,
           base'.count = base.count, base'.nactive = base.nactive,
           \A e \in Timers \cup Ios : base.due[e] <= 0 => base'.due[e] <= 0,
           ready \subseteq ready',
           UNCHANGED bev, running' = running
    PROVE  QueueInv(base') /\ KindInv(base') /\ CauseInv(base', ready') /\ BevInv' /\ WatchStep
<1>1. QueueInv(base')
  BY SameQueues DEF IInv
<1>2. KindInv(base')
  BY DEF IInv, KindInv, KindOf
<1>3. CauseInv(base', ready')
  BY DEF IInv, CauseInv, CauseOf
<1>4. BevInv'
  BY BevKept DEF IInv
<1>5. WatchStep
  BY DEF WatchStep
<1> QED
  BY <1>1, <1>2, <1>3, <1>4, <1>5

LEMMA StillInv ==
    ASSUME IInv, DispatchReturn \/ TurnEnds \/ Dispatch \/ \E e \in Ios : Happens(e)
    PROVE  IInv' /\ WatchStep
<1>1. base \in Base /\ QueueInv(base)
  BY QueueTypes DEF IInv
<1>2. CASE DispatchReturn \/ TurnEnds
  <2>1. /\ UNCHANGED <<uses, base, running, turns, ready, pipe, owed, bev>>
        /\ phase \in {"top", "process"} /\ phase' \in {"out", "top"}
        /\ (running = Nobody /\ base.active = <<>>) \/ phase = "top"
    BY <1>2 DEF DispatchReturn, TurnEnds
  <2>2. QueueInv(base') /\ KindInv(base') /\ CauseInv(base', ready') /\ BevInv' /\ WatchStep
    BY <1>1, <2>1, FlagsKept
  <2>3. running = Nobody
    BY <2>1 DEF IInv, LoopInv
  <2>7. \A u : ~Contains(<<>>, u)
    BY DEF Contains
  <2>4. \A u \in Sigs \cup {Pipe} : "ACTIVE" \notin base.flags[u]
    <3>1. CASE phase = "top"
      BY <3>1, Kinds DEF IInv, LoopInv
    <3>2. CASE base.active = <<>>
      <4>1. \A u \in Ev : "ACTIVE" \in base.flags[u] <=> Contains(base.active, u)
        BY <1>1, QueueTypes
      <4>2. \A u \in Ev : ~Contains(base.active, u)
        BY <2>7, <3>2, Zenon
      <4> QED
        BY <4>1, <4>2, Kinds
    <3> QED
      BY <2>1, <3>1, <3>2
  <2>5. LoopInv'
    BY <2>1, <2>3, <2>4 DEF IInv, LoopInv
  <2>6. SigInv' /\ FreedInv'
    BY <2>1 DEF IInv, SigInv, Waiting, FreedInv
  <2> QED
    BY <2>2, <2>5, <2>6 DEF IInv
<1>3. CASE Dispatch
  <2>1. /\ UNCHANGED <<uses, running, turns, ready, pipe, owed, bev>>
        /\ phase = "out" /\ phase' = "top" /\ base' = [base EXCEPT !.term = FALSE]
    BY <1>3 DEF Dispatch
  <2>2. /\ base' \in Base /\ base'.flags = base.flags /\ base'.res = base.res
        /\ base'.ncalls = base.ncalls /\ base'.due = base.due
        /\ base'.active = base.active /\ base'.later = base.later
        /\ base'.count = base.count /\ base'.nactive = base.nactive
    BY <1>1, <2>1 DEF Base
  <2>3. QueueInv(base') /\ KindInv(base') /\ CauseInv(base', ready') /\ BevInv' /\ WatchStep
    BY <2>1, <2>2, FlagsKept
  <2>4. LoopInv' /\ SigInv' /\ FreedInv'
    BY <2>1, <2>2 DEF IInv, LoopInv, SigInv, Waiting, FreedInv
  <2> QED
    BY <2>3, <2>4 DEF IInv
<1>4. CASE \E e \in Ios : Happens(e)
  <2>1. PICK e \in Ios : Happens(e)
    BY <1>4
  <2>2. /\ UNCHANGED <<uses, base, phase, running, turns, pipe, owed, bev>>
        /\ ready' = ready \cup {e} /\ phase # "freed"
    BY <2>1 DEF Happens
  <2>3. QueueInv(base') /\ KindInv(base') /\ CauseInv(base', ready') /\ BevInv' /\ WatchStep
    BY <1>1, <2>2, FlagsKept
  <2>4. LoopInv' /\ SigInv' /\ FreedInv'
    BY <2>2 DEF IInv, LoopInv, SigInv, Waiting, FreedInv
  <2> QED
    BY <2>3, <2>4 DEF IInv
<1> QED
  BY <1>2, <1>3, <1>4

LEMMA TickInv ==
    ASSUME IInv, Tick
    PROVE  IInv' /\ WatchStep
<1>1. base \in Base
  BY QueueTypes DEF IInv
<1> DEFINE d == [e \in Ev |-> IF "TIMEOUT" \in base.flags[e] /\ base.due[e] >= -Longest
                              THEN base.due[e] - 1 ELSE base.due[e]]
<1>2. /\ UNCHANGED <<uses, phase, running, turns, ready, pipe, owed, bev>>
      /\ phase # "freed" /\ base' = [base EXCEPT !.due = d]
  BY <1>1 DEF Tick, Base
<1>3. base.due \in [Ev -> Int]
  BY <1>1 DEF Base
<1>4. d \in [Ev -> Int] /\ \A e \in Ev : base.due[e] <= 0 => d[e] <= 0
  BY <1>3
<1> HIDE DEF d
<1>5. /\ base' \in Base /\ base'.flags = base.flags /\ base'.res = base.res
      /\ base'.ncalls = base.ncalls /\ base'.due = d
      /\ base'.active = base.active /\ base'.later = base.later
      /\ base'.count = base.count /\ base'.nactive = base.nactive
  BY <1>1, <1>2, <1>4 DEF Base
<1>6. \A e \in Timers \cup Ios : base.due[e] <= 0 => base'.due[e] <= 0
  BY <1>4, <1>5, Kinds
<1>7. QueueInv(base') /\ KindInv(base') /\ CauseInv(base', ready') /\ BevInv' /\ WatchStep
  BY <1>2, <1>5, <1>6, FlagsKept
<1>8. LoopInv' /\ SigInv' /\ FreedInv'
  BY <1>2, <1>5 DEF IInv, LoopInv, SigInv, Waiting, FreedInv
<1> QED
  BY <1>7, <1>8 DEF IInv

LEMMA CaughtInv ==
    ASSUME IInv, NEW n \in Signals, Caught(n)
    PROVE  IInv' /\ WatchStep
<1>1. /\ UNCHANGED <<uses, base, phase, running, turns, ready, bev>> /\ pipe[n] < MaxCaught
      /\ pipe' = [pipe EXCEPT ![n] = @ + 1] /\ phase # "freed"
      /\ owed' = [s \in Sigs |-> IF SigNo[s] = n /\ "INSERTED" \in base.flags[s]
                                 THEN owed[s] + 1 ELSE owed[s]]
  BY DEF Caught
<1>2. base \in Base /\ SigInv /\ pipe \in [Signals -> 0..MaxCaught] /\ owed \in [Sigs -> Nat]
  BY QueueTypes DEF IInv, SigInv
<1>3. QueueInv(base') /\ KindInv(base') /\ CauseInv(base', ready') /\ BevInv' /\ WatchStep
  BY <1>1, <1>2, FlagsKept
<1>4. LoopInv' /\ FreedInv'
  BY <1>1 DEF IInv, LoopInv, FreedInv
<1>5. pipe' \in [Signals -> 0..MaxCaught] /\ owed' \in [Sigs -> Nat]
  <2>1. pipe[n] + 1 \in 0..MaxCaught
    BY <1>1, <1>2, BoundAssumption
  <2> QED
    BY <1>1, <1>2, <2>1
<1>6. ASSUME NEW s \in Sigs
      PROVE  /\ "ACTIVE" \in base'.flags[s] => "INSERTED" \in base'.flags[s] /\ base'.ncalls[s] >= 1
             /\ running' = s => "INSERTED" \in base'.flags[s]
             /\ "INSERTED" \in base'.flags[s] => owed'[s] = pipe'[SigNo[s]] + Waiting(s)'
  <2>1. Waiting(s)' = Waiting(s)
    BY <1>1 DEF Waiting
  <2>2. SigNo[s] \in Signals
    BY DEF Signals
  <2>3. "INSERTED" \in base.flags[s] => owed'[s] = pipe'[SigNo[s]] + Waiting(s)
    <3> SUFFICES ASSUME "INSERTED" \in base.flags[s] PROVE owed'[s] = pipe'[SigNo[s]] + Waiting(s)
      OBVIOUS
    <3>1. owed[s] = pipe[SigNo[s]] + Waiting(s)
      BY <1>2 DEF SigInv
    <3>2. CASE SigNo[s] = n
      <4>1. owed'[s] = owed[s] + 1 /\ pipe'[SigNo[s]] = pipe[SigNo[s]] + 1
        BY <1>1, <1>2, <3>2
      <4>2. Waiting(s) \in Int /\ pipe[SigNo[s]] \in Int
        <5>1. base.ncalls[s] \in Int /\ turns \in Int
          <6>1. base.ncalls \in [Ev -> Nat] /\ s \in Ev
            BY <1>2, Kinds DEF Base
          <6> QED
            BY <6>1 DEF IInv, LoopInv
        <5>2. pipe[SigNo[s]] \in Int
          BY <1>2, <2>2, BoundAssumption
        <5> QED
          BY <5>1, <5>2 DEF Waiting
      <4>3. \A x, y \in Int : (x + y) + 1 = (x + 1) + y
        OBVIOUS
      <4> QED
        BY <3>1, <4>1, <4>2, <4>3, Zenon
    <3>3. CASE SigNo[s] # n
      <4>1. owed'[s] = owed[s] /\ pipe'[SigNo[s]] = pipe[SigNo[s]]
        BY <1>1, <1>2, <2>2, <3>3
      <4> QED
        BY <3>1, <4>1
    <3> QED
      BY <3>2, <3>3
  <2> QED
    BY <1>1, <1>2, <2>1, <2>3 DEF SigInv
<1>7. SigInv'
  BY <1>5, <1>6 DEF SigInv
<1> QED
  BY <1>3, <1>4, <1>7 DEF IInv

-----------------------------------------------------------------------------
(* The callbacks. *)

LEMMA Heads ==
    ASSUME IInv, NEW e, Processing(e)
    PROVE  /\ e \in Ev /\ "ACTIVE" \in base.flags[e] /\ "ACTIVE_LATER" \notin base.flags[e]
           /\ phase = "process" /\ running = Nobody /\ turns = 0
           /\ QueueInv(base) /\ KindOf(base, e)
           /\ \A v \in Bevs : bev[v] # "freeing"
<1>1. base.active \in Seq(Ev) /\ base.active # <<>> /\ Head(base.active) = e /\ QueueInv(base)
  BY QueueTypes DEF IInv, Processing
<1>2. e \in Ev /\ Contains(base.active, e)
  <2>1. 1 \in DOMAIN base.active /\ base.active[1] = e /\ e \in Ev
    BY <1>1
  <2> QED
    BY <2>1 DEF Contains
<1>3. /\ "ACTIVE" \in base.flags[e] <=> Contains(base.active, e)
      /\ ~("ACTIVE" \in base.flags[e] /\ "ACTIVE_LATER" \in base.flags[e])
  BY <1>1, <1>2, QueueTypes
<1>4. phase = "process" /\ running = Nobody /\ turns = 0
  BY Kinds DEF Processing, IInv, LoopInv
<1>5. \A v \in Bevs : bev[v] # "freeing"
  BY <1>4, Kinds, Bufferevents DEF IInv, BevInv, BevOf
<1> QED
  BY <1>1, <1>2, <1>3, <1>4, <1>5 DEF IInv, KindInv

\* A callback of a timer or an I/O event; the event may be in the base again.
LEMMA RunEventInv ==
    ASSUME IInv, NEW e \in Timers \cup Ios, RunEvent(e)
    PROVE  IInv' /\ WatchStep
<1> DEFINE b == TakeHead(base, e)
           E == {e}
<1>1. /\ Processing(e) /\ ~Finalizing(base, e)
      /\ base' = IF Persistent(e) THEN Persist(b, e) ELSE b
      /\ running' = e /\ ready' = ready \ {e}
      /\ UNCHANGED <<uses, phase, turns, pipe, owed, bev>>
  BY DEF RunEvent
<1>2. /\ e \in Ev /\ "ACTIVE" \in base.flags[e] /\ "ACTIVE_LATER" \notin base.flags[e]
      /\ phase = "process" /\ running = Nobody /\ turns = 0
      /\ QueueInv(base) /\ KindOf(base, e)
      /\ \A v \in Bevs : bev[v] # "freeing"
  BY <1>1, Heads
<1>3. Becomes(b, base, e, IF Persistent(e) THEN base.flags[e] \ {"ACTIVE"} ELSE {})
  <2>1. Becomes(b, base, e, IF Persistent(e) \/ Finalizing(base, e) THEN base.flags[e] \ {"ACTIVE"} ELSE {})
    BY <1>2, TakeHeadIs
  <2>2. Persistent(e) \/ Finalizing(base, e) <=> Persistent(e)
    BY <1>1
  <2> QED
    BY <2>1, <2>2
<1> HIDE DEF b
<1>4. /\ QueueInv(b) /\ Others(b, base, e)
      /\ b.flags[e] = IF Persistent(e) THEN base.flags[e] \ {"ACTIVE"} ELSE {}
  BY <1>2, <1>3, BecomesIs
<1>5. /\ QueueInv(base') /\ Others(base', base, e)
      /\ \/ base'.flags[e] = base.flags[e] \ {"ACTIVE"}
         \/ base'.flags[e] = {}
         \/ base'.flags[e] = Added(b, e) \cup {"TIMEOUT"} /\ b.flags[e] = base.flags[e] \ {"ACTIVE"}
  <2>1. CASE Persistent(e)
    <3>1. b.flags[e] = base.flags[e] \ {"ACTIVE"} /\ base' = Persist(b, e)
      BY <1>1, <1>4, <2>1
    <3>2. "ACTIVE" \notin b.flags[e] /\ "ACTIVE_LATER" \notin b.flags[e]
      BY <1>2, <3>1
    <3>3. /\ QueueInv(base') /\ Others(base', b, e)
          /\ \/ base'.flags[e] = b.flags[e]
             \/ base'.flags[e] = Added(b, e) \cup {"TIMEOUT"}
      BY <1>2, <1>4, <3>1, <3>2, PersistIs
    <3>4. Others(base', base, e)
      BY <1>4, <3>3 DEF Others, Same
    <3> QED
      BY <3>1, <3>3, <3>4
  <2>2. CASE ~Persistent(e)
    <3>1. b.flags[e] = {} /\ base' = b
      BY <1>1, <1>4, <2>2
    <3> QED
      BY <1>4, <3>1
  <2> QED
    BY <2>1, <2>2
<1>6. /\ "ACTIVE" \notin base'.flags[e] /\ "ACTIVE_LATER" \notin base'.flags[e]
      /\ "FINALIZING" \notin base'.flags[e]
      /\ "INSERTED" \in base'.flags[e] => InMap(e)
      /\ "TIMEOUT" \in base'.flags[e] =>
            \/ "TIMEOUT" \in base.flags[e] /\ ("INSERTED" \in base'.flags[e] <=> "INSERTED" \in base.flags[e])
            \/ InMap(e) => "INSERTED" \in base'.flags[e]
  <2>1. CASE base'.flags[e] = base.flags[e] \ {"ACTIVE"}
    BY <1>1, <1>2, <2>1 DEF KindOf, Finalizing
  <2>2. CASE base'.flags[e] = {}
    BY <2>2
  <2>3. CASE base'.flags[e] = Added(b, e) \cup {"TIMEOUT"} /\ b.flags[e] = base.flags[e] \ {"ACTIVE"}
    <3>1. InMap(e) => "INSERTED" \in Added(b, e)
      BY <1>2, <2>3 DEF Added, Watchable
    <3> QED
      BY <1>1, <1>2, <2>3, <3>1 DEF KindOf, Finalizing, Added, Watchable
  <2> QED
    BY <1>5, <2>1, <2>2, <2>3
<1>7. \A u \in Ev \ E : Same(base', base, u)
  BY <1>5 DEF Others
<1>8. KindInv(base')
  <2>1. KindOf(base', e)
    BY <1>6 DEF KindOf
  <2>2. \A u \in E \cap Ev : KindOf(base', u)
    BY <2>1
  <2>3. KindInv(base)
    BY DEF IInv
  <2> HIDE DEF E
  <2> QED
    BY <1>7, <2>2, <2>3, KindKept
<1>9. CauseInv(base', ready')
  <2>1. \A u \in E \cap (Timers \cup Ios) : CauseOf(base', ready', u)
    BY <1>6 DEF CauseOf
  <2>2. \A u \in Ev \ E : Same(base', base, u) /\ (u \in ready => u \in ready')
    BY <1>1, <1>7
  <2>3. CauseInv(base, ready)
    BY DEF IInv
  <2> HIDE DEF E
  <2> QED
    BY <2>1, <2>2, <2>3, CauseKept
<1>10. \A u \in Sigs \cup {Pipe} :
          /\ base'.flags[u] = base.flags[u] /\ base'.ncalls[u] = base.ncalls[u]
          /\ u # running' /\ u # running
  BY <1>1, <1>2, <1>7, Kinds DEF Same
<1>11. LoopInv'
  BY <1>1, <1>2, <1>10 DEF IInv, LoopInv
<1>12. SigInv'
  BY <1>1, <1>10, SigKept DEF IInv
<1>13. ASSUME NEW v \in Bevs PROVE BevOf(v)'
  <2>1. BevOf(v) /\ bev'[v] = bev[v] /\ bev[v] # "freeing" /\ Both(v) \subseteq Ev
    BY <1>1, <1>2, Kinds, Bufferevents DEF IInv, BevInv
  <2>2. CASE e \notin Both(v)
    <3>1. \A u \in Both(v) : base'.flags[u] = base.flags[u]
      BY <1>7, <2>1, <2>2 DEF Same
    <3>2. running' \notin Both(v)
      BY <1>1, <2>2
    <3> QED
      BY <2>1, <3>1, <3>2 DEF BevOf, Both
  <2>3. CASE e \in Both(v)
    <3>1. bev[v] = "alive"
      <4>1. bev[v] # "finalizing" /\ bev[v] # "gone"
        BY <1>1, <1>2, <2>1, <2>3 DEF BevOf, Finalizing
      <4> QED
        BY <2>1, <4>1 DEF IInv, BevInv
    <3>2. \A u \in Both(v) : "FINALIZING" \notin base'.flags[u]
      <4> SUFFICES ASSUME NEW u \in Both(v) PROVE "FINALIZING" \notin base'.flags[u]
        OBVIOUS
      <4>1. "FINALIZING" \notin base.flags[u]
        BY <2>1, <3>1 DEF BevOf
      <4> QED
        BY <1>6, <1>7, <2>1, <4>1 DEF Same
    <3> QED
      BY <2>1, <3>1, <3>2 DEF BevOf, Both
  <2> QED
    BY <2>2, <2>3
<1>14. BevInv' /\ FreedInv'
  BY <1>1, <1>2, <1>13 DEF IInv, BevInv, FreedInv
<1>15. WatchStep
  <2> SUFFICES ASSUME NEW u \in Ios,
                      "TIMEOUT" \in base'.flags[u], "INSERTED" \notin base'.flags[u],
                      ~("TIMEOUT" \in base.flags[u] /\ "INSERTED" \notin base.flags[u])
               PROVE  FALSE
    BY DEF WatchStep
  <2>1. u \in Ev /\ InMap(u)
    BY Kinds
  <2>2. u = e
    BY <1>7, <2>1 DEF Same
  <2> QED
    BY <1>6, <2>1, <2>2
<1> QED
  BY <1>5, <1>8, <1>9, <1>11, <1>12, <1>14, <1>15 DEF IInv

LEMMA RunFinalizerInv ==
    ASSUME IInv, NEW v \in Bevs, RunFinalizer(v)
    PROVE  IInv' /\ WatchStep
<1>1. PICK e \in Both(v) : Processing(e) /\ Finalizing(base, e) /\ base' = TakeHead(base, e)
  BY DEF RunFinalizer, Both
<1> DEFINE E == {e}
<1>2. bev' = [bev EXCEPT ![v] = "gone"] /\ UNCHANGED <<uses, phase, running, turns, ready, pipe, owed>>
  BY DEF RunFinalizer
<1>3. /\ e \in Ev /\ "ACTIVE" \in base.flags[e]
      /\ phase = "process" /\ running = Nobody /\ QueueInv(base)
      /\ \A w \in Bevs : bev[w] # "freeing"
  BY <1>1, Heads
<1>4. /\ base.flags[e] = {"ACTIVE", "FINALIZING"}
      /\ \A f \in Both(v) \ {e} : base.flags[f] = {}
  <2>1. BevOf(v) /\ bev[v] \in {"alive", "freeing", "finalizing", "gone"}
    BY DEF IInv, BevInv
  <2>2. bev[v] = "finalizing"
    BY <1>1, <1>3, <2>1 DEF BevOf, Finalizing
  <2> QED
    BY <1>3, <2>1, <2>2 DEF BevOf
<1>5. /\ QueueInv(base') /\ Others(base', base, e) /\ base'.flags[e] = {"FINALIZING"}
  <2>1. Becomes(base', base, e, base.flags[e] \ {"ACTIVE"})
    BY <1>1, <1>3, TakeHeadIs
  <2>2. base.flags[e] \ {"ACTIVE"} = {"FINALIZING"}
    BY <1>4
  <2> QED
    BY <1>3, <2>1, <2>2, BecomesIs
<1>6. \A u \in Ev \ E : Same(base', base, u)
  BY <1>5 DEF Others
<1>7. e \in Ios
  BY Bufferevents
<1>8. KindInv(base')
  <2>1. KindOf(base', e)
    BY <1>5, <1>7 DEF KindOf
  <2>2. \A u \in E \cap Ev : KindOf(base', u)
    BY <2>1
  <2>3. KindInv(base)
    BY DEF IInv
  <2> HIDE DEF E
  <2> QED
    BY <1>6, <2>2, <2>3, KindKept
<1>9. CauseInv(base', ready')
  <2>1. \A u \in E \cap (Timers \cup Ios) : CauseOf(base', ready', u)
    BY <1>5 DEF CauseOf
  <2>2. \A u \in Ev \ E : Same(base', base, u) /\ (u \in ready => u \in ready')
    BY <1>2, <1>6
  <2>3. CauseInv(base, ready)
    BY DEF IInv
  <2> HIDE DEF E
  <2> QED
    BY <2>1, <2>2, <2>3, CauseKept
<1>10. \A u \in Sigs \cup {Pipe} : base'.flags[u] = base.flags[u] /\ base'.ncalls[u] = base.ncalls[u]
  BY <1>6, <1>7, Kinds DEF Same
<1>11. LoopInv' /\ FreedInv'
  BY <1>2, <1>3, <1>10 DEF IInv, LoopInv, FreedInv
<1>12. SigInv'
  BY <1>2, <1>10, SigKept DEF IInv
<1>13. ASSUME NEW w \in Bevs PROVE BevOf(w)'
  <2>1. BevOf(w) /\ Both(w) \subseteq Ev /\ running \notin Both(w)
    BY <1>3, Kinds, Bufferevents DEF IInv, BevInv
  <2>2. CASE w = v
    <3>1. bev'[w] = "gone"
      BY <1>2, <2>2 DEF IInv, BevInv
    <3>2. \A u \in Both(w) : base'.flags[u] \subseteq {"FINALIZING"}
      BY <1>4, <1>5, <1>6, <2>1, <2>2 DEF Same
    <3> QED
      BY <1>2, <2>1, <3>1, <3>2 DEF BevOf, Both
  <2>3. CASE w # v
    <3>1. bev'[w] = bev[w] /\ e \notin Both(w)
      BY <1>2, <2>3, Bufferevents DEF IInv, BevInv
    <3>2. \A u \in Both(w) : base'.flags[u] = base.flags[u]
      BY <1>6, <2>1, <3>1 DEF Same
    <3> QED
      BY <1>2, <2>1, <3>1, <3>2 DEF BevOf, Both
  <2> QED
    BY <2>2, <2>3
<1>14. BevInv'
  BY <1>2, <1>13 DEF IInv, BevInv
<1>15. WatchStep
  <2>1. \A u \in E \cap Ios : "TIMEOUT" \in base'.flags[u] => "INSERTED" \in base'.flags[u]
    BY <1>5
  <2> HIDE DEF E
  <2> QED
    BY <1>6, <2>1, WatchKept
<1> QED
  BY <1>5, <1>8, <1>9, <1>11, <1>12, <1>14, <1>15 DEF IInv

\* Callbacks that are neither timers' nor of bufferevents touch one event of their
\* own; what is left to show is what becomes of the signals.
LEMMA RunOther ==
    ASSUME IInv, NEW e \in Ev \ (Timers \cup Ios \cup {Pipe}), Processing(e),
           QueueInv(base'), \A u \in Ev \ {e} : Same(base', base, u),
           base'.flags[e] \subseteq base.flags[e] \ {"ACTIVE"},
           running' = e \/ running' = Nobody,
           UNCHANGED <<uses, phase, ready, pipe, bev>>,
           turns' \in Nat, IF running' \in Sigs THEN turns' >= 1 ELSE turns' = 0
    PROVE  /\ QueueInv(base') /\ KindInv(base') /\ CauseInv(base', ready') /\ LoopInv' /\ BevInv'
           /\ FreedInv' /\ WatchStep
<1> DEFINE E == {e}
<1>1. /\ e \in Ev /\ phase = "process" /\ running = Nobody /\ KindOf(base, e)
      /\ \A v \in Bevs : bev[v] # "freeing"
  BY Heads
<1>2. \A u \in Ev \ E : Same(base', base, u)
  OBVIOUS
<1>3. KindInv(base')
  <2>1. KindOf(base', e)
    BY <1>1 DEF KindOf
  <2>2. \A u \in E \cap Ev : KindOf(base', u)
    BY <2>1
  <2>3. KindInv(base)
    BY DEF IInv
  <2> HIDE DEF E
  <2> QED
    BY <1>2, <2>2, <2>3, KindKept
<1>4. CauseInv(base', ready')
  <2> SUFFICES ASSUME NEW u \in Timers \cup Ios PROVE CauseOf(base', ready', u)
    BY DEF CauseInv
  <2>1. Same(base', base, u) /\ CauseOf(base, ready, u)
    BY <1>2, Kinds DEF IInv, CauseInv
  <2> QED
    BY <2>1 DEF CauseOf, Same
<1>5. \A u \in Ios : /\ base'.flags[u] = base.flags[u] /\ running' # u /\ running # u
  BY <1>1, Kinds DEF Same
<1>6. BevInv'
  BY <1>5, BevKept DEF IInv
<1>7. WatchStep
  BY <1>5 DEF WatchStep
<1>8. LoopInv'
  <2>1. base'.flags[Pipe] = base.flags[Pipe]
    BY Kinds DEF Same
  <2>2. \A s \in Sigs : "ACTIVE" \in base'.flags[s] => "ACTIVE" \in base.flags[s]
    BY Kinds DEF Same
  <2>3. running' \in Ev \cup {Nobody}
    BY <1>1
  <2> QED
    BY <1>1, <2>1, <2>2, <2>3 DEF IInv, LoopInv
<1>9. FreedInv'
  BY <1>1 DEF FreedInv
<1> QED
  BY <1>3, <1>4, <1>6, <1>7, <1>8, <1>9

LEMMA RunSignalInv ==
    ASSUME IInv, NEW s \in Sigs, RunSignal(s)
    PROVE  IInv' /\ WatchStep
<1>1. /\ Processing(s) /\ base' = TakeHead(base, s) /\ running' = s /\ turns' = base.ncalls[s]
      /\ owed' = [owed EXCEPT ![s] = @ - 1] /\ UNCHANGED <<uses, phase, ready, pipe, bev>>
  BY DEF RunSignal
<1>2. /\ s \in Ev /\ "ACTIVE" \in base.flags[s] /\ running = Nobody /\ turns = 0 /\ QueueInv(base)
  BY <1>1, Heads
<1>3. s \in Ev \ (Timers \cup Ios \cup {Pipe}) /\ Persistent(s)
  BY Kinds DEF Persistent
<1>4. /\ QueueInv(base') /\ Others(base', base, s) /\ Rest(base', base)
      /\ base'.flags[s] = base.flags[s] \ {"ACTIVE"}
  <2>1. Becomes(base', base, s, base.flags[s] \ {"ACTIVE"})
    BY <1>1, <1>2, <1>3, TakeHeadIs
  <2> QED
    BY <1>2, <2>1, BecomesIs
<1>5. \A u \in Ev \ {s} : Same(base', base, u)
  BY <1>4 DEF Others
<1>6. /\ SigInv /\ "INSERTED" \in base.flags[s] /\ base.ncalls[s] >= 1
      /\ pipe \in [Signals -> 0..MaxCaught] /\ owed \in [Sigs -> Nat]
      /\ base.ncalls[s] \in Nat /\ pipe[SigNo[s]] \in Nat
  <2>1. SigInv /\ base \in Base
    BY QueueTypes DEF IInv
  <2>2. base.ncalls[s] \in Nat
    BY <1>2, <2>1 DEF Base
  <2>3. SigNo[s] \in Signals
    BY DEF Signals
  <2> QED
    BY <1>2, <2>1, <2>2, <2>3, BoundAssumption DEF SigInv
<1>7. /\ QueueInv(base') /\ KindInv(base') /\ CauseInv(base', ready') /\ LoopInv' /\ BevInv'
      /\ FreedInv' /\ WatchStep
  BY <1>1, <1>3, <1>4, <1>5, <1>6, RunOther
<1>8. SigInv'
  <2> DEFINE p == pipe[SigNo[s]]
             k == base.ncalls[s]
             o == owed[s]
  <2>1. o = p + (k + 0)
    <3>1. owed[s] = pipe[SigNo[s]] + Waiting(s) /\ running # s
      BY <1>2, <1>3, <1>6, Kinds DEF SigInv
    <3>2. Waiting(s) = base.ncalls[s] + 0
      BY <1>2, <3>1 DEF Waiting
    <3> QED
      BY <3>1, <3>2
  <2>2. Waiting(s)' = 0 + (k - 1)
    <3>1. "ACTIVE" \notin base'.flags[s] /\ running' = s /\ turns' = k
      BY <1>1, <1>4
    <3>2. Waiting(s)' = (IF "ACTIVE" \in base'.flags[s] THEN base'.ncalls[s] ELSE 0)
                        + (IF running' = s THEN turns' - 1 ELSE 0)
      BY DEF Waiting
    <3> QED
      BY <3>1, <3>2
  <2>3. o - 1 \in Nat /\ o - 1 = p + (0 + (k - 1))
    <3>1. p \in Nat /\ k \in Nat /\ k >= 1
      BY <1>6
    <3> HIDE DEF o, p, k
    <3> QED
      BY <2>1, <3>1
  <2>4. owed' = [owed EXCEPT ![s] = o - 1]
    BY <1>1
  <2> HIDE DEF o, k
  <2>5. owed' \in [Sigs -> Nat] /\ owed'[s] = o - 1 /\ \A t \in Sigs \ {s} : owed'[t] = owed[t]
    BY <1>6, <2>3, <2>4
  <2>6. owed'[s] = pipe'[SigNo[s]] + Waiting(s)'
    BY <1>1, <2>2, <2>3, <2>5, Zenon
  <2>7. ASSUME NEW t \in Sigs
        PROVE  /\ "ACTIVE" \in base'.flags[t] => "INSERTED" \in base'.flags[t] /\ base'.ncalls[t] >= 1
               /\ running' = t => "INSERTED" \in base'.flags[t]
               /\ "INSERTED" \in base'.flags[t] => owed'[t] = pipe'[SigNo[t]] + Waiting(t)'
    <3>1. CASE t = s
      <4>1. "ACTIVE" \notin base'.flags[t] /\ "INSERTED" \in base'.flags[t]
        BY <1>4, <1>6, <3>1
      <4> QED
        BY <2>6, <3>1, <4>1
    <3>2. CASE t # s
      <4>1. base'.flags[t] = base.flags[t] /\ base'.ncalls[t] = base.ncalls[t]
        BY <1>5, <3>2, Kinds DEF Same
      <4>2. running' # t /\ running # t
        BY <1>1, <1>2, <3>2, Kinds
      <4>3. Waiting(t)' = Waiting(t)
        BY <4>1, <4>2 DEF Waiting
      <4> QED
        BY <1>1, <1>6, <2>5, <3>2, <4>1, <4>2, <4>3 DEF SigInv
    <3> QED
      BY <3>1, <3>2
  <2> QED
    BY <1>1, <1>6, <2>5, <2>7 DEF SigInv
<1> QED
  BY <1>7, <1>8 DEF IInv

LEMMA RunDeferredInv ==
    ASSUME IInv, NEW d \in Deferreds, RunDeferred(d)
    PROVE  IInv' /\ WatchStep
<1>1. /\ Processing(d) /\ base' = RemoveActive(base, d) /\ running' = d
      /\ UNCHANGED <<uses, phase, turns, ready, pipe, owed, bev>>
  BY DEF RunDeferred
<1>2. /\ d \in Ev /\ "ACTIVE" \in base.flags[d] /\ running = Nobody /\ turns = 0 /\ QueueInv(base)
  BY <1>1, Heads
<1>3. d \in Ev \ (Timers \cup Ios \cup {Pipe}) /\ d \notin Sigs
  BY Kinds
<1>4. /\ QueueInv(base') /\ Others(base', base, d)
      /\ base'.flags[d] = base.flags[d] \ {"ACTIVE"}
  <2>1. Becomes(base', base, d, base.flags[d] \ {"ACTIVE"})
    BY <1>1, <1>2, RemoveActiveIs
  <2> QED
    BY <1>2, <2>1, BecomesIs
<1>5. \A u \in Ev \ {d} : Same(base', base, u)
  BY <1>4 DEF Others
<1>6. /\ QueueInv(base') /\ KindInv(base') /\ CauseInv(base', ready') /\ LoopInv' /\ BevInv'
      /\ FreedInv' /\ WatchStep
  BY <1>1, <1>2, <1>3, <1>4, <1>5, RunOther
<1>7. SigInv'
  <2>1. \A s \in Sigs : /\ base'.flags[s] = base.flags[s] /\ base'.ncalls[s] = base.ncalls[s]
                        /\ running' # s /\ running # s
    BY <1>1, <1>2, <1>3, <1>5, Kinds DEF Same
  <2> QED
    BY <1>1, <2>1, SigKept DEF IInv
<1> QED
  BY <1>6, <1>7 DEF IInv

LEMMA RunExitInv ==
    ASSUME IInv, NEW x \in Exits, RunExit(x)
    PROVE  IInv' /\ WatchStep
<1> DEFINE b == TakeHead(base, x)
<1>1. /\ Processing(x) /\ base' = [b EXCEPT !.term = TRUE]
      /\ UNCHANGED <<uses, phase, running, turns, ready, pipe, owed, bev>>
  BY DEF RunExit
<1>2. /\ x \in Ev /\ "ACTIVE" \in base.flags[x] /\ running = Nobody /\ turns = 0 /\ QueueInv(base)
      /\ KindOf(base, x)
  BY <1>1, Heads
<1>3. x \in Ev \ (Timers \cup Ios \cup {Pipe}) /\ x \notin Sigs
  BY Kinds
<1>4. Becomes(b, base, x, {})
  <2>1. Becomes(b, base, x, IF Persistent(x) \/ Finalizing(base, x) THEN base.flags[x] \ {"ACTIVE"} ELSE {})
    BY <1>2, TakeHeadIs
  <2>2. ~Persistent(x) /\ ~Finalizing(base, x)
    BY <1>2, <1>3 DEF Persistent, KindOf, Finalizing
  <2> QED
    BY <2>1, <2>2
<1> HIDE DEF b
<1>5. QueueInv(b) /\ b \in Base /\ Others(b, base, x) /\ b.flags[x] = {}
  BY <1>2, <1>4, BecomesIs
<1>6. /\ base' \in Base /\ base'.flags = b.flags /\ base'.active = b.active /\ base'.later = b.later
      /\ base'.count = b.count /\ base'.nactive = b.nactive
      /\ base'.res = b.res /\ base'.ncalls = b.ncalls /\ base'.due = b.due
  BY <1>1, <1>5 DEF Base
<1>7. QueueInv(base')
  BY <1>5, <1>6, SameQueues
<1>8. \A u \in Ev \ {x} : Same(base', base, u)
  BY <1>5, <1>6 DEF Others, Same
<1>9. /\ KindInv(base') /\ CauseInv(base', ready') /\ LoopInv' /\ BevInv'
      /\ FreedInv' /\ WatchStep
  <2>1. base'.flags[x] \subseteq base.flags[x] \ {"ACTIVE"}
    BY <1>5, <1>6
  <2>2. running' = Nobody /\ turns' = 0 /\ turns' \in Nat /\ running' \notin Sigs
    BY <1>1, <1>2, Kinds
  <2> QED
    BY <1>1, <1>3, <1>7, <1>8, <2>1, <2>2, RunOther
<1>10. SigInv'
  <2>1. \A s \in Sigs : base'.flags[s] = base.flags[s] /\ base'.ncalls[s] = base.ncalls[s]
    BY <1>3, <1>8, Kinds DEF Same
  <2> QED
    BY <1>1, <2>1, SigKept DEF IInv
<1> QED
  BY <1>7, <1>9, <1>10 DEF IInv

-----------------------------------------------------------------------------
(* The folds: what evsig_cb, the backend, timeout_process and event_base_free do *)
(* to event after event.                                                        *)

\* evsig_cb has activated the signals in T of the base b.
Signalled(x, b, T) ==
    /\ QueueInv(x)
    /\ \A u \in Ev \ T : Same(x, b, u)
    /\ \A s \in T : x.flags[s] = b.flags[s] \cup {"ACTIVE"} /\ x.ncalls[s] = pipe[SigNo[s]]

LEMMA SignalStep ==
    ASSUME NEW b, NEW T \in SUBSET Sigs, NEW s \in Sigs \ T, NEW x, Signalled(x, b, T),
           b.flags[s] \cap {"ACTIVE", "ACTIVE_LATER", "FINALIZING"} = {}, pipe[SigNo[s]] \in Nat
    PROVE  Signalled(Activate(x, s, "SIGNAL", pipe[SigNo[s]]), b, T \union {s})
<1> DEFINE n == Activate(x, s, "SIGNAL", pipe[SigNo[s]])
<1>1. /\ QueueInv(x) /\ \A u \in Ev \ T : Same(x, b, u)
      /\ \A u \in T : x.flags[u] = b.flags[u] \cup {"ACTIVE"} /\ x.ncalls[u] = pipe[SigNo[u]]
  BY DEF Signalled
<1>2. s \in Ev /\ x.flags[s] = b.flags[s] /\ ~Finalizing(x, s)
  BY <1>1, Kinds DEF Same, Finalizing
<1>3. /\ QueueInv(n) /\ Others(n, x, s)
      /\ n.flags[s] = (x.flags[s] \ {"ACTIVE_LATER"}) \cup {"ACTIVE"}
      /\ n.ncalls[s] = IF s \in Sigs /\ "ACTIVE" \notin x.flags[s] THEN pipe[SigNo[s]] ELSE x.ncalls[s]
  BY <1>1, <1>2, ActivateIs
<1> HIDE DEF n
<1>4. \A u \in Ev \ (T \union {s}) : Same(n, b, u)
  BY <1>1, <1>3 DEF Others, Same
<1>5. n.flags[s] = b.flags[s] \cup {"ACTIVE"} /\ n.ncalls[s] = pipe[SigNo[s]]
  BY <1>2, <1>3
<1>6. \A u \in T : n.flags[u] = b.flags[u] \cup {"ACTIVE"} /\ n.ncalls[u] = pipe[SigNo[u]]
  <2>1. \A u \in T : u \in Ev \ {s}
    BY Kinds
  <2> QED
    BY <1>1, <1>3, <2>1 DEF Others, Same
<1>7. Signalled(n, b, T \union {s})
  BY <1>3, <1>4, <1>5, <1>6 DEF Signalled
<1> QED
  BY <1>7 DEF n

LEMMA PipeFold ==
    ASSUME NEW b, QueueInv(b), NEW S \in SUBSET Sigs,
           \A s \in S : b.flags[s] \cap {"ACTIVE", "ACTIVE_LATER", "FINALIZING"} = {},
           \A s \in S : pipe[SigNo[s]] \in Nat
    PROVE  Signalled(FoldSet(LAMBDA s, x : Activate(x, s, "SIGNAL", pipe[SigNo[s]]), b, S), b, S)
<1> DEFINE op(x, i) == Activate(x, i, "SIGNAL", pipe[SigNo[i]])
           pick(T) == CHOOSE s \in T : TRUE
           J == [T \in SUBSET S |-> {x \in Base : Signalled(x, b, T)}]
           c == [T \in SUBSET S |-> pick(T)]
           F == [p \in S \X Base |-> op(p[2], p[1])]
           it == CHOOSE f : f =
                     [T \in SUBSET S |-> IF T = {} THEN b ELSE op(f[T \ {pick(T)}], pick(T))]
<1>1. FoldSet(LAMBDA s, x : Activate(x, s, "SIGNAL", pipe[SigNo[s]]), b, S) = it[S]
  BY DEF FoldSet, MapThenFoldSet
<1>2. IsFiniteSet(S)
  <2>1. S \in SUBSET Ev
    BY Kinds
  <2> QED
    BY <2>1, KindsAssumption, FS_Subset
<1>3. \A T \in SUBSET S : T # {} => c[T] \in T /\ c[T] = pick(T)
  OBVIOUS
<1>4. \A T \in SUBSET S : J[T] \subseteq Base
  OBVIOUS
<1>5. \A i \in S, x \in Base : F[<<i, x>>] = op(x, i)
  OBVIOUS
<1>6. b \in J[{}]
  BY QueueTypes DEF Signalled, Same
<1>7. \A T \in SUBSET S : \A i \in S \ T : \A x \in J[T] : F[<<i, x>>] \in J[T \union {i}]
  <2> SUFFICES ASSUME NEW T \in SUBSET S, NEW i \in S \ T, NEW x \in J[T]
               PROVE  F[<<i, x>>] \in J[T \union {i}]
    OBVIOUS
  <2> HIDE DEF F
  <2>1. x \in Base /\ Signalled(x, b, T)
    OBVIOUS
  <2>2. F[<<i, x>>] = op(x, i)
    BY <1>5, <2>1
  <2>3. T \in SUBSET Sigs /\ i \in Sigs \ T
    OBVIOUS
  <2>4. b.flags[i] \cap {"ACTIVE", "ACTIVE_LATER", "FINALIZING"} = {} /\ pipe[SigNo[i]] \in Nat
    OBVIOUS
  <2>7. Signalled(Activate(x, i, "SIGNAL", pipe[SigNo[i]]), b, T \union {i})
    BY <2>1, <2>3, <2>4, SignalStep, Zenon
  <2>8. op(x, i) \in Base
    BY <2>7, QueueTypes DEF Signalled
  <2>9. T \union {i} \in SUBSET S
    OBVIOUS
  <2> QED
    BY <2>2, <2>7, <2>8, <2>9
<1>8. \A x : x \in J[S] => Signalled(x, b, S)
  OBVIOUS
<1> HIDE DEF op, pick, J, c, F, it
<1>9. \A T \in SUBSET S : T # {} => c[T] \in T
  BY <1>3
<1>10. PICK g : FoldGraph(S, c, Base, F, b, g)
  <2>1. FoldStep(S, c, Base, J, F, b)
    BY <1>4, <1>6, <1>7, <1>9, Zenon DEF FoldStep
  <2> QED
    BY <1>2, <2>1, FoldExists, Zenon
<1>11. g \in [SUBSET S -> Base] /\ \A T \in SUBSET S :
          g[T] = IF T = {} THEN b ELSE F[<<c[T], g[T \ {c[T]}]>>]
  BY <1>10, Zenon DEF FoldGraph
<1>12. it = [T \in SUBSET S |-> IF T = {} THEN b ELSE op(it[T \ {pick(T)}], pick(T))]
  <2>1. ASSUME NEW T \in SUBSET S, T # {}
        PROVE  g[T] = op(g[T \ {pick(T)}], pick(T))
    <3>1. c[T] \in S /\ T \ {c[T]} \in SUBSET S /\ c[T] = pick(T)
      BY <1>3, <2>1
    <3>2. g[T \ {c[T]}] \in Base
      BY <1>11, <3>1
    <3>3. g[T] = F[<<c[T], g[T \ {c[T]}]>>]
      BY <1>11, <2>1
    <3>4. g[T] = op(g[T \ {c[T]}], c[T])
      BY <1>5, <3>1, <3>2, <3>3
    <3> QED
      BY <3>1, <3>4
  <2>2. g = [T \in SUBSET S |-> IF T = {} THEN b ELSE op(g[T \ {pick(T)}], pick(T))]
    <3>1. g[{}] = b
      BY <1>11
    <3>2. g = [T \in SUBSET S |-> g[T]]
      BY <1>11
    <3>3. \A T \in SUBSET S : g[T] = IF T = {} THEN b ELSE op(g[T \ {pick(T)}], pick(T))
      BY <3>1, <2>1
    <3> DEFINE R == [T \in SUBSET S |-> IF T = {} THEN b ELSE op(g[T \ {pick(T)}], pick(T))]
    <3>4. \A T \in SUBSET S : R[T] = g[T]
      BY <3>3
    <3>5. R = [T \in SUBSET S |-> R[T]]
      OBVIOUS
    <3> HIDE DEF R
    <3>6. g = R
      BY <3>2, <3>4, <3>5
    <3> QED
      BY <3>6 DEF R
  <2> DEFINE Q(f) == f = [T \in SUBSET S |-> IF T = {} THEN b ELSE op(f[T \ {pick(T)}], pick(T))]
  <2>3. Q(g)
    BY <2>2
  <2>4. it = CHOOSE f : Q(f)
    BY DEF it
  <2> HIDE DEF Q
  <2>5. Q(it)
    BY <2>3, <2>4, Zenon
  <2> QED
    BY <2>5 DEF Q
<1>13. it[{}] \in J[{}]
  <2>1. it[{}] = b
    BY <1>12
  <2> QED
    BY <1>6, <2>1
<1>14. ASSUME NEW T \in SUBSET S, T # {}, it[T \ {c[T]}] \in J[T \ {c[T]}]
       PROVE  it[T] \in J[T]
  <2>1. /\ c[T] \in S \ (T \ {c[T]}) /\ T \ {c[T]} \in SUBSET S
        /\ (T \ {c[T]}) \union {c[T]} = T /\ c[T] = pick(T)
    BY <1>3, <1>14
  <2>2. it[T \ {c[T]}] \in Base
    BY <1>4, <1>14, <2>1
  <2>3. F[<<c[T], it[T \ {c[T]}]>>] \in J[T]
    BY <1>7, <1>14, <2>1
  <2>4. it[T] = op(it[T \ {c[T]}], c[T])
    BY <1>12, <1>14, <2>1
  <2>5. it[T] = F[<<c[T], it[T \ {c[T]}]>>]
    BY <1>5, <2>1, <2>2, <2>4
  <2> QED
    BY <2>3, <2>5
<1>15. it[S] \in J[S]
  BY <1>2, <1>9, <1>13, <1>14, FoldInduct
<1> QED
  BY <1>1, <1>8, <1>15

\* evsig_cb empties the pipe: what was in it now waits for the callbacks.
LEMMA RunPipeInv ==
    ASSUME IInv, RunPipe
    PROVE  IInv' /\ WatchStep
<1> DEFINE S == {s \in Sigs : "INSERTED" \in base.flags[s] /\ pipe[SigNo[s]] > 0}
           b == TakeHead(base, Pipe)
<1>1. /\ Processing(Pipe)
      /\ base' = FoldSet(LAMBDA s, x : Activate(x, s, "SIGNAL", pipe[SigNo[s]]), b, S)
      /\ pipe' = [n \in Signals |-> 0]
      /\ UNCHANGED <<uses, phase, running, turns, ready, owed, bev>>
  BY DEF RunPipe
<1>2. /\ Pipe \in Ev /\ "ACTIVE" \in base.flags[Pipe]
      /\ phase = "process" /\ running = Nobody /\ turns = 0 /\ QueueInv(base)
  BY <1>1, Heads
<1>3. /\ SigInv /\ LoopInv /\ KindInv(base) /\ base \in Base
      /\ pipe \in [Signals -> 0..MaxCaught] /\ \A s \in Sigs : pipe[SigNo[s]] \in Nat
  <2>1. SigInv /\ LoopInv /\ KindInv(base) /\ base \in Base
    BY <1>2, QueueTypes DEF IInv
  <2>2. pipe \in [Signals -> 0..MaxCaught]
    BY <2>1 DEF SigInv
  <2>3. \A s \in Sigs : SigNo[s] \in Signals
    BY DEF Signals
  <2> QED
    BY <2>1, <2>2, <2>3, BoundAssumption
<1>4. /\ QueueInv(b) /\ Others(b, base, Pipe) /\ b.flags[Pipe] = base.flags[Pipe] \ {"ACTIVE"}
  <2>1. Persistent(Pipe)
    BY Kinds DEF Persistent
  <2>2. Becomes(b, base, Pipe, base.flags[Pipe] \ {"ACTIVE"})
    BY <1>2, <2>1, TakeHeadIs
  <2> HIDE DEF b
  <2> QED
    BY <1>2, <2>2, BecomesIs
<1> HIDE DEF b
<1>5. \A s \in Sigs : /\ b.flags[s] = base.flags[s] /\ s \in Ev \ {Pipe}
                      /\ "ACTIVE" \notin base.flags[s] /\ "ACTIVE_LATER" \notin base.flags[s]
                      /\ "FINALIZING" \notin base.flags[s]
  <2> SUFFICES ASSUME NEW s \in Sigs
               PROVE  /\ b.flags[s] = base.flags[s] /\ s \in Ev \ {Pipe}
                      /\ "ACTIVE" \notin base.flags[s] /\ "ACTIVE_LATER" \notin base.flags[s]
                      /\ "FINALIZING" \notin base.flags[s]
    OBVIOUS
  <2>1. s \in Ev \ {Pipe} /\ s \notin Deferreds /\ s \notin Ios
    BY Kinds
  <2>2. KindOf(base, s)
    BY <1>3, <2>1 DEF KindInv
  <2>3. "ACTIVE" \notin base.flags[s]
    BY <1>2, <1>3 DEF LoopInv
  <2> QED
    BY <1>4, <2>1, <2>2, <2>3 DEF Others, Same, KindOf
<1>6. Signalled(base', b, S)
  <2>1. S \in SUBSET Sigs
    OBVIOUS
  <2>2. \A s \in S : b.flags[s] \cap {"ACTIVE", "ACTIVE_LATER", "FINALIZING"} = {}
    BY <1>5
  <2>3. \A s \in S : pipe[SigNo[s]] \in Nat
    BY <1>3
  <2> HIDE DEF S
  <2>4. Signalled(FoldSet(LAMBDA s, x : Activate(x, s, "SIGNAL", pipe[SigNo[s]]), b, S), b, S)
    BY <1>4, <2>1, <2>2, <2>3, PipeFold
  <2> QED
    BY <1>1, <2>4
<1>7. /\ QueueInv(base') /\ \A u \in Ev \ (S \cup {Pipe}) : Same(base', base, u)
      /\ base'.flags[Pipe] = base.flags[Pipe] \ {"ACTIVE"}
      /\ \A s \in S : base'.flags[s] = base.flags[s] \cup {"ACTIVE"} /\ base'.ncalls[s] = pipe[SigNo[s]]
  <2>1. /\ QueueInv(base') /\ \A u \in Ev \ S : Same(base', b, u)
        /\ \A s \in S : base'.flags[s] = b.flags[s] \cup {"ACTIVE"} /\ base'.ncalls[s] = pipe[SigNo[s]]
    BY <1>6 DEF Signalled
  <2>2. Pipe \in Ev \ S
    BY Kinds
  <2>3. \A u \in Ev \ (S \cup {Pipe}) : Same(base', base, u)
    BY <1>4, <2>1 DEF Others, Same
  <2>4. base'.flags[Pipe] = base.flags[Pipe] \ {"ACTIVE"}
    BY <1>4, <2>1, <2>2 DEF Same
  <2>5. \A s \in S : b.flags[s] = base.flags[s]
    BY <1>5
  <2> QED
    BY <2>1, <2>3, <2>4, <2>5
<1>8. \A u \in Timers \cup Ios : Same(base', base, u) /\ u \in Ev /\ u # Pipe /\ u \notin Sigs
  <2>1. \A u \in Timers \cup Ios : u \in Ev /\ u # Pipe /\ u \notin Sigs
    BY Kinds
  <2> QED
    BY <1>7, <2>1
<1>9. KindInv(base')
  <2> DEFINE E == S \cup {Pipe}
  <2>1. ASSUME NEW u \in E \cap Ev PROVE KindOf(base', u)
    <3>1. KindOf(base, u)
      BY <1>3 DEF KindInv
    <3>2. CASE u \in S
      <4>1. base'.flags[u] = base.flags[u] \cup {"ACTIVE"}
        BY <1>7, <3>2
      <4>2. "FINALIZING" \notin base.flags[u]
        BY <1>5, <3>2
      <4> QED
        BY <3>1, <4>1, <4>2 DEF KindOf
    <3>3. CASE u = Pipe
      <4>1. base'.flags[u] = base.flags[u] \ {"ACTIVE"}
        BY <1>7, <3>3
      <4> QED
        BY <3>1, <4>1 DEF KindOf
    <3> QED
      BY <3>2, <3>3
  <2>2. \A u \in Ev \ E : Same(base', base, u)
    BY <1>7
  <2> HIDE DEF E
  <2> QED
    BY <1>3, <2>1, <2>2, KindKept
<1>10. CauseInv(base', ready')
  <2> SUFFICES ASSUME NEW u \in Timers \cup Ios PROVE CauseOf(base', ready', u)
    BY DEF CauseInv
  <2>1. CauseOf(base, ready, u) /\ Same(base', base, u) /\ ready' = ready
    BY <1>1, <1>8 DEF IInv, CauseInv
  <2> QED
    BY <2>1 DEF CauseOf, Same
<1>11. LoopInv'
  BY <1>1, <1>2, <1>3, <1>7 DEF LoopInv
<1>12. ASSUME NEW s \in Sigs
       PROVE  /\ "ACTIVE" \in base'.flags[s] => "INSERTED" \in base'.flags[s] /\ base'.ncalls[s] >= 1
              /\ running' = s => "INSERTED" \in base'.flags[s]
              /\ "INSERTED" \in base'.flags[s] => owed'[s] = pipe'[SigNo[s]] + Waiting(s)'
  <2>1. /\ pipe'[SigNo[s]] = 0 /\ running # s /\ running' = running /\ owed' = owed
        /\ pipe[SigNo[s]] \in Nat
    <3>1. SigNo[s] \in Signals
      BY DEF Signals
    <3> QED
      BY <1>1, <1>2, <1>3, <3>1, Kinds
  <2>2. Waiting(s) = 0
    BY <1>5, <2>1 DEF Waiting
  <2>3. "INSERTED" \in base.flags[s] => owed[s] = pipe[SigNo[s]]
    BY <1>3, <2>1, <2>2 DEF SigInv
  <2>4. CASE s \in S
    <3>1. /\ base'.flags[s] = base.flags[s] \cup {"ACTIVE"} /\ base'.ncalls[s] = pipe[SigNo[s]]
          /\ "INSERTED" \in base.flags[s] /\ pipe[SigNo[s]] > 0
      BY <1>7, <2>4
    <3>2. Waiting(s)' = pipe[SigNo[s]]
      BY <2>1, <3>1 DEF Waiting
    <3> QED
      BY <2>1, <2>3, <3>1, <3>2
  <2>5. CASE s \notin S
    <3>1. base'.flags[s] = base.flags[s]
      BY <1>5, <1>7, <2>5 DEF Same
    <3>2. Waiting(s)' = 0
      BY <1>5, <2>1, <3>1 DEF Waiting
    <3>3. "INSERTED" \in base.flags[s] => pipe[SigNo[s]] = 0
      BY <2>1, <2>5
    <3> QED
      BY <1>5, <2>1, <2>3, <3>1, <3>2, <3>3
  <2> QED
    BY <2>4, <2>5
<1>13. SigInv'
  <2>1. pipe' \in [Signals -> 0..MaxCaught] /\ owed' \in [Sigs -> Nat]
    <3>1. 0 \in 0..MaxCaught
      BY BoundAssumption
    <3>2. pipe' \in [Signals -> 0..MaxCaught]
      BY <1>1, <3>1
    <3>3. owed' \in [Sigs -> Nat]
      BY <1>1, <1>3 DEF SigInv
    <3> QED
      BY <3>2, <3>3
  <2> QED
    BY <1>12, <2>1 DEF SigInv
<1>14. BevInv'
  <2>1. \A u \in Ios : base'.flags[u] = base.flags[u] /\ (running' = u <=> running = u)
    BY <1>1, <1>8 DEF Same
  <2> QED
    BY <1>1, <2>1, BevKept DEF IInv
<1>15. FreedInv' /\ WatchStep
  BY <1>1, <1>2, <1>8 DEF FreedInv, WatchStep, Same
<1> QED
  BY <1>7, <1>9, <1>10, <1>11, <1>13, <1>14, <1>15 DEF IInv

-----------------------------------------------------------------------------
(* One turn of the loop: what happened, and what is due. *)

\* What the loop may do to the events of b while it collects what happened.
Collected(x, b) ==
    /\ QueueInv(x) /\ KindInv(x) /\ CauseInv(x, ready)
    /\ \A u \in Ev :
         /\ "FINALIZING" \in x.flags[u] <=> "FINALIZING" \in b.flags[u]
         /\ x.due[u] = b.due[u]
         /\ b.flags[u] \cap {"INSERTED", "TIMEOUT"} = {} \/ u \in Sigs => Same(x, b, u)
         /\ "TIMEOUT" \in x.flags[u] =>
              "TIMEOUT" \in b.flags[u] /\ ("INSERTED" \in x.flags[u] <=> "INSERTED" \in b.flags[u])

\* While the backend reports, no event leaves its map.
Reporting(x, b) ==
    /\ Collected(x, b)
    /\ \A u \in Ev : "INSERTED" \in x.flags[u] <=> "INSERTED" \in b.flags[u]

LEMMA ReportStep ==
    ASSUME NEW b, KindInv(b), NEW x, Reporting(x, b), NEW e \in Happened(b)
    PROVE  Reporting(Activate(x, e, "IO", 1), b)
<1> DEFINE n == Activate(x, e, "IO", 1)
           E == {e}
<1>1. /\ e \in Ev /\ e \notin Sigs /\ e \notin Timers /\ "INSERTED" \in b.flags[e]
      /\ e \in Ios => e \in ready
      /\ InMap(e) /\ e \in Ios \cup {Pipe}
  BY Kinds DEF Happened
<1>2. /\ QueueInv(x) /\ KindInv(x) /\ CauseInv(x, ready) /\ Collected(x, b)
      /\ \A u \in Ev : "INSERTED" \in x.flags[u] <=> "INSERTED" \in b.flags[u]
  BY DEF Reporting, Collected
<1>3. "INSERTED" \in x.flags[e] /\ KindOf(x, e) /\ "FINALIZING" \notin x.flags[e]
  BY <1>1, <1>2 DEF KindInv, KindOf
<1>4. /\ QueueInv(n) /\ Others(n, x, e)
      /\ n.flags[e] = (x.flags[e] \ {"ACTIVE_LATER"}) \cup {"ACTIVE"}
      /\ n.res[e] = Result(x, e, "IO") /\ n.due[e] = x.due[e]
  BY <1>1, <1>2, <1>3, ActivateIs DEF Finalizing
<1> HIDE DEF n
<1>5. \A u \in Ev \ E : Same(n, x, u)
  BY <1>4 DEF Others
<1>6. KindInv(n)
  <2>1. KindOf(n, e)
    BY <1>3, <1>4 DEF KindOf
  <2>2. \A u \in E \cap Ev : KindOf(n, u)
    BY <2>1
  <2> HIDE DEF E
  <2> QED
    BY <1>2, <1>5, <2>2, KindKept
<1>7. CauseInv(n, ready)
  <2>1. ASSUME e \in Ios PROVE CauseOf(n, ready, e)
    <3>1. "ACTIVE_LATER" \notin x.flags[e]
      BY <1>3, <2>1, Kinds DEF KindOf
    <3>2. "TIMEOUT" \in n.res[e] => "ACTIVE" \in x.flags[e] /\ "TIMEOUT" \in x.res[e]
      BY <1>4, <3>1 DEF Result
    <3>3. CauseOf(x, ready, e)
      BY <1>2, <2>1 DEF CauseInv
    <3>4. "TIMEOUT" \in n.res[e] => n.due[e] <= 0
      BY <1>3, <1>4, <3>2, <3>3 DEF CauseOf
    <3>5. "INSERTED" \in n.flags[e]
      BY <1>3, <1>4
    <3> QED
      BY <1>1, <2>1, <3>4, <3>5 DEF CauseOf
  <2>2. \A u \in E \cap (Timers \cup Ios) : CauseOf(n, ready, u)
    BY <1>1, <2>1
  <2>3. \A u \in Ev \ E : Same(n, x, u) /\ (u \in ready => u \in ready)
    BY <1>5
  <2> HIDE DEF E
  <2> QED
    BY <1>2, <2>2, <2>3, CauseKept
<1>8. ASSUME NEW u \in Ev
      PROVE  /\ "FINALIZING" \in n.flags[u] <=> "FINALIZING" \in b.flags[u]
             /\ n.due[u] = b.due[u]
             /\ b.flags[u] \cap {"INSERTED", "TIMEOUT"} = {} \/ u \in Sigs => Same(n, b, u)
             /\ "TIMEOUT" \in n.flags[u] =>
                  "TIMEOUT" \in b.flags[u] /\ ("INSERTED" \in n.flags[u] <=> "INSERTED" \in b.flags[u])
             /\ "INSERTED" \in n.flags[u] <=> "INSERTED" \in b.flags[u]
  <2>1. /\ "FINALIZING" \in x.flags[u] <=> "FINALIZING" \in b.flags[u]
        /\ x.due[u] = b.due[u]
        /\ b.flags[u] \cap {"INSERTED", "TIMEOUT"} = {} \/ u \in Sigs => Same(x, b, u)
        /\ "TIMEOUT" \in x.flags[u] => "TIMEOUT" \in b.flags[u]
        /\ "INSERTED" \in x.flags[u] <=> "INSERTED" \in b.flags[u]
    BY <1>2 DEF Collected
  <2>2. CASE u = e
    BY <1>1, <1>3, <1>4, <2>1, <2>2
  <2>3. CASE u # e
    <3>1. Same(n, x, u)
      BY <1>5, <2>3
    <3> QED
      BY <2>1, <3>1 DEF Same
  <2> QED
    BY <2>2, <2>3
<1>9. Reporting(n, b)
  BY <1>4, <1>6, <1>7, <1>8 DEF Reporting, Collected
<1> QED
  BY <1>9 DEF n

LEMMA TimeoutStep ==
    ASSUME NEW b, KindInv(b), NEW x, Collected(x, b), NEW e \in Due(b)
    PROVE  Collected(Activate(Del(x, e), e, "TIMEOUT", 1), b)
<1> DEFINE d == Del(x, e)
           n == Activate(d, e, "TIMEOUT", 1)
           E == {e}
<1>1. /\ e \in Ev /\ "TIMEOUT" \in b.flags[e] /\ b.due[e] <= 0
      /\ e \in Timers \cup Ios /\ "FINALIZING" \notin b.flags[e]
  BY DEF Due, KindInv, KindOf
<1>2. e \notin Sigs
  BY <1>1, Kinds
<1>3. /\ QueueInv(x) /\ KindInv(x) /\ CauseInv(x, ready) /\ Collected(x, b)
      /\ "FINALIZING" \notin x.flags[e] /\ x.due[e] = b.due[e]
  BY <1>1 DEF Collected
<1>4. QueueInv(d) /\ Others(d, x, e) /\ d.flags[e] = {} /\ d.due[e] = x.due[e]
  <2>1. Becomes(d, x, e, {})
    <3>1. Becomes(d, x, e, IF Finalizing(x, e) THEN x.flags[e] ELSE {})
      BY <1>1, <1>3, DelIs
    <3> QED
      BY <1>3, <3>1 DEF Finalizing
  <2> HIDE DEF d
  <2> QED
    BY <1>1, <1>3, <2>1, BecomesIs DEF Rest
<1> HIDE DEF d
<1>5. /\ QueueInv(n) /\ Others(n, d, e)
      /\ n.flags[e] = {"ACTIVE"} /\ n.res[e] = {"TIMEOUT"} /\ n.due[e] = d.due[e]
  <2>1. ~Finalizing(d, e)
    BY <1>4 DEF Finalizing
  <2>2. /\ QueueInv(n) /\ Others(n, d, e)
        /\ n.flags[e] = (d.flags[e] \ {"ACTIVE_LATER"}) \cup {"ACTIVE"}
        /\ n.res[e] = Result(d, e, "TIMEOUT") /\ n.due[e] = d.due[e]
    BY <1>1, <1>4, <2>1, ActivateIs
  <2>3. Result(d, e, "TIMEOUT") = {"TIMEOUT"}
    BY <1>4 DEF Result
  <2> HIDE DEF n
  <2> QED
    BY <1>4, <2>2, <2>3
<1> HIDE DEF n
<1>6. \A u \in Ev \ E : Same(n, x, u)
  BY <1>4, <1>5 DEF Others, Same
<1>7. KindInv(n)
  <2>1. KindOf(n, e)
    BY <1>5 DEF KindOf
  <2>2. \A u \in E \cap Ev : KindOf(n, u)
    BY <2>1
  <2> HIDE DEF E
  <2> QED
    BY <1>3, <1>6, <2>2, KindKept
<1>8. CauseInv(n, ready)
  <2>1. CauseOf(n, ready, e)
    BY <1>1, <1>3, <1>4, <1>5 DEF CauseOf
  <2>2. \A u \in E \cap (Timers \cup Ios) : CauseOf(n, ready, u)
    BY <2>1
  <2>3. \A u \in Ev \ E : Same(n, x, u) /\ (u \in ready => u \in ready)
    BY <1>6
  <2> HIDE DEF E
  <2> QED
    BY <1>3, <2>2, <2>3, CauseKept
<1>9. ASSUME NEW u \in Ev
      PROVE  /\ "FINALIZING" \in n.flags[u] <=> "FINALIZING" \in b.flags[u]
             /\ n.due[u] = b.due[u]
             /\ b.flags[u] \cap {"INSERTED", "TIMEOUT"} = {} \/ u \in Sigs => Same(n, b, u)
             /\ "TIMEOUT" \in n.flags[u] =>
                  "TIMEOUT" \in b.flags[u] /\ ("INSERTED" \in n.flags[u] <=> "INSERTED" \in b.flags[u])
  <2>1. /\ "FINALIZING" \in x.flags[u] <=> "FINALIZING" \in b.flags[u]
        /\ x.due[u] = b.due[u]
        /\ b.flags[u] \cap {"INSERTED", "TIMEOUT"} = {} \/ u \in Sigs => Same(x, b, u)
        /\ "TIMEOUT" \in x.flags[u] =>
             "TIMEOUT" \in b.flags[u] /\ ("INSERTED" \in x.flags[u] <=> "INSERTED" \in b.flags[u])
    BY <1>3 DEF Collected
  <2>2. CASE u = e
    BY <1>1, <1>2, <1>3, <1>4, <1>5, <2>1, <2>2
  <2>3. CASE u # e
    <3>1. Same(n, x, u)
      BY <1>6, <2>3
    <3> QED
      BY <2>1, <3>1 DEF Same
  <2> QED
    BY <2>2, <2>3
<1>10. Collected(n, b)
  BY <1>5, <1>7, <1>8, <1>9 DEF Collected
<1> QED
  BY <1>10 DEF n, d

LEMMA ReportedIs ==
    ASSUME NEW b, QueueInv(b), KindInv(b), CauseInv(b, ready),
           NEW n \in Nat, NEW order \in [1..n -> Happened(b)]
    PROVE  Reporting(Reported(b, order), b)
<1> DEFINE S == DOMAIN order
           op(x, i) == Activate(x, i, "IO", 1)
           pick(T) == Max(T)
           J == [T \in SUBSET S |-> {x \in Base : Reporting(x, b)}]
           c == [T \in SUBSET S |-> pick(T)]
           F == [p \in S \X Base |-> op(p[2], order[p[1]])]
           it == CHOOSE f : f =
                     [T \in SUBSET S |-> IF T = {} THEN b ELSE op(f[T \ {pick(T)}], order[pick(T)])]
<1>1. Reported(b, order) = it[S]
  BY DEF Reported, FoldLeft, MapThenFoldSet
<1>2. S = 1..n /\ IsFiniteSet(S)
  BY FS_Interval
<1>3. \A T \in SUBSET S : T # {} => c[T] \in T /\ c[T] = pick(T)
  BY <1>2, MaxIsGreatest
<1>4. \A T \in SUBSET S : J[T] \subseteq Base
  OBVIOUS
<1>5. \A i \in S, x \in Base : F[<<i, x>>] = op(x, order[i])
  OBVIOUS
<1>6. b \in J[{}]
  BY QueueTypes DEF Reporting, Collected, Same
<1>7. \A T \in SUBSET S : \A i \in S \ T : \A x \in J[T] : F[<<i, x>>] \in J[T \union {i}]
  <2> SUFFICES ASSUME NEW T \in SUBSET S, NEW i \in S \ T, NEW x \in J[T]
               PROVE  F[<<i, x>>] \in J[T \union {i}]
    OBVIOUS
  <2> HIDE DEF F
  <2>1. x \in Base /\ Reporting(x, b)
    OBVIOUS
  <2>2. F[<<i, x>>] = op(x, order[i])
    BY <1>5, <2>1
  <2>3. order[i] \in Happened(b)
    OBVIOUS
  <2>7. Reporting(Activate(x, order[i], "IO", 1), b)
    BY <2>1, <2>3, ReportStep
  <2>8. op(x, order[i]) \in Base
    BY <2>7, QueueTypes DEF Reporting, Collected
  <2>9. T \union {i} \in SUBSET S
    OBVIOUS
  <2> QED
    BY <2>2, <2>7, <2>8, <2>9
<1>8. \A x : x \in J[S] => Reporting(x, b)
  OBVIOUS
<1> HIDE DEF op, pick, J, c, F, it, S
<1>9. \A T \in SUBSET S : T # {} => c[T] \in T
  BY <1>3
<1>10. PICK g : FoldGraph(S, c, Base, F, b, g)
  <2>1. FoldStep(S, c, Base, J, F, b)
    BY <1>4, <1>6, <1>7, <1>9, Zenon DEF FoldStep
  <2> QED
    BY <1>2, <2>1, FoldExists, Zenon
<1>11. g \in [SUBSET S -> Base] /\ \A T \in SUBSET S :
          g[T] = IF T = {} THEN b ELSE F[<<c[T], g[T \ {c[T]}]>>]
  BY <1>10, Zenon DEF FoldGraph
<1>12. it = [T \in SUBSET S |-> IF T = {} THEN b ELSE op(it[T \ {pick(T)}], order[pick(T)])]
  <2>1. ASSUME NEW T \in SUBSET S, T # {}
        PROVE  g[T] = op(g[T \ {pick(T)}], order[pick(T)])
    <3>1. c[T] \in S /\ T \ {c[T]} \in SUBSET S /\ c[T] = pick(T)
      BY <1>3, <2>1
    <3>2. g[T \ {c[T]}] \in Base
      BY <1>11, <3>1
    <3>3. g[T] = F[<<c[T], g[T \ {c[T]}]>>]
      BY <1>11, <2>1
    <3>4. g[T] = op(g[T \ {c[T]}], order[c[T]])
      BY <1>5, <3>1, <3>2, <3>3
    <3> QED
      BY <3>1, <3>4
  <2>2. g = [T \in SUBSET S |-> IF T = {} THEN b ELSE op(g[T \ {pick(T)}], order[pick(T)])]
    <3>1. g[{}] = b
      BY <1>11
    <3>2. g = [T \in SUBSET S |-> g[T]]
      BY <1>11
    <3>3. \A T \in SUBSET S : g[T] = IF T = {} THEN b ELSE op(g[T \ {pick(T)}], order[pick(T)])
      BY <3>1, <2>1
    <3> DEFINE R == [T \in SUBSET S |-> IF T = {} THEN b ELSE op(g[T \ {pick(T)}], order[pick(T)])]
    <3>4. \A T \in SUBSET S : R[T] = g[T]
      BY <3>3
    <3>5. R = [T \in SUBSET S |-> R[T]]
      OBVIOUS
    <3> HIDE DEF R
    <3>6. g = R
      BY <3>2, <3>4, <3>5
    <3> QED
      BY <3>6 DEF R
  <2> DEFINE Q(f) == f = [T \in SUBSET S |-> IF T = {} THEN b ELSE op(f[T \ {pick(T)}], order[pick(T)])]
  <2>3. Q(g)
    BY <2>2
  <2>4. it = CHOOSE f : Q(f)
    BY DEF it
  <2> HIDE DEF Q
  <2>5. Q(it)
    BY <2>3, <2>4, Zenon
  <2> QED
    BY <2>5 DEF Q
<1>13. it[{}] \in J[{}]
  <2>1. it[{}] = b
    BY <1>12
  <2> QED
    BY <1>6, <2>1
<1>14. ASSUME NEW T \in SUBSET S, T # {}, it[T \ {c[T]}] \in J[T \ {c[T]}]
       PROVE  it[T] \in J[T]
  <2>1. /\ c[T] \in S \ (T \ {c[T]}) /\ T \ {c[T]} \in SUBSET S
        /\ (T \ {c[T]}) \union {c[T]} = T /\ c[T] = pick(T)
    BY <1>3, <1>14
  <2>2. it[T \ {c[T]}] \in Base
    BY <1>4, <1>14, <2>1
  <2>3. F[<<c[T], it[T \ {c[T]}]>>] \in J[T]
    BY <1>7, <1>14, <2>1
  <2>4. it[T] = op(it[T \ {c[T]}], order[c[T]])
    BY <1>12, <1>14, <2>1
  <2>5. it[T] = F[<<c[T], it[T \ {c[T]}]>>]
    BY <1>5, <2>1, <2>2, <2>4
  <2> QED
    BY <2>3, <2>5
<1>15. it[S] \in J[S]
  BY <1>2, <1>9, <1>13, <1>14, FoldInduct
<1> QED
  BY <1>1, <1>8, <1>15 DEF S

LEMMA TimeoutsAre ==
    ASSUME NEW b, KindInv(b), NEW y, Collected(y, b), NEW n \in Nat, NEW order \in [1..n -> Due(b)]
    PROVE  Collected(TimeoutProcess(y, order), b)
<1> DEFINE S == DOMAIN order
           op(x, i) == Activate(Del(x, i), i, "TIMEOUT", 1)
           pick(T) == Max(T)
           J == [T \in SUBSET S |-> {x \in Base : Collected(x, b)}]
           c == [T \in SUBSET S |-> pick(T)]
           F == [p \in S \X Base |-> op(p[2], order[p[1]])]
           it == CHOOSE f : f =
                     [T \in SUBSET S |-> IF T = {} THEN y ELSE op(f[T \ {pick(T)}], order[pick(T)])]
<1>1. TimeoutProcess(y, order) = it[S]
  BY DEF TimeoutProcess, FoldLeft, MapThenFoldSet
<1>2. S = 1..n /\ IsFiniteSet(S)
  BY FS_Interval
<1>3. \A T \in SUBSET S : T # {} => c[T] \in T /\ c[T] = pick(T)
  BY <1>2, MaxIsGreatest
<1>4. \A T \in SUBSET S : J[T] \subseteq Base
  OBVIOUS
<1>5. \A i \in S, x \in Base : F[<<i, x>>] = op(x, order[i])
  OBVIOUS
<1>6. y \in J[{}]
  BY QueueTypes DEF Collected
<1>7. \A T \in SUBSET S : \A i \in S \ T : \A x \in J[T] : F[<<i, x>>] \in J[T \union {i}]
  <2> SUFFICES ASSUME NEW T \in SUBSET S, NEW i \in S \ T, NEW x \in J[T]
               PROVE  F[<<i, x>>] \in J[T \union {i}]
    OBVIOUS
  <2> HIDE DEF F
  <2>1. x \in Base /\ Collected(x, b)
    OBVIOUS
  <2>2. F[<<i, x>>] = op(x, order[i])
    BY <1>5, <2>1
  <2>3. order[i] \in Due(b)
    OBVIOUS
  <2>7. Collected(Activate(Del(x, order[i]), order[i], "TIMEOUT", 1), b)
    BY <2>1, <2>3, TimeoutStep
  <2>8. op(x, order[i]) \in Base
    BY <2>7, QueueTypes DEF Collected
  <2>9. T \union {i} \in SUBSET S
    OBVIOUS
  <2> QED
    BY <2>2, <2>7, <2>8, <2>9
<1>8. \A x : x \in J[S] => Collected(x, b)
  OBVIOUS
<1> HIDE DEF op, pick, J, c, F, it, S
<1>9. \A T \in SUBSET S : T # {} => c[T] \in T
  BY <1>3
<1>10. PICK g : FoldGraph(S, c, Base, F, y, g)
  <2>1. FoldStep(S, c, Base, J, F, y)
    BY <1>4, <1>6, <1>7, <1>9, Zenon DEF FoldStep
  <2> QED
    BY <1>2, <2>1, FoldExists, Zenon
<1>11. g \in [SUBSET S -> Base] /\ \A T \in SUBSET S :
          g[T] = IF T = {} THEN y ELSE F[<<c[T], g[T \ {c[T]}]>>]
  BY <1>10, Zenon DEF FoldGraph
<1>12. it = [T \in SUBSET S |-> IF T = {} THEN y ELSE op(it[T \ {pick(T)}], order[pick(T)])]
  <2>1. ASSUME NEW T \in SUBSET S, T # {}
        PROVE  g[T] = op(g[T \ {pick(T)}], order[pick(T)])
    <3>1. c[T] \in S /\ T \ {c[T]} \in SUBSET S /\ c[T] = pick(T)
      BY <1>3, <2>1
    <3>2. g[T \ {c[T]}] \in Base
      BY <1>11, <3>1
    <3>3. g[T] = F[<<c[T], g[T \ {c[T]}]>>]
      BY <1>11, <2>1
    <3>4. g[T] = op(g[T \ {c[T]}], order[c[T]])
      BY <1>5, <3>1, <3>2, <3>3
    <3> QED
      BY <3>1, <3>4
  <2>2. g = [T \in SUBSET S |-> IF T = {} THEN y ELSE op(g[T \ {pick(T)}], order[pick(T)])]
    <3>1. g[{}] = y
      BY <1>11
    <3>2. g = [T \in SUBSET S |-> g[T]]
      BY <1>11
    <3>3. \A T \in SUBSET S : g[T] = IF T = {} THEN y ELSE op(g[T \ {pick(T)}], order[pick(T)])
      BY <3>1, <2>1
    <3> DEFINE R == [T \in SUBSET S |-> IF T = {} THEN y ELSE op(g[T \ {pick(T)}], order[pick(T)])]
    <3>4. \A T \in SUBSET S : R[T] = g[T]
      BY <3>3
    <3>5. R = [T \in SUBSET S |-> R[T]]
      OBVIOUS
    <3> HIDE DEF R
    <3>6. g = R
      BY <3>2, <3>4, <3>5
    <3> QED
      BY <3>6 DEF R
  <2> DEFINE Q(f) == f = [T \in SUBSET S |-> IF T = {} THEN y ELSE op(f[T \ {pick(T)}], order[pick(T)])]
  <2>3. Q(g)
    BY <2>2
  <2>4. it = CHOOSE f : Q(f)
    BY DEF it
  <2> HIDE DEF Q
  <2>5. Q(it)
    BY <2>3, <2>4, Zenon
  <2> QED
    BY <2>5 DEF Q
<1>13. it[{}] \in J[{}]
  <2>1. it[{}] = y
    BY <1>12
  <2> QED
    BY <1>6, <2>1
<1>14. ASSUME NEW T \in SUBSET S, T # {}, it[T \ {c[T]}] \in J[T \ {c[T]}]
       PROVE  it[T] \in J[T]
  <2>1. /\ c[T] \in S \ (T \ {c[T]}) /\ T \ {c[T]} \in SUBSET S
        /\ (T \ {c[T]}) \union {c[T]} = T /\ c[T] = pick(T)
    BY <1>3, <1>14
  <2>2. it[T \ {c[T]}] \in Base
    BY <1>4, <1>14, <2>1
  <2>3. F[<<c[T], it[T \ {c[T]}]>>] \in J[T]
    BY <1>7, <1>14, <2>1
  <2>4. it[T] = op(it[T \ {c[T]}], order[c[T]])
    BY <1>12, <1>14, <2>1
  <2>5. it[T] = F[<<c[T], it[T \ {c[T]}]>>]
    BY <1>5, <2>1, <2>2, <2>4
  <2> QED
    BY <2>3, <2>5
<1>15. it[S] \in J[S]
  BY <1>2, <1>9, <1>13, <1>14, FoldInduct
<1> QED
  BY <1>1, <1>8, <1>15 DEF S

LEMMA TurnInv ==
    ASSUME IInv, Turn
    PROVE  IInv' /\ WatchStep
<1> DEFINE a == [base EXCEPT !.deferreds = 0]
           b == MakeLaterActive(a)
<1>1. PICK io \in SetToSeqs(Happened(b)), tm \in SetToSeqs(Due(b)) :
          base' = TimeoutProcess(Reported(b, io), tm)
  BY DEF Turn
<1>2. /\ phase = "top" /\ phase' = "process"
      /\ UNCHANGED <<uses, running, turns, ready, pipe, owed, bev>>
  BY DEF Turn
<1>3. QueueInv(base) /\ base \in Base
  BY QueueTypes DEF IInv
<1>4. /\ a \in Base /\ a.flags = base.flags /\ a.res = base.res /\ a.due = base.due
      /\ a.ncalls = base.ncalls /\ a.active = base.active /\ a.later = base.later
      /\ a.count = base.count /\ a.nactive = base.nactive
  BY <1>3 DEF Base
<1> HIDE DEF a
<1>5. QueueInv(a)
  BY <1>3, <1>4, SameQueues
<1>6. /\ QueueInv(b) /\ b.res = base.res /\ b.due = base.due /\ b.ncalls = base.ncalls
      /\ \A u \in Ev : b.flags[u] = IF "ACTIVE_LATER" \in base.flags[u]
                                    THEN (base.flags[u] \ {"ACTIVE_LATER"}) \cup {"ACTIVE"}
                                    ELSE base.flags[u]
  <2>1. /\ QueueInv(b) /\ Rest(b, a)
        /\ b.flags = [e \in Ev |-> IF "ACTIVE_LATER" \in a.flags[e]
                                   THEN (a.flags[e] \ {"ACTIVE_LATER"}) \cup {"ACTIVE"}
                                   ELSE a.flags[e]]
    BY <1>5, MakeLaterActiveIs
  <2> HIDE DEF b
  <2> QED
    BY <1>4, <2>1 DEF Rest
<1> HIDE DEF b
<1>7. \A u \in Ev \ Deferreds : Same(b, base, u)
  <2> SUFFICES ASSUME NEW u \in Ev \ Deferreds PROVE Same(b, base, u)
    OBVIOUS
  <2>1. "ACTIVE_LATER" \notin base.flags[u]
    BY DEF IInv, KindInv, KindOf
  <2> QED
    BY <1>6, <2>1 DEF Same
<1>8. KindInv(b)
  <2>1. ASSUME NEW u \in Ev PROVE KindOf(b, u)
    <3>1. KindOf(base, u)
      BY DEF IInv, KindInv
    <3>2. CASE "ACTIVE_LATER" \in base.flags[u]
      <4>1. u \in Deferreds /\ "FINALIZING" \notin base.flags[u]
        BY <3>1, <3>2 DEF KindOf
      <4>2. b.flags[u] = (base.flags[u] \ {"ACTIVE_LATER"}) \cup {"ACTIVE"}
        BY <1>6, <3>2
      <4> QED
        BY <3>1, <4>1, <4>2 DEF KindOf
    <3>3. CASE "ACTIVE_LATER" \notin base.flags[u]
      <4>1. b.flags[u] = base.flags[u]
        BY <1>6, <3>3
      <4> QED
        BY <3>1, <4>1 DEF KindOf
    <3> QED
      BY <3>2, <3>3
  <2> QED
    BY <2>1 DEF KindInv
<1>9. CauseInv(b, ready)
  <2> SUFFICES ASSUME NEW u \in Timers \cup Ios PROVE CauseOf(b, ready, u)
    BY DEF CauseInv
  <2>1. u \in Ev \ Deferreds
    BY Kinds
  <2>2. Same(b, base, u) /\ CauseOf(base, ready, u)
    BY <1>7, <2>1 DEF IInv, CauseInv
  <2> QED
    BY <2>2 DEF CauseOf, Same
<1>10. Collected(base', b)
  <2>1. /\ Cardinality(Happened(b)) \in Nat /\ io \in [1..Cardinality(Happened(b)) -> Happened(b)]
        /\ Cardinality(Due(b)) \in Nat /\ tm \in [1..Cardinality(Due(b)) -> Due(b)]
    <3>1. Happened(b) \subseteq Ev /\ Due(b) \subseteq Ev
      BY Kinds DEF Happened, Due
    <3>2. IsFiniteSet(Happened(b)) /\ IsFiniteSet(Due(b))
      BY <3>1, KindsAssumption, FS_Subset
    <3>3. Cardinality(Happened(b)) \in Nat /\ Cardinality(Due(b)) \in Nat
      BY <3>2, FS_CardinalityType
    <3>4. io \in [1..Cardinality(Happened(b)) -> Happened(b)]
      BY <1>1 DEF SetToSeqs
    <3>5. tm \in [1..Cardinality(Due(b)) -> Due(b)]
      BY <1>1 DEF SetToSeqs
    <3> QED
      BY <3>3, <3>4, <3>5
  <2>2. Collected(Reported(b, io), b)
    <3>1. Reporting(Reported(b, io), b)
      BY <1>6, <1>8, <1>9, <2>1, ReportedIs
    <3> QED
      BY <3>1 DEF Reporting
  <2>3. Collected(TimeoutProcess(Reported(b, io), tm), b)
    BY <1>8, <2>1, <2>2, TimeoutsAre
  <2> QED
    BY <1>1, <2>3
<1>11. /\ QueueInv(base') /\ KindInv(base') /\ CauseInv(base', ready)
       /\ \A u \in Ev :
            /\ "FINALIZING" \in base'.flags[u] <=> "FINALIZING" \in b.flags[u]
            /\ b.flags[u] \cap {"INSERTED", "TIMEOUT"} = {} \/ u \in Sigs => Same(base', b, u)
            /\ "TIMEOUT" \in base'.flags[u] =>
                 "TIMEOUT" \in b.flags[u] /\ ("INSERTED" \in base'.flags[u] <=> "INSERTED" \in b.flags[u])
  BY <1>10 DEF Collected
<1>12. CauseInv(base', ready')
  BY <1>2, <1>11
<1>13. \A s \in Sigs : /\ base'.flags[s] = base.flags[s] /\ base'.ncalls[s] = base.ncalls[s]
                       /\ "ACTIVE" \notin base.flags[s]
  <2> SUFFICES ASSUME NEW s \in Sigs
               PROVE  /\ base'.flags[s] = base.flags[s] /\ base'.ncalls[s] = base.ncalls[s]
                      /\ "ACTIVE" \notin base.flags[s]
    OBVIOUS
  <2>1. s \in Ev \ Deferreds
    BY Kinds
  <2>2. Same(base', b, s) /\ Same(b, base, s)
    BY <1>7, <1>11, <2>1
  <2>3. "ACTIVE" \notin base.flags[s]
    BY <1>2 DEF IInv, LoopInv
  <2> QED
    BY <2>2, <2>3 DEF Same
<1>14. running = Nobody
  BY <1>2 DEF IInv, LoopInv
<1>15. LoopInv'
  <2>1. LoopInv
    BY DEF IInv
  <2> QED
    BY <1>2, <1>13, <1>14, <2>1 DEF LoopInv
<1>16. SigInv'
  BY <1>2, <1>13, SigKept DEF IInv
<1>17. ASSUME NEW v \in Bevs PROVE BevOf(v)'
  <2>1. BevOf(v) /\ bev'[v] = bev[v] /\ running' = running
    BY <1>2 DEF IInv, BevInv
  <2>2. \A e \in Both(v) : e \in Ev \ Deferreds
    BY Kinds, Bufferevents
  <2>3. \A e \in Both(v) : /\ "FINALIZING" \in base'.flags[e] <=> "FINALIZING" \in base.flags[e]
                           /\ base.flags[e] \cap {"INSERTED", "TIMEOUT"} = {} =>
                                 base'.flags[e] = base.flags[e]
    BY <1>7, <1>11, <2>2 DEF Same
  <2>4. CASE bev[v] \in {"alive", "freeing"}
    BY <2>1, <2>3, <2>4 DEF BevOf, Both
  <2>5. CASE bev[v] = "finalizing"
    <3>1. \A e \in Both(v) : base.flags[e] \cap {"INSERTED", "TIMEOUT"} = {}
      BY <2>1, <2>5 DEF BevOf
    <3>2. \A e \in Both(v) : base'.flags[e] = base.flags[e]
      BY <2>3, <3>1
    <3> QED
      BY <2>1, <3>2 DEF BevOf, Both
  <2>6. CASE bev[v] = "gone"
    <3>1. \A e \in Both(v) : base.flags[e] \cap {"INSERTED", "TIMEOUT"} = {}
      BY <2>1, <2>6 DEF BevOf
    <3>2. \A e \in Both(v) : base'.flags[e] = base.flags[e]
      BY <2>3, <3>1
    <3> QED
      BY <2>1, <3>2 DEF BevOf, Both
  <2> QED
    BY <2>4, <2>5, <2>6 DEF IInv, BevInv
<1>18. BevInv' /\ FreedInv'
  BY <1>2, <1>17 DEF IInv, BevInv, FreedInv
<1>19. WatchStep
  <2> SUFFICES ASSUME NEW u \in Ios,
                      "TIMEOUT" \in base'.flags[u], "INSERTED" \notin base'.flags[u]
               PROVE  "TIMEOUT" \in base.flags[u] /\ "INSERTED" \notin base.flags[u]
    BY DEF WatchStep
  <2>1. u \in Ev \ Deferreds
    BY Kinds
  <2> QED
    BY <1>7, <1>11, <2>1 DEF Same
<1> QED
  BY <1>11, <1>12, <1>15, <1>16, <1>18, <1>19 DEF IInv

-----------------------------------------------------------------------------
(* event_base_free *)

\* The events in T of the base b were deleted.
Deleted(x, b, T) ==
    QueueInv(x) /\ (\A u \in Ev \ T : Same(x, b, u)) /\ (\A u \in T : x.flags[u] = {})

\* The events in E were taken out of the queues.
Emptied(x, b, E) ==
    /\ QueueInv(x)
    /\ \A u \in Ev : /\ x.flags[u] \subseteq b.flags[u]
                     /\ "FINALIZING" \in b.flags[u] => "FINALIZING" \in x.flags[u]
                     /\ u \in E => x.flags[u] \cap {"ACTIVE", "ACTIVE_LATER"} = {}

LEMMA DeleteStep ==
    ASSUME NEW b, NEW T \in SUBSET Ev, NEW e \in Ev \ T, NEW x, Deleted(x, b, T),
           "FINALIZING" \notin b.flags[e]
    PROVE  Deleted(Del(x, e), b, T \union {e})
<1> DEFINE n == Del(x, e)
<1>1. /\ QueueInv(x) /\ x.flags[e] = b.flags[e]
      /\ \A u \in Ev \ T : Same(x, b, u)
      /\ \A u \in T : x.flags[u] = {}
  BY DEF Deleted, Same
<1>2. Becomes(n, x, e, {})
  <2>1. Becomes(n, x, e, IF Finalizing(x, e) THEN x.flags[e] ELSE {})
    BY <1>1, DelIs
  <2> QED
    BY <1>1, <2>1 DEF Finalizing
<1> HIDE DEF n
<1>3. QueueInv(n) /\ Others(n, x, e) /\ n.flags[e] = {}
  BY <1>1, <1>2, BecomesIs
<1>4. \A u \in Ev \ (T \union {e}) : Same(n, b, u)
  BY <1>1, <1>3 DEF Others, Same
<1>5. \A u \in T : n.flags[u] = {}
  BY <1>1, <1>3 DEF Others, Same
<1>6. Deleted(n, b, T \union {e})
  BY <1>3, <1>4, <1>5 DEF Deleted
<1> QED
  BY <1>6 DEF n

LEMMA EmptyStep ==
    ASSUME NEW b, NEW E, NEW e \in Ev, NEW x, Emptied(x, b, E)
    PROVE  Emptied(Unqueue(x, e), b, E \union {e})
<1> DEFINE n == Unqueue(x, e)
<1>1. QueueInv(x)
  BY DEF Emptied
<1>2. Becomes(n, x, e, x.flags[e] \ {"ACTIVE", "ACTIVE_LATER"})
  BY <1>1, UnqueueIs
<1> HIDE DEF n
<1>3. QueueInv(n) /\ Others(n, x, e) /\ n.flags[e] = x.flags[e] \ {"ACTIVE", "ACTIVE_LATER"}
  BY <1>1, <1>2, BecomesIs
<1>4. ASSUME NEW u \in Ev
      PROVE  /\ n.flags[u] \subseteq b.flags[u]
             /\ "FINALIZING" \in b.flags[u] => "FINALIZING" \in n.flags[u]
             /\ u \in E \union {e} => n.flags[u] \cap {"ACTIVE", "ACTIVE_LATER"} = {}
  <2>1. /\ x.flags[u] \subseteq b.flags[u]
        /\ "FINALIZING" \in b.flags[u] => "FINALIZING" \in x.flags[u]
        /\ u \in E => x.flags[u] \cap {"ACTIVE", "ACTIVE_LATER"} = {}
    BY DEF Emptied
  <2>2. CASE u = e
    BY <1>3, <2>1, <2>2
  <2>3. CASE u # e
    <3>1. n.flags[u] = x.flags[u]
      BY <1>3, <2>3 DEF Others, Same
    <3> QED
      BY <2>1, <2>3, <3>1
  <2> QED
    BY <2>2, <2>3
<1>5. Emptied(n, b, E \union {e})
  BY <1>3, <1>4 DEF Emptied
<1> QED
  BY <1>5 DEF n

LEMMA DeleteFold ==
    ASSUME NEW b, QueueInv(b), NEW S \in SUBSET Ev, \A e \in S : "FINALIZING" \notin b.flags[e]
    PROVE  Deleted(FoldSet(LAMBDA e, x : Del(x, e), b, S), b, S)
<1> DEFINE op(x, i) == Del(x, i)
           pick(T) == CHOOSE s \in T : TRUE
           J == [T \in SUBSET S |-> {x \in Base : Deleted(x, b, T)}]
           c == [T \in SUBSET S |-> pick(T)]
           F == [p \in S \X Base |-> op(p[2], p[1])]
           it == CHOOSE f : f =
                     [T \in SUBSET S |-> IF T = {} THEN b ELSE op(f[T \ {pick(T)}], pick(T))]
<1>1. FoldSet(LAMBDA e, x : Del(x, e), b, S) = it[S]
  BY DEF FoldSet, MapThenFoldSet
<1>2. IsFiniteSet(S)
  BY KindsAssumption, FS_Subset
<1>3. \A T \in SUBSET S : T # {} => c[T] \in T /\ c[T] = pick(T)
  OBVIOUS
<1>4. \A T \in SUBSET S : J[T] \subseteq Base
  OBVIOUS
<1>5. \A i \in S, x \in Base : F[<<i, x>>] = op(x, i)
  OBVIOUS
<1>6. b \in J[{}]
  BY QueueTypes DEF Deleted, Same
<1>7. \A T \in SUBSET S : \A i \in S \ T : \A x \in J[T] : F[<<i, x>>] \in J[T \union {i}]
  <2> SUFFICES ASSUME NEW T \in SUBSET S, NEW i \in S \ T, NEW x \in J[T]
               PROVE  F[<<i, x>>] \in J[T \union {i}]
    OBVIOUS
  <2> HIDE DEF F
  <2>1. x \in Base /\ Deleted(x, b, T)
    OBVIOUS
  <2>2. F[<<i, x>>] = op(x, i)
    BY <1>5, <2>1
  <2>3. T \in SUBSET Ev /\ i \in Ev \ T /\ "FINALIZING" \notin b.flags[i]
    OBVIOUS
  <2>7. Deleted(Del(x, i), b, T \union {i})
    BY <2>1, <2>3, DeleteStep
  <2>8. op(x, i) \in Base
    BY <2>7, QueueTypes DEF Deleted
  <2>9. T \union {i} \in SUBSET S
    OBVIOUS
  <2> QED
    BY <2>2, <2>7, <2>8, <2>9
<1>8. \A x : x \in J[S] => Deleted(x, b, S)
  OBVIOUS
<1> HIDE DEF op, pick, J, c, F, it
<1>9. \A T \in SUBSET S : T # {} => c[T] \in T
  BY <1>3
<1>10. PICK g : FoldGraph(S, c, Base, F, b, g)
  <2>1. FoldStep(S, c, Base, J, F, b)
    BY <1>4, <1>6, <1>7, <1>9, Zenon DEF FoldStep
  <2> QED
    BY <1>2, <2>1, FoldExists, Zenon
<1>11. g \in [SUBSET S -> Base] /\ \A T \in SUBSET S :
          g[T] = IF T = {} THEN b ELSE F[<<c[T], g[T \ {c[T]}]>>]
  BY <1>10, Zenon DEF FoldGraph
<1>12. it = [T \in SUBSET S |-> IF T = {} THEN b ELSE op(it[T \ {pick(T)}], pick(T))]
  <2>1. ASSUME NEW T \in SUBSET S, T # {}
        PROVE  g[T] = op(g[T \ {pick(T)}], pick(T))
    <3>1. c[T] \in S /\ T \ {c[T]} \in SUBSET S /\ c[T] = pick(T)
      BY <1>3, <2>1
    <3>2. g[T \ {c[T]}] \in Base
      BY <1>11, <3>1
    <3>3. g[T] = F[<<c[T], g[T \ {c[T]}]>>]
      BY <1>11, <2>1
    <3>4. g[T] = op(g[T \ {c[T]}], c[T])
      BY <1>5, <3>1, <3>2, <3>3
    <3> QED
      BY <3>1, <3>4
  <2>2. g = [T \in SUBSET S |-> IF T = {} THEN b ELSE op(g[T \ {pick(T)}], pick(T))]
    <3>1. g[{}] = b
      BY <1>11
    <3>2. g = [T \in SUBSET S |-> g[T]]
      BY <1>11
    <3>3. \A T \in SUBSET S : g[T] = IF T = {} THEN b ELSE op(g[T \ {pick(T)}], pick(T))
      BY <3>1, <2>1
    <3> DEFINE R == [T \in SUBSET S |-> IF T = {} THEN b ELSE op(g[T \ {pick(T)}], pick(T))]
    <3>4. \A T \in SUBSET S : R[T] = g[T]
      BY <3>3
    <3>5. R = [T \in SUBSET S |-> R[T]]
      OBVIOUS
    <3> HIDE DEF R
    <3>6. g = R
      BY <3>2, <3>4, <3>5
    <3> QED
      BY <3>6 DEF R
  <2> DEFINE Q(f) == f = [T \in SUBSET S |-> IF T = {} THEN b ELSE op(f[T \ {pick(T)}], pick(T))]
  <2>3. Q(g)
    BY <2>2
  <2>4. it = CHOOSE f : Q(f)
    BY DEF it
  <2> HIDE DEF Q
  <2>5. Q(it)
    BY <2>3, <2>4, Zenon
  <2> QED
    BY <2>5 DEF Q
<1>13. it[{}] \in J[{}]
  <2>1. it[{}] = b
    BY <1>12
  <2> QED
    BY <1>6, <2>1
<1>14. ASSUME NEW T \in SUBSET S, T # {}, it[T \ {c[T]}] \in J[T \ {c[T]}]
       PROVE  it[T] \in J[T]
  <2>1. /\ c[T] \in S \ (T \ {c[T]}) /\ T \ {c[T]} \in SUBSET S
        /\ (T \ {c[T]}) \union {c[T]} = T /\ c[T] = pick(T)
    BY <1>3, <1>14
  <2>2. it[T \ {c[T]}] \in Base
    BY <1>4, <1>14, <2>1
  <2>3. F[<<c[T], it[T \ {c[T]}]>>] \in J[T]
    BY <1>7, <1>14, <2>1
  <2>4. it[T] = op(it[T \ {c[T]}], c[T])
    BY <1>12, <1>14, <2>1
  <2>5. it[T] = F[<<c[T], it[T \ {c[T]}]>>]
    BY <1>5, <2>1, <2>2, <2>4
  <2> QED
    BY <2>3, <2>5
<1>15. it[S] \in J[S]
  BY <1>2, <1>9, <1>13, <1>14, FoldInduct
<1> QED
  BY <1>1, <1>8, <1>15

LEMMA EmptyFold ==
    ASSUME NEW b, QueueInv(b), NEW n \in Nat, NEW order \in [1..n -> Ev],
           NEW E, E = {order[i] : i \in DOMAIN order}
    PROVE  Emptied(FoldLeft(LAMBDA x, e : Unqueue(x, e), b, order), b, E)
<1> DEFINE S == DOMAIN order
           op(x, i) == Unqueue(x, i)
           pick(T) == Max(T)
           J == [T \in SUBSET S |-> {x \in Base : Emptied(x, b, {order[k] : k \in T})}]
           c == [T \in SUBSET S |-> pick(T)]
           F == [p \in S \X Base |-> op(p[2], order[p[1]])]
           it == CHOOSE f : f =
                     [T \in SUBSET S |-> IF T = {} THEN b ELSE op(f[T \ {pick(T)}], order[pick(T)])]
<1>1. FoldLeft(LAMBDA x, e : Unqueue(x, e), b, order) = it[S]
  BY DEF FoldLeft, MapThenFoldSet
<1>2. S = 1..n /\ IsFiniteSet(S)
  BY FS_Interval
<1>3. \A T \in SUBSET S : T # {} => c[T] \in T /\ c[T] = pick(T)
  BY <1>2, MaxIsGreatest
<1>4. \A T \in SUBSET S : J[T] \subseteq Base
  OBVIOUS
<1>5. \A i \in S, x \in Base : F[<<i, x>>] = op(x, order[i])
  OBVIOUS
<1>6. b \in J[{}]
  BY QueueTypes DEF Emptied
<1>7. \A T \in SUBSET S : \A i \in S \ T : \A x \in J[T] : F[<<i, x>>] \in J[T \union {i}]
  <2> SUFFICES ASSUME NEW T \in SUBSET S, NEW i \in S \ T, NEW x \in J[T]
               PROVE  F[<<i, x>>] \in J[T \union {i}]
    OBVIOUS
  <2> HIDE DEF F
  <2>1. x \in Base /\ Emptied(x, b, {order[k] : k \in T})
    OBVIOUS
  <2>2. F[<<i, x>>] = op(x, order[i])
    BY <1>5, <2>1
  <2>3. order[i] \in Ev /\ {order[k] : k \in T \union {i}} = {order[k] : k \in T} \union {order[i]}
    OBVIOUS
  <2>4. Emptied(Unqueue(x, order[i]), b, {order[k] : k \in T} \union {order[i]})
    BY <2>1, <2>3, EmptyStep
  <2>7. Emptied(Unqueue(x, order[i]), b, {order[k] : k \in T \union {i}})
    BY <2>3, <2>4
  <2>8. op(x, order[i]) \in Base
    BY <2>7, QueueTypes DEF Emptied
  <2>9. T \union {i} \in SUBSET S
    OBVIOUS
  <2> QED
    BY <2>2, <2>7, <2>8, <2>9
<1>8. \A x : x \in J[S] => Emptied(x, b, {order[k] : k \in S})
  OBVIOUS
<1> HIDE DEF op, pick, J, c, F, it, S
<1>9. \A T \in SUBSET S : T # {} => c[T] \in T
  BY <1>3
<1>10. PICK g : FoldGraph(S, c, Base, F, b, g)
  <2>1. FoldStep(S, c, Base, J, F, b)
    BY <1>4, <1>6, <1>7, <1>9, Zenon DEF FoldStep
  <2> QED
    BY <1>2, <2>1, FoldExists, Zenon
<1>11. g \in [SUBSET S -> Base] /\ \A T \in SUBSET S :
          g[T] = IF T = {} THEN b ELSE F[<<c[T], g[T \ {c[T]}]>>]
  BY <1>10, Zenon DEF FoldGraph
<1>12. it = [T \in SUBSET S |-> IF T = {} THEN b ELSE op(it[T \ {pick(T)}], order[pick(T)])]
  <2>1. ASSUME NEW T \in SUBSET S, T # {}
        PROVE  g[T] = op(g[T \ {pick(T)}], order[pick(T)])
    <3>1. c[T] \in S /\ T \ {c[T]} \in SUBSET S /\ c[T] = pick(T)
      BY <1>3, <2>1
    <3>2. g[T \ {c[T]}] \in Base
      BY <1>11, <3>1
    <3>3. g[T] = F[<<c[T], g[T \ {c[T]}]>>]
      BY <1>11, <2>1
    <3>4. g[T] = op(g[T \ {c[T]}], order[c[T]])
      BY <1>5, <3>1, <3>2, <3>3
    <3> QED
      BY <3>1, <3>4
  <2>2. g = [T \in SUBSET S |-> IF T = {} THEN b ELSE op(g[T \ {pick(T)}], order[pick(T)])]
    <3>1. g[{}] = b
      BY <1>11
    <3>2. g = [T \in SUBSET S |-> g[T]]
      BY <1>11
    <3>3. \A T \in SUBSET S : g[T] = IF T = {} THEN b ELSE op(g[T \ {pick(T)}], order[pick(T)])
      BY <3>1, <2>1
    <3> DEFINE R == [T \in SUBSET S |-> IF T = {} THEN b ELSE op(g[T \ {pick(T)}], order[pick(T)])]
    <3>4. \A T \in SUBSET S : R[T] = g[T]
      BY <3>3
    <3>5. R = [T \in SUBSET S |-> R[T]]
      OBVIOUS
    <3> HIDE DEF R
    <3>6. g = R
      BY <3>2, <3>4, <3>5
    <3> QED
      BY <3>6 DEF R
  <2> DEFINE Q(f) == f = [T \in SUBSET S |-> IF T = {} THEN b ELSE op(f[T \ {pick(T)}], order[pick(T)])]
  <2>3. Q(g)
    BY <2>2
  <2>4. it = CHOOSE f : Q(f)
    BY DEF it
  <2> HIDE DEF Q
  <2>5. Q(it)
    BY <2>3, <2>4, Zenon
  <2> QED
    BY <2>5 DEF Q
<1>13. it[{}] \in J[{}]
  <2>1. it[{}] = b
    BY <1>12
  <2> QED
    BY <1>6, <2>1
<1>14. ASSUME NEW T \in SUBSET S, T # {}, it[T \ {c[T]}] \in J[T \ {c[T]}]
       PROVE  it[T] \in J[T]
  <2>1. /\ c[T] \in S \ (T \ {c[T]}) /\ T \ {c[T]} \in SUBSET S
        /\ (T \ {c[T]}) \union {c[T]} = T /\ c[T] = pick(T)
    BY <1>3, <1>14
  <2>2. it[T \ {c[T]}] \in Base
    BY <1>4, <1>14, <2>1
  <2>3. F[<<c[T], it[T \ {c[T]}]>>] \in J[T]
    BY <1>7, <1>14, <2>1
  <2>4. it[T] = op(it[T \ {c[T]}], order[c[T]])
    BY <1>12, <1>14, <2>1
  <2>5. it[T] = F[<<c[T], it[T \ {c[T]}]>>]
    BY <1>5, <2>1, <2>2, <2>4
  <2> QED
    BY <2>3, <2>5
<1>15. it[S] \in J[S]
  BY <1>2, <1>9, <1>13, <1>14, FoldInduct
<1> QED
  BY <1>1, <1>8, <1>15 DEF S

\* Nothing is left in a base that was freed.
LEMMA FreeInv ==
    ASSUME IInv, FreeEventBase
    PROVE  IInv' /\ WatchStep
<1> DEFINE added == {e \in Ev : base.flags[e] \cap {"INSERTED", "TIMEOUT"} # {}}
           b     == FoldSet(LAMBDA e, x : Del(x, e), base, added)
           order == b.active \o b.later
           E     == {order[i] : i \in DOMAIN order}
<1>1. /\ phase = "out" /\ phase' = "freed" /\ FreeFinalizers
      /\ base' = FoldLeft(LAMBDA x, e : Unqueue(x, e), b, order)
      /\ UNCHANGED <<uses, running, turns, ready, pipe, owed>>
  BY DEF FreeEventBase
<1>2. QueueInv(base) /\ KindInv(base) /\ running = Nobody /\ turns = 0
  BY <1>1, Kinds DEF IInv, LoopInv
<1>3. Deleted(b, base, added)
  <2>1. added \in SUBSET Ev
    OBVIOUS
  <2>2. \A e \in added : "FINALIZING" \notin base.flags[e]
    BY <1>2 DEF KindInv, KindOf
  <2> HIDE DEF added
  <2> QED
    BY <1>2, <2>1, <2>2, DeleteFold
<1>4. /\ QueueInv(b) /\ \A u \in Ev \ added : b.flags[u] = base.flags[u]
      /\ \A u \in added : b.flags[u] = {}
  BY <1>3 DEF Deleted, Same
<1> HIDE DEF b
<1>5. /\ b.active \in Seq(Ev) /\ b.later \in Seq(Ev) /\ IsInjective(b.active) /\ IsInjective(b.later)
      /\ \A u \in Ev : /\ "ACTIVE" \in b.flags[u] <=> Contains(b.active, u)
                       /\ "ACTIVE_LATER" \in b.flags[u] <=> Contains(b.later, u)
                       /\ ~("ACTIVE" \in b.flags[u] /\ "ACTIVE_LATER" \in b.flags[u])
      /\ b.flags \in [Ev -> SUBSET Flags]
  BY <1>4, QueueTypes
<1>6. /\ order \in Seq(Ev)
      /\ \A u : Contains(order, u) <=> Contains(b.active, u) \/ Contains(b.later, u)
  <2>1. ASSUME NEW u, Contains(b.active, u), Contains(b.later, u) PROVE FALSE
    <3>1. u \in Ev
      BY <1>5, <2>1, LenProperties DEF Contains
    <3> QED
      BY <1>5, <2>1, <3>1
  <2> QED
    BY <1>5, <2>1, JoinedQueues
<1> HIDE DEF order
<1>7. Emptied(base', b, E)
  <2>1. Len(order) \in Nat /\ order \in [1..Len(order) -> Ev]
    BY <1>6, LenProperties
  <2>a. E = {order[i] : i \in DOMAIN order}
    OBVIOUS
  <2> HIDE DEF E
  <2>2. Emptied(FoldLeft(LAMBDA x, e : Unqueue(x, e), b, order), b, E)
    BY <1>4, <2>1, <2>a, EmptyFold
  <2> QED
    BY <1>1, <2>2
<1>8. QueueInv(base')
  BY <1>7 DEF Emptied
<1>9. ASSUME NEW u \in Ev
      PROVE  /\ base'.flags[u] \subseteq {"FINALIZING"}
             /\ "FINALIZING" \in base'.flags[u] <=> "FINALIZING" \in base.flags[u]
  <2>1. /\ base'.flags[u] \subseteq b.flags[u]
        /\ "FINALIZING" \in b.flags[u] => "FINALIZING" \in base'.flags[u]
        /\ u \in E => base'.flags[u] \cap {"ACTIVE", "ACTIVE_LATER"} = {}
    BY <1>7 DEF Emptied
  <2>2. /\ b.flags[u] \subseteq Flags /\ b.flags[u] \cap {"INSERTED", "TIMEOUT"} = {}
        /\ "FINALIZING" \in b.flags[u] <=> "FINALIZING" \in base.flags[u]
    <3>1. CASE u \in added
      <4>1. KindOf(base, u)
        BY <1>2 DEF KindInv
      <4> QED
        BY <1>4, <3>1, <4>1 DEF KindOf
    <3>2. CASE u \notin added
      BY <1>4, <1>5, <3>2
    <3> QED
      BY <3>1, <3>2
  <2>3. base'.flags[u] \cap {"ACTIVE", "ACTIVE_LATER"} = {}
    <3>1. CASE u \in E
      BY <2>1, <3>1
    <3>2. CASE u \notin E
      <4>1. ~Contains(order, u)
        BY <3>2 DEF Contains
      <4> QED
        BY <1>5, <1>6, <2>1, <4>1
    <3> QED
      BY <3>1, <3>2
  <2> QED
    BY <2>1, <2>2, <2>3 DEF Flags
<1>10. KindInv(base')
  <2>1. ASSUME NEW u \in Ev PROVE KindOf(base', u)
    <3>1. KindOf(base, u)
      BY <1>2 DEF KindInv
    <3> QED
      BY <1>9, <3>1 DEF KindOf
  <2> QED
    BY <2>1 DEF KindInv
<1>11. CauseInv(base', ready') /\ WatchStep
  <2>1. \A u \in Timers \cup Ios : u \in Ev
    BY Kinds
  <2> QED
    BY <1>9, <2>1 DEF CauseInv, CauseOf, WatchStep
<1>12. LoopInv'
  <2>1. \A u \in Sigs \cup {Pipe} : "ACTIVE" \notin base'.flags[u]
    BY <1>9, Kinds
  <2> QED
    <3>1. /\ uses' \in Uses /\ ready' \subseteq Ios /\ phase' = "freed" /\ turns' = 0
          /\ running' = Nobody /\ Nobody \notin Sigs
      BY <1>1, <1>2, Kinds DEF IInv, LoopInv
    <3>2. "ACTIVE" \notin base'.flags[Pipe] /\ \A s \in Sigs : "ACTIVE" \notin base'.flags[s]
      BY <2>1
    <3> QED
      BY <3>1, <3>2 DEF LoopInv
<1>13. SigInv'
  <2>1. \A s \in Sigs : /\ "ACTIVE" \notin base'.flags[s] /\ "INSERTED" \notin base'.flags[s]
                        /\ running' # s
    BY <1>1, <1>2, <1>9, Kinds
  <2> QED
    BY <1>1, <2>1 DEF IInv, SigInv
<1>14. \A v \in Bevs : /\ bev[v] \in {"alive", "finalizing", "gone"} /\ BevOf(v)
                       /\ bev'[v] = IF bev[v] = "finalizing" THEN "gone" ELSE bev[v]
                       /\ running' \notin Both(v) /\ Both(v) \subseteq Ev
  <2> SUFFICES ASSUME NEW v \in Bevs
               PROVE  /\ bev[v] \in {"alive", "finalizing", "gone"} /\ BevOf(v)
                      /\ bev'[v] = IF bev[v] = "finalizing" THEN "gone" ELSE bev[v]
                      /\ running' \notin Both(v) /\ Both(v) \subseteq Ev
    OBVIOUS
  <2>1. Both(v) \subseteq Ev /\ Nobody \notin Both(v)
    BY Kinds, Bufferevents
  <2>2. BevOf(v) /\ bev[v] \in {"alive", "freeing", "finalizing", "gone"}
    BY DEF IInv, BevInv
  <2>3. bev[v] # "freeing"
    BY <1>2, <2>1, <2>2 DEF BevOf
  <2> QED
    BY <1>1, <1>2, <2>1, <2>2, <2>3 DEF FreeFinalizers
<1>15. \A v \in Bevs : bev'[v] \in {"alive", "gone"}
  BY <1>14
<1>16. BevInv'
  <2>1. ASSUME NEW v \in Bevs PROVE BevOf(v)'
    <3>1. CASE bev[v] = "alive"
      <4>1. \A e \in Both(v) : "FINALIZING" \notin base'.flags[e]
        BY <1>9, <1>14, <3>1 DEF BevOf
      <4> QED
        BY <1>14, <3>1, <4>1 DEF BevOf, Both
    <3>2. CASE bev[v] # "alive"
      <4>1. bev'[v] = "gone" /\ running' \notin Both(v)
        BY <1>14, <3>2
      <4>2. \A e \in Both(v) : base'.flags[e] \subseteq {"FINALIZING"}
        BY <1>9, <1>14
      <4> QED
        BY <4>1, <4>2 DEF BevOf, Both
    <3> QED
      BY <3>1, <3>2
  <2>2. bev' \in [Bevs -> {"alive", "freeing", "finalizing", "gone"}]
    BY <1>1, <1>15 DEF FreeFinalizers
  <2> QED
    BY <2>1, <2>2 DEF BevInv
<1>17. FreedInv'
  <2>1. base'.active \in Seq(Ev) /\ base'.later \in Seq(Ev)
    BY <1>8, QueueTypes
  <2>2. \A u \in Ev : ~Contains(base'.active, u) /\ ~Contains(base'.later, u)
    <3>1. \A u \in Ev : /\ "ACTIVE" \in base'.flags[u] <=> Contains(base'.active, u)
                        /\ "ACTIVE_LATER" \in base'.flags[u] <=> Contains(base'.later, u)
      BY <1>8, QueueTypes
    <3> QED
      BY <1>9, <3>1
  <2>3. ASSUME NEW q \in Seq(Ev), \A u \in Ev : ~Contains(q, u) PROVE q = <<>>
    <3> SUFFICES ASSUME q # <<>> PROVE FALSE
      OBVIOUS
    <3>1. 1 \in DOMAIN q /\ q[1] \in Ev
      OBVIOUS
    <3> QED
      BY <2>3, <3>1 DEF Contains
  <2>4. base'.active = <<>> /\ base'.later = <<>>
    BY <2>1, <2>2, <2>3
  <2> QED
    BY <1>9, <1>15, <2>4 DEF FreedInv
<1> QED
  BY <1>8, <1>10, <1>11, <1>12, <1>13, <1>16, <1>17 DEF IInv

-----------------------------------------------------------------------------
(* Every step. *)

LEMMA NextInv ==
    ASSUME IInv, [Next]_vars
    PROVE  IInv' /\ WatchStep
<1>1. ASSUME NEW e \in Timers \cup Ios, UserAdd(e) PROVE IInv' /\ WatchStep
  BY <1>1, UserAddInv
<1>2. ASSUME NEW e \in Timers \cup Ios, UserDel(e) PROVE IInv' /\ WatchStep
  BY <1>2, UserDelInv
<1>3. ASSUME NEW s \in Sigs, RegSignal(s) PROVE IInv' /\ WatchStep
  BY <1>3, RegSignalInv
<1>4. ASSUME NEW d \in Deferreds, UserSchedule(d) \/ UserCancel(d) PROVE IInv' /\ WatchStep
  BY <1>4, UserScheduleInv
<1>5. ASSUME NEW x \in Exits, StopDispatch(x) PROVE IInv' /\ WatchStep
  BY <1>5, StopDispatchInv
<1>6. ASSUME NEW v \in Bevs, BevFree(v) PROVE IInv' /\ WatchStep
  BY <1>6, BevFreeInv
<1>7. ASSUME FreeEventBase PROVE IInv' /\ WatchStep
  BY <1>7, FreeInv
<1>8. ASSUME CbReturn PROVE IInv' /\ WatchStep
  BY <1>8, CbReturnInv
<1>9. ASSUME Turn PROVE IInv' /\ WatchStep
  BY <1>9, TurnInv
<1>10. ASSUME NEW e \in Timers \cup Ios, RunEvent(e) PROVE IInv' /\ WatchStep
  BY <1>10, RunEventInv
<1>11. ASSUME NEW v \in Bevs, RunFinalizer(v) PROVE IInv' /\ WatchStep
  BY <1>11, RunFinalizerInv
<1>12. ASSUME NEW s \in Sigs, RunSignal(s) PROVE IInv' /\ WatchStep
  BY <1>12, RunSignalInv
<1>13. ASSUME NEW d \in Deferreds, RunDeferred(d) PROVE IInv' /\ WatchStep
  BY <1>13, RunDeferredInv
<1>14. ASSUME NEW x \in Exits, RunExit(x) PROVE IInv' /\ WatchStep
  BY <1>14, RunExitInv
<1>15. ASSUME RunPipe PROVE IInv' /\ WatchStep
  BY <1>15, RunPipeInv
<1>16. ASSUME DispatchReturn \/ TurnEnds \/ Dispatch \/ \E e \in Ios : Happens(e)
       PROVE  IInv' /\ WatchStep
  BY <1>16, StillInv
<1>17. ASSUME NEW n \in Signals, Caught(n) PROVE IInv' /\ WatchStep
  BY <1>17, CaughtInv
<1>18. ASSUME Tick PROVE IInv' /\ WatchStep
  BY <1>18, TickInv
<1>19. ASSUME UNCHANGED vars PROVE IInv' /\ WatchStep
  <2>1. IInv'
    <3>1. QueueInv(base') /\ KindInv(base') /\ CauseInv(base', ready')
      BY <1>19 DEF vars, IInv
    <3>2. LoopInv' /\ FreedInv'
      BY <1>19 DEF vars, IInv, LoopInv, FreedInv
    <3>3. SigInv'
      BY <1>19 DEF vars, IInv, SigInv, Waiting
    <3>4. BevInv'
      BY <1>19, BevKept DEF vars, IInv
    <3> QED
      BY <3>1, <3>2, <3>3, <3>4 DEF IInv
  <2>2. WatchStep
    BY <1>19 DEF vars, WatchStep
  <2> QED
    BY <2>1, <2>2
<1> QED
  BY <1>1, <1>2, <1>3, <1>4, <1>5, <1>6, <1>7, <1>8, <1>9, <1>10, <1>11, <1>12, <1>13, <1>14, <1>15,
     <1>16, <1>17, <1>18, <1>19 DEF Next, User, Run, Loop, World

-----------------------------------------------------------------------------
(* Theorems *)

\* The inductive invariant: whatever the program, the timeouts and the order of events.
THEOREM Invariant == Spec => []IInv
<1>1. Init => IInv
  BY InitInv
<1>2. IInv /\ [Next]_vars => IInv'
  BY NextInv
<1> QED
  BY <1>1, <1>2, PTL DEF Spec

\* The queues, the flags and the counters of the base agree, and event_base_free
\* leaves nothing behind, whatever the program, the timeouts and the order of events.
THEOREM BaseCorrect == Spec => []BaseOk
<1>1. IInv => BaseOk
  <2> SUFFICES ASSUME IInv PROVE BaseOk
    OBVIOUS
  <2>1. /\ QueueInv(base) /\ base \in Base
        /\ base.active \in Seq(Ev) /\ base.later \in Seq(Ev)
        /\ IsInjective(base.active) /\ IsInjective(base.later)
        /\ \A e \in Ev : /\ "ACTIVE" \in base.flags[e] <=> Contains(base.active, e)
                         /\ "ACTIVE_LATER" \in base.flags[e] <=> Contains(base.later, e)
                         /\ ~("ACTIVE" \in base.flags[e] /\ "ACTIVE_LATER" \in base.flags[e])
        /\ base.flags \in [Ev -> SUBSET Flags]
    BY QueueTypes DEF IInv
  <2>2. /\ base.nactive = Len(base.active) + Len(base.later)
        /\ base.count = Cardinality(Marks(base.flags))
    BY <2>1 DEF QueueInv
  <2>3. IsInjective(base.active \o base.later)
    <3>1. ASSUME NEW u, Contains(base.active, u), Contains(base.later, u) PROVE FALSE
      <4>1. u \in Ev
        BY <2>1, <3>1, LenProperties DEF Contains
      <4> QED
        BY <2>1, <3>1, <4>1
    <3> QED
      BY <2>1, <3>1, JoinedQueues
  <2>4. \A e \in Ev :
          /\ "ACTIVE" \in base.flags[e] <=> \E i \in DOMAIN base.active : base.active[i] = e
          /\ "ACTIVE_LATER" \in base.flags[e] <=> \E i \in DOMAIN base.later : base.later[i] = e
    BY <2>1 DEF Contains
  <2>5. base.count \in Nat /\ base.nactive \in Nat
    <3>1. base.count \in Nat
      BY <2>1, <2>2, MarksFinite
    <3>2. Len(base.active) \in Nat /\ Len(base.later) \in Nat
      BY <2>1, LenProperties
    <3>3. \A x, y \in Nat : x + y \in Nat
      OBVIOUS
    <3>4. base.nactive \in Nat
      BY <2>2, <3>2, <3>3, Zenon
    <3> QED
      BY <3>1, <3>4
  <2>6. TypeOK
    <3>1. /\ base.res \in [Ev -> SUBSET {"IO", "TIMEOUT", "SIGNAL"}]
          /\ base.due \in [Ev -> Int] /\ base.again \in [Ev -> Nat] /\ base.ncalls \in [Ev -> Nat]
          /\ base.deferreds \in Nat /\ base.term \in BOOLEAN
      BY <2>1 DEF Base
    <3>2. LoopInv /\ SigInv /\ BevInv
      BY DEF IInv
    <3> QED
      BY <2>1, <2>5, <3>1, <3>2 DEF TypeOK, LoopInv, SigInv, BevInv
  <2>7. ASSUME phase = "freed"
        PROVE  /\ base.active = <<>> /\ base.later = <<>> /\ base.count = 0
               /\ \A e \in Ev : base.flags[e] \subseteq {"FINALIZING"}
               /\ \A v \in Bevs : bev[v] \in {"alive", "gone"}
    <3>1. /\ base.active = <<>> /\ base.later = <<>>
          /\ \A e \in Ev : base.flags[e] \subseteq {"FINALIZING"}
          /\ \A v \in Bevs : bev[v] \in {"alive", "gone"}
      BY <2>7 DEF IInv, FreedInv
    <3>2. Marks(base.flags) = {}
      BY <3>1 DEF Marks
    <3>3. base.count = 0
      BY <2>2, <3>2, FS_EmptySet
    <3> QED
      BY <3>1, <3>3
  <2>8. base.count = Cardinality({p \in (Ev \ {Pipe}) \X (Flags \ {"FINALIZING"}) : p[2] \in base.flags[p[1]]})
    BY <2>2 DEF Marks
  <2> QED
    BY <2>2, <2>3, <2>4, <2>6, <2>7, <2>8 DEF BaseOk
<1> QED
  BY <1>1, Invariant, PTL

\* No caught signal is lost, and none is called for twice.
THEOREM SignalsCorrect == Spec => []SignalsCounted
<1>1. IInv => SignalsCounted
  BY DEF IInv, SigInv, SignalsCounted
<1> QED
  BY <1>1, Invariant, PTL

\* A bufferevent that was freed is told of nothing any more; exactly one of its two
\* events carries the finalizer.
THEOREM FreedCorrect == Spec => []FreedBevQuiet
<1>1. IInv => FreedBevQuiet
  <2> SUFFICES ASSUME IInv, NEW v \in Bevs
               PROVE  /\ bev[v] \in {"finalizing", "gone"} =>
                             /\ running \notin {v.read, v.write}
                             /\ \A e \in {v.read, v.write} :
                                  base.flags[e] \cap {"INSERTED", "TIMEOUT", "ACTIVE_LATER"} = {}
                      /\ bev[v] = "finalizing" =>
                             Cardinality({e \in {v.read, v.write} : "ACTIVE" \in base.flags[e]}) = 1
                      /\ bev[v] = "gone" => \A e \in {v.read, v.write} : "ACTIVE" \notin base.flags[e]
    BY DEF FreedBevQuiet
  <2>1. BevOf(v) /\ Both(v) = {v.read, v.write}
    BY DEF IInv, BevInv, Both
  <2>2. ASSUME bev[v] = "finalizing"
        PROVE  Cardinality({e \in Both(v) : "ACTIVE" \in base.flags[e]}) = 1
    <3>1. PICK e \in Both(v) : /\ base.flags[e] = {"ACTIVE", "FINALIZING"}
                               /\ \A f \in Both(v) \ {e} : base.flags[f] = {}
      BY <2>1, <2>2 DEF BevOf
    <3>2. {f \in Both(v) : "ACTIVE" \in base.flags[f]} = {e}
      BY <3>1
    <3> QED
      BY <3>2, FS_Singleton
  <2>3. ASSUME bev[v] \in {"finalizing", "gone"}
        PROVE  /\ running \notin Both(v)
               /\ \A e \in Both(v) : base.flags[e] \cap {"INSERTED", "TIMEOUT", "ACTIVE_LATER"} = {}
    BY <2>1, <2>3 DEF BevOf
  <2>4. ASSUME bev[v] = "gone" PROVE \A e \in Both(v) : "ACTIVE" \notin base.flags[e]
    BY <2>1, <2>4 DEF BevOf
  <2> QED
    BY <2>1, <2>2, <2>3, <2>4
<1> QED
  BY <1>1, Invariant, PTL

\* A callback that is told its descriptor is ready, or its timeout elapsed, is told
\* the truth, whatever happened between the activation and the call.
THEOREM CauseCorrect == Spec => CauseTrue
<1> DEFINE Told == \A e \in Timers \cup Ios :
                      running' = e /\ running # e =>
                          /\ "IO" \in base.res[e] => e \in ready
                          /\ "TIMEOUT" \in base.res[e] => base.due[e] <= 0
<1>1. ASSUME IInv, [Next]_vars PROVE Told
  <2> SUFFICES ASSUME NEW e \in Timers \cup Ios, running' = e, running # e
               PROVE  /\ "IO" \in base.res[e] => e \in ready
                      /\ "TIMEOUT" \in base.res[e] => base.due[e] <= 0
    OBVIOUS
  <2>1. e \notin Sigs \cup Deferreds /\ e # Nobody
    BY Kinds
  <2>2. RunEvent(e)
    BY <1>1, <2>1 DEF vars, Next, User, Run, Loop, World, UserAdd, UserDel, RegSignal, UserSchedule,
       UserCancel, StopDispatch, BevFree, Dispatch, FreeEventBase, CbReturn, DispatchReturn, Turn,
       RunEvent, RunFinalizer, RunSignal, RunDeferred, RunExit, RunPipe, TurnEnds, Happens, Caught, Tick
  <2>3. Processing(e) /\ ~Finalizing(base, e)
    BY <2>2 DEF RunEvent
  <2>4. "ACTIVE" \in base.flags[e]
    BY <1>1, <2>3, Heads
  <2>5. CauseOf(base, ready, e)
    BY <1>1 DEF IInv, CauseInv
  <2> QED
    BY <2>3, <2>4, <2>5 DEF CauseOf, Finalizing
<1> QED
  BY <1>1, Invariant, PTL DEF Spec, CauseTrue

\* Only an event that is added again while the callback of its elapsed timeout
\* waits can have a timeout without being watched.
THEOREM WatchedCorrect == Spec => Watched
<1>1. IInv /\ [Next]_vars => WatchStep
  BY NextInv
<1> QED
  BY <1>1, Invariant, PTL DEF Spec, Watched, WatchStep
=============================================================================
