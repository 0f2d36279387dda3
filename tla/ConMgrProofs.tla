---------------------------- MODULE ConMgrProofs ----------------------------
(***************************************************************************)
(* Proofs about ConMgr, for any set of connections and any bound on the    *)
(* stack.  TypeOK holds as it is.  The safety properties hold for programs *)
(* whose derived destructors leave the manager alone; the runs show what   *)
(* happens when they do not.                                               *)
(***************************************************************************)
EXTENDS ConMgr, DataLemmas

-----------------------------------------------------------------------------
(* Types. *)

\* A delete loop is the first frame of the stack, and the range-for of a sweep
\* stays inside the vector: TypeOK needs both, for m_vwdc[at].
LoopFn == {"Sweep", "MgrDtor"}
LoopFirst == \A i \in 1..Len(stack) : stack[i].fn \in LoopFn => i = 1
RangeInv ==
    /\ LoopFirst
    /\ end <= Len(vwdc)
    /\ ~Sweeping => end = 0

LEMMA FrameTypes ==
    /\ \A fn \in UserFn \cup LibFn, c \in Con \cup {NoCon} :
         Fr(fn, c) \in Frame /\ Fr(fn, c).fn = fn /\ Fr(fn, c).con = c /\ Fr(fn, c).rest = {}
    /\ \A fn \in UserFn \cup LibFn, set \in SUBSET Con :
         FrLoop(fn, set) \in Frame /\ FrLoop(fn, set).fn = fn /\ FrLoop(fn, set).con = NoCon
         /\ FrLoop(fn, set).rest = set
  BY DEF Frame, Fr, FrLoop

LEMMA PushTypes ==
    ASSUME stack \in Seq(Frame), LoopFirst, NEW f \in Frame, Push(f),
           f.fn \in LoopFn => Idle
    PROVE  /\ stack' \in Seq(Frame)
           /\ LoopFirst'
           /\ f.fn # "Sweep" => (Sweeping' <=> Sweeping)
           /\ f.fn = "Sweep" => Sweeping'
<1>1. /\ stack' \in Seq(Frame) /\ Len(stack') = Len(stack) + 1 /\ stack' # <<>>
      /\ \A i \in 1..Len(stack) : stack'[i] = stack[i]
      /\ stack'[Len(stack) + 1] = f
  BY AppendFacts DEF Push
<1>2. Len(stack) \in Nat /\ (stack = <<>> <=> Len(stack) = 0)
  BY LenProperties, EmptySeq
<1> QED
  BY <1>1, <1>2 DEF LoopFirst, LoopFn, Sweeping, Idle

LEMMA PopTypes ==
    ASSUME stack \in Seq(Frame), LoopFirst, stack # <<>>, Pop
    PROVE  /\ stack' \in Seq(Frame)
           /\ LoopFirst'
           /\ Top.fn # "Sweep" => (Sweeping' <=> Sweeping)
           /\ Top.fn = "Sweep" => ~Sweeping' /\ Sweeping
           /\ Top \in Frame
<1>1. /\ stack' \in Seq(Frame) /\ Len(stack') = Len(stack) - 1
      /\ \A i \in 1..(Len(stack) - 1) : stack'[i] = stack[i]
      /\ Len(stack) \in Nat /\ Len(stack) > 0
      /\ stack' = <<>> <=> Len(stack) = 1
  BY FrontFacts DEF Pop, Below
<1>2. Top \in Frame
  BY <1>1, LenProperties DEF Top
<1> QED
  BY <1>1, <1>2 DEF LoopFirst, LoopFn, Sweeping, Top

\* The running loop takes an element of its set and calls back.
LEMMA PushAfterPick ==
    ASSUME stack \in Seq(Frame), stack # <<>>, NEW c, NEW f \in Frame,
           stack' = Append([stack EXCEPT ![Len(stack)].rest = @ \ {c}], f)
    PROVE  /\ stack' \in Seq(Frame) /\ Len(stack') = Len(stack) + 1 /\ stack' # <<>>
           /\ \A i \in 1..(Len(stack) - 1) : stack'[i] = stack[i]
           /\ stack'[Len(stack)] = [Top EXCEPT !.rest = @ \ {c}]
           /\ stack'[Len(stack) + 1] = f
           /\ \A i \in 1..Len(stack) : stack'[i].fn = stack[i].fn /\ stack'[i].con = stack[i].con
           /\ Top \in Frame
<1> DEFINE g == [Top EXCEPT !.rest = @ \ {c}]
           s == [stack EXCEPT ![Len(stack)] = g]
<1>1. Len(stack) \in Nat /\ Len(stack) > 0 /\ Len(stack) \in 1..Len(stack)
  BY FrontFacts
<1>2. Top \in Frame
  BY <1>1, LenProperties DEF Top
<1>3. g \in Frame /\ g.fn = Top.fn /\ g.con = Top.con
  BY <1>2 DEF Frame
<1> HIDE DEF g
<1>4. /\ s \in Seq(Frame) /\ Len(s) = Len(stack)
      /\ \A i \in 1..Len(stack) : s[i] = IF i = Len(stack) THEN g ELSE stack[i]
  BY <1>1, <1>3, ExceptSeq
<1>5. stack' = Append(s, f)
  BY DEF g, Top
<1> HIDE DEF s
<1>6. /\ stack' \in Seq(Frame) /\ Len(stack') = Len(s) + 1 /\ stack' # <<>>
      /\ \A i \in 1..Len(s) : stack'[i] = s[i]
      /\ stack'[Len(s) + 1] = f
  <2>1. /\ Append(s, f) \in Seq(Frame) /\ Len(Append(s, f)) = Len(s) + 1
        /\ \A i \in 1..Len(s) : Append(s, f)[i] = s[i]
        /\ Append(s, f)[Len(s) + 1] = f /\ Append(s, f) # <<>>
    BY <1>4, AppendFacts
  <2> QED
    BY <2>1, <1>5
<1>7. \A i \in 1..Len(stack) : stack'[i] = IF i = Len(stack) THEN g ELSE stack[i]
  BY <1>4, <1>6
<1>8. \A i \in 1..(Len(stack) - 1) : i \in 1..Len(stack) /\ i # Len(stack)
  BY <1>1
<1> QED
  BY <1>1, <1>2, <1>3, <1>4, <1>6, <1>7, <1>8 DEF g, Top

LEMMA PickTypes ==
    ASSUME stack \in Seq(Frame), LoopFirst, stack # <<>>, NEW c, NEW f \in Frame,
           f.fn \notin LoopFn,
           stack' = Append([stack EXCEPT ![Len(stack)].rest = @ \ {c}], f)
    PROVE  stack' \in Seq(Frame) /\ LoopFirst' /\ (Sweeping' <=> Sweeping)
<1>1. /\ stack' \in Seq(Frame) /\ Len(stack') = Len(stack) + 1 /\ stack' # <<>>
      /\ stack'[Len(stack) + 1] = f
      /\ \A i \in 1..Len(stack) : stack'[i].fn = stack[i].fn
  BY PushAfterPick
<1>2. Len(stack) \in Nat /\ Len(stack) > 0
  BY FrontFacts
<1> QED
  BY <1>1, <1>2 DEF LoopFirst, Sweeping

LEMMA LoopIsFirst ==
    ASSUME stack \in Seq(Frame), LoopFirst, stack # <<>>, Top.fn \in LoopFn
    PROVE  Len(stack) = 1 /\ stack[1] = Top
  BY FrontFacts DEF LoopFirst, Top

LEMMA PostTypes ==
    ASSUME TypeOK, NEW c, PostDelConn(c)
    PROVE  /\ all' \in SUBSET Con /\ vwdc' \in Seq(Con)
           /\ cap' \in Nat /\ Len(vwdc') <= cap' /\ Len(vwdc) <= Len(vwdc')
           /\ iter' \in {"valid", "stale"} /\ heap' \in {"sound", "corrupt"}
<1>1. /\ all \in SUBSET Con /\ vwdc \in Seq(Con) /\ Len(vwdc) \in Nat
      /\ cap \in Nat /\ Len(vwdc) <= cap /\ iter \in {"valid", "stale"} /\ heap \in {"sound", "corrupt"}
  BY LenProperties DEF TypeOK
<1>2. CASE mgr # "dead" /\ c \in all
  <2>1. /\ all' = all \ {c} /\ vwdc' = Append(vwdc, c) /\ heap' = heap
        /\ cap' = IF Len(vwdc) < cap THEN cap ELSE IF cap = 0 THEN 1 ELSE 2 * cap
        /\ iter'  = IF Deleting /\ (mgr = "dying" \/ Len(vwdc) >= cap) THEN "stale" ELSE iter
    BY <1>2 DEF PostDelConn
  <2>2. vwdc' \in Seq(Con) /\ Len(vwdc') = Len(vwdc) + 1
    BY <1>1, <1>2, <2>1, AppendFacts
  <2>3. cap' \in Nat /\ Len(vwdc') <= cap'
    BY <1>1, <2>1, <2>2
  <2>4. iter' \in {"valid", "stale"}
    BY <1>1, <2>1 DEF Deleting
  <2> QED
    BY <1>1, <2>1, <2>2, <2>3, <2>4
<1>3. CASE ~(mgr # "dead" /\ c \in all)
  <2>1. UNCHANGED <<all, vwdc, cap, iter>> /\ (heap' = heap \/ heap' = "corrupt")
    BY <1>3 DEF PostDelConn
  <2>2. all' = all /\ vwdc' = vwdc /\ cap' = cap /\ iter' = iter
    BY <2>1
  <2> QED
    BY <1>1, <2>1, <2>2
<1> QED
  BY <1>2, <1>3

LEMMA DisConnectTypes ==
    ASSUME TypeOK, NEW c, ConComDisConnect(c) \/ SvrConDisConnect(c)
    PROVE  /\ all' \in SUBSET Con /\ vwdc' \in Seq(Con) /\ open' \in SUBSET Con
           /\ cap' \in Nat /\ Len(vwdc') <= cap' /\ Len(vwdc) <= Len(vwdc')
           /\ iter' \in {"valid", "stale"} /\ heap' \in {"sound", "corrupt"}
<1>1. CASE PostDelConn(c) /\ open' = open \ {c}
  BY <1>1, PostTypes DEF TypeOK
<1>2. CASE UNCHANGED <<all, open, vwdc, cap, iter, heap>>
  BY <1>2, LenProperties DEF TypeOK
<1> QED
  BY <1>1, <1>2 DEF ConComDisConnect, SvrConDisConnect

LEMMA LiveShrinks == zero' = zero /\ open' \in SUBSET open => Live' \in SUBSET Live
  BY DEF Live, OnZero

\* What a bufferevent on descriptor 0 is doing changes; it stays what it is.
LEMMA LiveStays ==
    ASSUME open' = open, zero \in [Con -> {"no", "reads", "told", "shut"}],
           NEW c, NEW from \in {"reads", "told"}, NEW to \in {"reads", "told", "shut"},
           zero' = [zero EXCEPT ![c] = IF @ = from THEN to ELSE @]
    PROVE  Live' \in SUBSET Live /\ zero' \in [Con -> {"no", "reads", "told", "shut"}]
  BY DEF Live, OnZero

LEMMA TypesInit == Init => TypeOK /\ RangeInv
<1> SUFFICES ASSUME Init PROVE TypeOK /\ RangeInv
  OBVIOUS
<1>1. vwdc \in Seq(Con) /\ Len(vwdc) = 0 /\ stack \in Seq(Frame) /\ Len(stack) = 0
  BY EmptySeq DEF Init
<1> QED
  BY <1>1 DEF Init, TypeOK, RangeInv, LoopFirst, Sweeping

LEMMA TypesNext == TypeOK /\ RangeInv /\ [Next]_vars => TypeOK' /\ RangeInv'
<1> SUFFICES ASSUME TypeOK, RangeInv, [Next]_vars PROVE TypeOK' /\ RangeInv'
  OBVIOUS
<1>0. /\ stack \in Seq(Frame) /\ LoopFirst /\ vwdc \in Seq(Con)
      /\ Len(vwdc) \in Nat /\ Len(stack) \in Nat
      /\ stack # <<>> => Top \in Frame
  BY LenProperties, FrontFacts DEF TypeOK, RangeInv, Top
<1> prog' \in Programs
  BY DEF TypeOK, Next, Step, vars
<1> USE DEF TypeOK, RangeInv
<1>1. ASSUME NEW c \in Con, Accept(c) PROVE TypeOK' /\ RangeInv'
  <2>1. Fr("OnConnected", c) \in Frame /\ Fr("OnConnected", c).fn = "OnConnected"
    BY FrameTypes DEF UserFn, LibFn
  <2>2. stack' \in Seq(Frame) /\ LoopFirst' /\ (Sweeping' <=> Sweeping)
    BY <1>1, <1>0, <2>1, PushTypes DEF LoopFn, Accept, AcceptInit, LoopFirst, Sweeping
  <2> QED
    BY <1>1, <2>2 DEF Accept, AcceptInit, CreateConnectForListener
<1>2. ASSUME NEW c \in Con, ReadCb(c) \/ EventCb(c) PROVE TypeOK' /\ RangeInv'
  <2>1. \A fn \in {"ReadCb", "OnError"} : Fr(fn, c) \in Frame /\ Fr(fn, c).fn = fn
    BY FrameTypes DEF UserFn, LibFn
  <2>2. stack' \in Seq(Frame) /\ LoopFirst' /\ (Sweeping' <=> Sweeping)
    BY <1>2, <1>0, <2>1, PushTypes DEF LoopFn, ReadCb, EventCb
  <2> QED
    BY <1>2, <2>2, LiveStays DEF ReadCb, EventCb
<1>3. CASE UserTimer
  <2>1. Fr("UserTimer", NoCon) \in Frame /\ Fr("UserTimer", NoCon).fn = "UserTimer"
    BY FrameTypes DEF UserFn, LibFn
  <2>2. stack' \in Seq(Frame) /\ LoopFirst' /\ (Sweeping' <=> Sweeping)
    BY <1>3, <1>0, <2>1, PushTypes DEF LoopFn, UserTimer
  <2> QED
    BY <1>3, <2>2 DEF UserTimer
<1>4. CASE OnTimerDelConn
  <2>1. FrLoop("Sweep", {}) \in Frame /\ FrLoop("Sweep", {}).fn = "Sweep"
    BY FrameTypes DEF UserFn, LibFn
  <2>2. stack' \in Seq(Frame) /\ LoopFirst' /\ Sweeping'
    BY <1>4, <1>0, <2>1, PushTypes DEF LoopFn, OnTimerDelConn
  <2> QED
    BY <1>4, <1>0, <2>2 DEF OnTimerDelConn
<1>5. CASE MgrDestroy
  <2>1. FrLoop("MgrDtor", all) \in Frame /\ FrLoop("MgrDtor", all).fn = "MgrDtor"
    BY FrameTypes DEF UserFn, LibFn
  <2>2. stack' \in Seq(Frame) /\ LoopFirst' /\ (Sweeping' <=> Sweeping)
    BY <1>5, <1>0, <2>1, PushTypes DEF LoopFn, MgrDestroy
  <2> QED
    BY <1>5, <1>0, <2>2 DEF MgrDestroy
<1>6. CASE DeliverMsg
  <2>1. Fr("OnRecv", Top.con) \in Frame /\ Fr("OnRecv", Top.con).fn = "OnRecv"
    BY <1>6, FrameTypes DEF UserFn, LibFn, DeliverMsg, Reading
  <2>2. stack' \in Seq(Frame) /\ LoopFirst' /\ (Sweeping' <=> Sweeping)
    BY <1>6, <1>0, <2>1, PushTypes DEF LoopFn, DeliverMsg
  <2> QED
    BY <1>6, <2>2, LiveStays DEF DeliverMsg
<1>7. CASE BadLength \/ ErrorReturn
  <2>1. stack # <<>> /\ Pop /\ Top.fn # "Sweep" /\ ConComDisConnect(Top.con)
    BY <1>7 DEF BadLength, ErrorReturn, Running
  <2>2. stack' \in Seq(Frame) /\ LoopFirst' /\ (Sweeping' <=> Sweeping)
    BY <2>1, <1>0, PopTypes
  <2>3. /\ all' \in SUBSET Con /\ vwdc' \in Seq(Con) /\ open' \in SUBSET Con
        /\ cap' \in Nat /\ Len(vwdc') <= cap' /\ Len(vwdc) <= Len(vwdc')
        /\ iter' \in {"valid", "stale"} /\ heap' \in {"sound", "corrupt"}
    BY <2>1, DisConnectTypes
  <2>4. Len(vwdc') \in Nat
    BY <2>3, LenProperties
  <2> QED
    BY <1>7, <1>0, <2>2, <2>3, <2>4 DEF BadLength, ErrorReturn
<1>8. CASE ReadReturn \/ ForeachEnd \/ UserReturn
  <2>1. stack # <<>> /\ Pop /\ Top.fn # "Sweep"
    BY <1>8 DEF ReadReturn, ForeachEnd, UserReturn, Running, InUserCode, UserFn
  <2>2. stack' \in Seq(Frame) /\ LoopFirst' /\ (Sweeping' <=> Sweeping)
    BY <2>1, <1>0, PopTypes
  <2> QED
    BY <1>8, <2>2, LiveStays DEF ReadReturn, ForeachEnd, UserReturn
<1>9. CASE ForeachNext
  <2>1. stack # <<>> /\ Top.fn = "Foreach" /\ Top \in Frame
    BY <1>9, <1>0 DEF ForeachNext, Running
  <2>2. PICK c \in Top.rest :
          stack' = Append([stack EXCEPT ![Len(stack)].rest = @ \ {c}], Fr("ForeachCb", c))
    BY <1>9 DEF ForeachNext
  <2>3. Fr("ForeachCb", c) \in Frame /\ Fr("ForeachCb", c).fn = "ForeachCb"
    BY <2>1, <2>2, FrameTypes DEF UserFn, LibFn, Frame
  <2>4. stack' \in Seq(Frame) /\ LoopFirst' /\ (Sweeping' <=> Sweeping)
    BY <1>0, <2>1, <2>2, <2>3, PickTypes DEF LoopFn
  <2> QED
    BY <1>9, <2>4 DEF ForeachNext
<1>10. CASE SweepNext
  <2>1. Len(stack) = 1 /\ Sweeping
    BY <1>10, <1>0, LoopIsFirst DEF SweepNext, Running, LoopFn, Sweeping
  <2>0. vwdc[at] \in Con
    BY <1>10, <1>0, LenProperties DEF SweepNext
  <2>2. Fr("Dtor", vwdc[at]) \in Frame /\ Fr("Dtor", vwdc[at]).fn = "Dtor"
    BY <2>0, FrameTypes DEF UserFn, LibFn
  <2>3. stack' \in Seq(Frame) /\ LoopFirst' /\ (Sweeping' <=> Sweeping)
    BY <1>10, <1>0, <2>2, PushTypes DEF SweepNext, LoopFn
  <2> QED
    BY <1>10, <2>3 DEF SweepNext
<1>11. CASE SweepStale \/ MgrDtorStale
  BY <1>11 DEF SweepStale, MgrDtorStale, LoopFirst, Sweeping
<1>12. CASE SweepEnd
  <2>1. stack # <<>> /\ Pop /\ Top.fn = "Sweep"
    BY <1>12 DEF SweepEnd, Running
  <2>2. stack' \in Seq(Frame) /\ LoopFirst' /\ ~Sweeping'
    BY <2>1, <1>0, PopTypes
  <2>3. vwdc' \in Seq(Con) /\ Len(vwdc') = 0
    BY <1>12, EmptySeq DEF SweepEnd
  <2> QED
    BY <1>12, <2>2, <2>3 DEF SweepEnd
<1>13. CASE MgrDtorNext
  <2>1. stack # <<>> /\ Top.fn = "MgrDtor" /\ Top \in Frame
    BY <1>13, <1>0 DEF MgrDtorNext, Running
  <2>2. PICK c \in Top.rest :
          /\ obj' = [obj EXCEPT ![c] = "dying"]
          /\ stack' = Append([stack EXCEPT ![Len(stack)].rest = @ \ {c}], Fr("Dtor", c))
    BY <1>13 DEF MgrDtorNext
  <2>3. Fr("Dtor", c) \in Frame /\ Fr("Dtor", c).fn = "Dtor"
    BY <2>1, <2>2, FrameTypes DEF UserFn, LibFn, Frame
  <2>4. stack' \in Seq(Frame) /\ LoopFirst' /\ (Sweeping' <=> Sweeping)
    BY <1>0, <2>1, <2>2, <2>3, PickTypes DEF LoopFn
  <2> QED
    BY <1>13, <2>2, <2>4 DEF MgrDtorNext
<1>14. CASE MgrDtorEnd
  <2>1. stack # <<>> /\ Pop /\ Top.fn = "MgrDtor"
    BY <1>14 DEF MgrDtorEnd, Running
  <2>2. ~Sweeping
    BY <2>1, <1>0, LoopIsFirst DEF LoopFn, Sweeping
  <2>3. stack' \in Seq(Frame) /\ LoopFirst' /\ ~Sweeping'
    BY <2>1, <2>2, <1>0, PopTypes
  <2>4. vwdc' \in Seq(Con) /\ Len(vwdc') = 0
    BY <1>14, EmptySeq DEF MgrDtorEnd
  <2> QED
    BY <1>14, <1>0, <2>2, <2>3, <2>4 DEF MgrDtorEnd
<1>15. ASSUME NEW c \in Con, UserPostDelConn(c) PROVE TypeOK' /\ RangeInv'
  <2>1. /\ all' \in SUBSET Con /\ vwdc' \in Seq(Con)
        /\ cap' \in Nat /\ Len(vwdc') <= cap' /\ Len(vwdc) <= Len(vwdc')
        /\ iter' \in {"valid", "stale"} /\ heap' \in {"sound", "corrupt"}
    BY <1>15, PostTypes DEF UserPostDelConn
  <2>2. Len(vwdc') \in Nat
    BY <2>1, LenProperties
  <2> QED
    BY <1>15, <1>0, <2>1, <2>2 DEF UserPostDelConn, LoopFirst, Sweeping
<1>16. ASSUME NEW c \in Con, UserDisConnect(c) \/ UserSendOverflow(c)
       PROVE  TypeOK' /\ RangeInv'
  <2>1. /\ all' \in SUBSET Con /\ vwdc' \in Seq(Con) /\ open' \in SUBSET Con
        /\ cap' \in Nat /\ Len(vwdc') <= cap' /\ Len(vwdc) <= Len(vwdc')
        /\ iter' \in {"valid", "stale"} /\ heap' \in {"sound", "corrupt"}
    BY <1>16, DisConnectTypes DEF UserDisConnect, UserSendOverflow
  <2>2. Len(vwdc') \in Nat
    BY <2>1, LenProperties
  <2> QED
    BY <1>16, <1>0, <2>1, <2>2 DEF UserDisConnect, UserSendOverflow, LoopFirst, Sweeping
<1>17. CASE UserForeach
  <2>1. FrLoop("Foreach", all) \in Frame /\ FrLoop("Foreach", all).fn = "Foreach"
    BY FrameTypes DEF UserFn, LibFn
  <2>2. stack' \in Seq(Frame) /\ LoopFirst' /\ (Sweeping' <=> Sweeping)
    BY <1>17, <1>0, <2>1, PushTypes DEF LoopFn, UserForeach
  <2> QED
    BY <1>17, <2>2 DEF UserForeach
<1>18. CASE DtorReturn
  <2>1. stack # <<>> /\ Pop /\ Top.fn = "Dtor"
    BY <1>18 DEF DtorReturn, Running
  <2>2. stack' \in Seq(Frame) /\ LoopFirst' /\ (Sweeping' <=> Sweeping)
    BY <2>1, <1>0, PopTypes
  <2>3. obj' \in [Con -> {"unborn", "alive", "dying", "freed"}]
    BY <1>18 DEF DtorReturn
  <2>4. at' \in Nat \ {0}
    BY <1>18 DEF DtorReturn
  <2> QED
    BY <1>18, <2>2, <2>3, <2>4 DEF DtorReturn
<1>19. CASE UNCHANGED vars
  BY <1>19 DEF vars, LoopFirst, Sweeping
<1> QED
  BY <1>1, <1>2, <1>3, <1>4, <1>5, <1>6, <1>7, <1>8, <1>9, <1>10, <1>11, <1>12,
     <1>13, <1>14, <1>15, <1>16, <1>17, <1>18, <1>19 DEF Next, Step, Event, Library, User

\* Every reachable state has the types ConMgr declares, in particular the
\* vector never outgrows its capacity and a sweep never reads past its end.
THEOREM TypeCorrect == Spec => []TypeOK
<1>1. Spec => [](TypeOK /\ RangeInv)
  BY TypesInit, TypesNext, PTL DEF Spec
<1> QED
  BY <1>1, PTL

-----------------------------------------------------------------------------
(* The inductive invariant. *)

\* What the stack can look like: a delete loop is at its bottom, with at most
\* the one destructor it runs above it.
StackInv ==
    /\ \A i \in 1..Len(stack) : stack[i].fn \in {"Sweep", "MgrDtor"} => i = 1
    /\ \A i \in 1..Len(stack) : stack[i].fn = "Dtor" => Deleting
    /\ Deleting => /\ Len(stack) \in {1, 2} /\ stack[1].con = NoCon
                   /\ Len(stack) = 2 => stack[2].fn = "Dtor"
    /\ mgr = "dying" <=> (stack # <<>> /\ stack[1].fn = "MgrDtor")

\* The object whose destructor is running.
IsDying(c) == Deleting /\ Len(stack) = 2 /\ stack[2].con = c

\* The range-for of the running sweep covers the vector.
SweepInv ==
    /\ ~Sweeping => end = 0
    /\ Sweeping => /\ end = Len(vwdc) /\ at <= end + 1 /\ iter = "valid" /\ mgr = "alive"
                   /\ stack[1].rest = {}
                   /\ Len(stack) = 2 => at <= end /\ stack[2].con = vwdc[at]

\* Who owns which object, and the state that object is in.
OwnerInv ==
    /\ \A i, j \in Pending : vwdc[i] = vwdc[j] => i = j
    /\ \A i \in Pending : vwdc[i] \notin all
    /\ \A i \in Pending : IF IsDying(vwdc[i]) THEN obj[vwdc[i]] = "dying"
                                              ELSE obj[vwdc[i]] = "alive"
    /\ mgr = "alive" => \A c \in all : obj[c] = "alive"
    /\ mgr = "dead" => all = {}
    /\ \A c \in Con : obj[c] = "dying" <=> IsDying(c)
    /\ \A c \in Live : obj[c] \in {"alive", "dying"}
    /\ AllOwned

\* What the frames refer to.
FrameInv ==
    /\ ~Deleting => \A i \in 1..Len(stack) : stack[i].con \in Con => obj[stack[i].con] = "alive"
    /\ \A i \in 1..Len(stack) : \A c \in stack[i].rest : obj[c] = "alive"

Inv == StackInv /\ SweepInv /\ OwnerInv /\ FrameInv

LEMMA InvInit == Init => Inv
<1> SUFFICES ASSUME Init PROVE Inv
  OBVIOUS
<1>1. Len(vwdc) = 0 /\ Len(stack) = 0 /\ ~Deleting /\ ~Sweeping
  BY EmptySeq DEF Init, Deleting, Sweeping
<1>2. StackInv /\ SweepInv /\ FrameInv
  BY <1>1 DEF Init, StackInv, SweepInv, FrameInv
<1>3. OwnerInv
  BY <1>1 DEF Init, OwnerInv, IsDying, AllOwned, Pending, Live, OnZero
<1> QED
  BY <1>2, <1>3 DEF Inv

(* Steps that leave objects, map and vector alone and run outside the delete  *)
(* loops only push and pop frames.                                            *)

LEMMA QuietPush ==
    ASSUME TypeOK, Inv, ~Deleting, NEW f \in Frame, Push(f),
           f.fn \notin {"Sweep", "MgrDtor", "Dtor"},
           f.con \in Con => obj[f.con] = "alive",
           \A c \in f.rest : obj[c] = "alive", Live' \in SUBSET Live,
           UNCHANGED <<obj, all, vwdc, at, end, iter, mgr>>
    PROVE  Inv'
<1>0. stack \in Seq(Frame) /\ Len(stack) \in Nat /\ (stack = <<>> <=> Len(stack) = 0)
  BY LenProperties, EmptySeq DEF TypeOK
<1>1. /\ stack' \in Seq(Frame) /\ Len(stack') = Len(stack) + 1 /\ stack' # <<>>
      /\ \A i \in 1..Len(stack) : stack'[i] = stack[i]
      /\ stack'[Len(stack) + 1] = f
  BY <1>0, AppendFacts DEF Push
<1>2. ~Deleting' /\ ~Sweeping /\ ~Sweeping'
  BY <1>0, <1>1 DEF Deleting, Sweeping, Inv, StackInv
<1>3. StackInv'
  BY <1>0, <1>1, <1>2 DEF Inv, StackInv, Deleting
<1>4. SweepInv'
  BY <1>2 DEF Inv, SweepInv
<1>5. OwnerInv'
  BY <1>2 DEF Inv, OwnerInv, IsDying, AllOwned, Doomed, Pending
<1>6. FrameInv'
  BY <1>0, <1>1, <1>2 DEF Inv, FrameInv
<1> QED
  BY <1>3, <1>4, <1>5, <1>6 DEF Inv

LEMMA QuietPop ==
    ASSUME TypeOK, Inv, ~Deleting, stack # <<>>, Pop, obj' = obj, mgr' = mgr
    PROVE  ~Deleting' /\ StackInv' /\ FrameInv'
<1>0. stack \in Seq(Frame)
  BY DEF TypeOK
<1>1. /\ stack' \in Seq(Frame) /\ Len(stack') = Len(stack) - 1
      /\ \A i \in 1..(Len(stack) - 1) : stack'[i] = stack[i]
      /\ Len(stack) \in Nat /\ Len(stack) > 0
      /\ stack' = <<>> <=> Len(stack) = 1
  BY <1>0, FrontFacts DEF Pop, Below
<1>2. ~Deleting'
  BY <1>1 DEF Deleting
<1>3. StackInv'
  BY <1>1, <1>2 DEF Inv, StackInv, Deleting
<1>4. FrameInv'
  BY <1>1, <1>2 DEF Inv, FrameInv
<1> QED
  BY <1>2, <1>3, <1>4

LEMMA QuietOwner ==
    ASSUME TypeOK, Inv, ~Deleting, ~Deleting', Live' \in SUBSET Live,
           UNCHANGED <<obj, all, vwdc, at, end, iter, mgr>>
    PROVE  SweepInv' /\ OwnerInv'
<1>1. ~Sweeping /\ ~Sweeping'
  BY DEF Deleting, Sweeping
<1>2. SweepInv'
  BY <1>1 DEF Inv, SweepInv
<1>3. OwnerInv'
  BY <1>1 DEF Inv, OwnerInv, IsDying, AllOwned, Doomed, Pending
<1> QED
  BY <1>2, <1>3

(* PostDelConn outside the delete loops moves an object from the map to the   *)
(* vector.                                                                    *)
LEMMA QuietPost ==
    ASSUME TypeOK, Inv, ~Deleting, ~Deleting', NEW c, PostDelConn(c),
           Live' \in SUBSET Live, UNCHANGED <<obj, at, end, mgr>>
    PROVE  SweepInv' /\ OwnerInv'
<1>0. ~Sweeping /\ ~Sweeping'
  BY DEF Deleting, Sweeping
<1>1. CASE c \notin all \/ mgr = "dead"
  <2>1. UNCHANGED <<obj, all, vwdc, at, end, iter, mgr>>
    BY <1>1 DEF PostDelConn, Inv, OwnerInv
  <2> QED
    BY <2>1, QuietOwner
<1>2. CASE c \in all /\ mgr # "dead"
  <2>1. /\ all' = all \ {c} /\ vwdc' = Append(vwdc, c) /\ c \in Con
        /\ vwdc \in Seq(Con) /\ all \in SUBSET Con
    BY <1>2 DEF PostDelConn, TypeOK
  <2>2. /\ vwdc' \in Seq(Con) /\ Len(vwdc') = Len(vwdc) + 1 /\ Len(vwdc) \in Nat
        /\ \A i \in 1..Len(vwdc) : vwdc'[i] = vwdc[i]
        /\ vwdc'[Len(vwdc) + 1] = c
    BY <2>1, AppendFacts, LenProperties
  <2>3. mgr = "alive" /\ mgr' = "alive"
    BY <1>2 DEF Inv, StackInv, TypeOK, Deleting
  <2>4. Pending = 1..Len(vwdc) /\ Pending' = 1..Len(vwdc')
    BY <1>0, <2>3 DEF Pending
  <2>5. SweepInv'
    BY <1>0 DEF Inv, SweepInv
  <2>6. \A i \in 1..Len(vwdc') : i \in 1..Len(vwdc) \/ i = Len(vwdc) + 1
    BY <2>2
  <2>7. \A i, j \in Pending' : vwdc'[i] = vwdc'[j] => i = j
    BY <1>2, <2>2, <2>4, <2>6 DEF Inv, OwnerInv
  <2>8. \A i \in Pending' : vwdc'[i] \notin all'
    BY <2>1, <2>2, <2>4, <2>6 DEF Inv, OwnerInv
  <2>9. \A i \in Pending' : obj'[vwdc'[i]] = "alive"
    BY <1>2, <2>2, <2>3, <2>4, <2>6 DEF Inv, OwnerInv, IsDying
  <2>10. AllOwned'
    <3> SUFFICES ASSUME NEW d \in Con, obj[d] = "alive"
                 PROVE  d \in all' \/ \E i \in 1..Len(vwdc') : vwdc'[i] = d
      BY <2>4 DEF AllOwned, Doomed
    <3>1. d \in all \/ \E i \in 1..Len(vwdc) : vwdc[i] = d
      BY <2>3, <2>4 DEF Inv, OwnerInv, AllOwned, Doomed
    <3>2. CASE d = c
      BY <3>2, <2>2
    <3>3. CASE \E i \in 1..Len(vwdc) : vwdc[i] = d
      BY <3>3, <2>2
    <3> QED
      BY <3>1, <3>2, <3>3, <2>1
  <2>11. /\ mgr' = "alive" => \A d \in all' : obj'[d] = "alive"
         /\ mgr' = "dead" => all' = {}
         /\ \A d \in Con : obj'[d] = "dying" <=> IsDying(d)'
         /\ \A d \in Live' : obj'[d] \in {"alive", "dying"}
         /\ \A i \in Pending' : ~IsDying(vwdc[i])'
    BY <2>1, <2>3 DEF Inv, OwnerInv, IsDying
  <2> QED
    BY <2>5, <2>7, <2>8, <2>9, <2>10, <2>11 DEF OwnerInv, IsDying
<1> QED
  BY <1>1, <1>2

LEMMA QuietDisConnect ==
    ASSUME TypeOK, Inv, ~Deleting, ~Deleting', NEW c,
           ConComDisConnect(c) \/ SvrConDisConnect(c), UNCHANGED <<obj, zero, at, end, mgr>>
    PROVE  SweepInv' /\ OwnerInv'
<1>1. CASE PostDelConn(c) /\ open' = open \ {c}
  BY <1>1, LiveShrinks, QuietPost
<1>2. CASE UNCHANGED <<all, open, vwdc, cap, iter, heap>>
  BY <1>2, LiveShrinks, QuietOwner
<1> QED
  BY <1>1, <1>2 DEF ConComDisConnect, SvrConDisConnect

LEMMA SameState ==
    ASSUME Inv, UNCHANGED <<obj, all, vwdc, at, end, iter, stack, mgr>>, Live' \in SUBSET Live
    PROVE  Inv'
<1>1. Deleting' = Deleting /\ Sweeping' = Sweeping /\ Pending' = Pending
  BY DEF Deleting, Sweeping, Pending
<1>2. StackInv' /\ SweepInv' /\ FrameInv'
  BY <1>1 DEF Inv, StackInv, SweepInv, FrameInv
<1>3. OwnerInv'
  BY <1>1 DEF Inv, OwnerInv, IsDying, AllOwned, Doomed
<1> QED
  BY <1>2, <1>3 DEF Inv

\* Above a delete loop only a derived destructor runs.
LEMMA TopOfDeleting ==
    ASSUME TypeOK, Inv, stack # <<>>, Top.fn \notin {"Sweep", "MgrDtor", "Dtor"}
    PROVE  ~Deleting
<1>1. Len(stack) \in Nat /\ Len(stack) > 0
  BY FrontFacts DEF TypeOK
<1> QED
  BY <1>1 DEF Inv, StackInv, Deleting, Top

LEMMA ForeachNextKeeps ==
    ASSUME TypeOK, Inv, ~Deleting, ForeachNext
    PROVE  Inv'
<1>1. PICK c \in Top.rest :
        stack' = Append([stack EXCEPT ![Len(stack)].rest = @ \ {c}], Fr("ForeachCb", c))
  BY DEF ForeachNext
<1>2. /\ stack # <<>> /\ Top \in Frame /\ Len(stack) \in Nat /\ Len(stack) > 0
      /\ UNCHANGED <<obj, all, open, zero, vwdc, at, end, iter, mgr>>
  BY FrontFacts, LenProperties DEF ForeachNext, Running, TypeOK, Top
<1>3. c \in Con /\ obj[c] = "alive" /\ \A d \in Top.rest : obj[d] = "alive"
  BY <1>1, <1>2 DEF Frame, Inv, FrameInv, Top
<1>4. Fr("ForeachCb", c) \in Frame /\ Fr("ForeachCb", c).fn = "ForeachCb"
      /\ Fr("ForeachCb", c).con = c /\ Fr("ForeachCb", c).rest = {}
  BY <1>3, FrameTypes DEF UserFn, LibFn
<1>5. /\ stack' # <<>> /\ Len(stack') = Len(stack) + 1
      /\ \A i \in 1..(Len(stack) - 1) : stack'[i] = stack[i]
      /\ stack'[Len(stack)] = [Top EXCEPT !.rest = @ \ {c}]
      /\ stack'[Len(stack) + 1] = Fr("ForeachCb", c)
      /\ \A i \in 1..Len(stack) : stack'[i].fn = stack[i].fn /\ stack'[i].con = stack[i].con
  BY <1>1, <1>2, <1>4, PushAfterPick DEF TypeOK
<1>6. stack'[Len(stack)].rest = Top.rest \ {c}
  BY <1>2, <1>5 DEF Frame
<1>7. ~Deleting' /\ ~Sweeping /\ ~Sweeping'
  BY <1>2, <1>5 DEF Deleting, Sweeping
<1>8. StackInv'
  BY <1>2, <1>4, <1>5, <1>7 DEF Inv, StackInv, Deleting
<1>9. FrameInv'
  <2>1. \A i \in 1..Len(stack') : i \in 1..(Len(stack) - 1) \/ i = Len(stack) \/ i = Len(stack) + 1
    BY <1>2, <1>5
  <2>2. \A i \in 1..(Len(stack) - 1) : i \in 1..Len(stack)
    BY <1>2
  <2>3. ASSUME NEW i \in 1..Len(stack'), NEW d \in stack'[i].rest PROVE obj'[d] = "alive"
    <3>1. CASE i \in 1..(Len(stack) - 1)
      <4>1. i \in 1..Len(stack) /\ stack'[i] = stack[i]
        BY <3>1, <2>2, <1>5
      <4>2. d \in stack[i].rest
        BY <2>3, <4>1
      <4> QED
        BY <4>1, <4>2, <1>2 DEF Inv, FrameInv
    <3>2. CASE i = Len(stack)
      BY <2>3, <3>2, <1>2, <1>3, <1>6
    <3>3. CASE i = Len(stack) + 1
      BY <2>3, <3>3, <1>4, <1>5
    <3> QED
      BY <2>1, <3>1, <3>2, <3>3
  <2>4. \A i \in 1..Len(stack') : stack'[i].con \in Con => obj'[stack'[i].con] = "alive"
    BY <1>2, <1>3, <1>4, <1>5, <2>1, <2>2 DEF Inv, FrameInv
  <2> QED
    BY <2>3, <2>4 DEF FrameInv
<1>10. SweepInv' /\ OwnerInv'
  BY <1>2, <1>7, LiveShrinks, QuietOwner
<1> QED
  BY <1>8, <1>9, <1>10 DEF Inv

(* The steps of the delete loops. *)

LEMMA AcceptKeeps ==
    ASSUME TypeOK, Inv, NEW c \in Con, Accept(c)
    PROVE  Inv'
<1>0. /\ ~Deleting /\ ~Sweeping /\ stack = <<>> /\ mgr = "alive" /\ mgr' = "alive"
      /\ Len(stack) = 0
  BY EmptySeq DEF Accept, Idle, Deleting, Sweeping
<1>1. /\ obj' = [obj EXCEPT ![c] = "alive"] /\ all' = all \cup {c} /\ obj[c] = "unborn"
      /\ obj \in [Con -> {"unborn", "alive", "dying", "freed"}]
      /\ Live' \in SUBSET (Live \cup {c})
      /\ UNCHANGED <<vwdc, at, end, iter>>
  BY DEF Accept, CreateConnectForListener, AcceptInit, TypeOK, Live, OnZero
<1>2. \/ stack' = <<>> /\ Len(stack') = 0
      \/ stack' # <<>> /\ Len(stack') = 1 /\ stack'[1] = Fr("OnConnected", c)
  <2>1. Fr("OnConnected", c) \in Frame
    BY FrameTypes DEF UserFn, LibFn
  <2> QED
    BY <1>0, <2>1, AppendFacts DEF Accept, AcceptInit, Push, TypeOK
<1>3. Fr("OnConnected", c).fn = "OnConnected" /\ Fr("OnConnected", c).rest = {}
      /\ Fr("OnConnected", c).con = c
  BY DEF Fr
<1>4. ~Deleting' /\ ~Sweeping'
  BY <1>2, <1>3 DEF Deleting, Sweeping
<1>5. StackInv' /\ SweepInv' /\ FrameInv'
  BY <1>0, <1>1, <1>2, <1>3, <1>4 DEF Inv, StackInv, SweepInv, FrameInv
<1>6. Pending' = Pending
  BY <1>0, <1>1, <1>4 DEF Pending
<1>7. \A i \in Pending : vwdc[i] # c /\ vwdc[i] \in Con /\ obj'[vwdc[i]] = obj[vwdc[i]]
  <2>1. \A i \in Pending : vwdc[i] \in Con
    BY LenProperties DEF Pending, TypeOK
  <2> QED
    BY <2>1, <1>0, <1>1 DEF Inv, OwnerInv, IsDying
<1>8. AllOwned'
  BY <1>0, <1>1, <1>6 DEF Inv, OwnerInv, AllOwned, Doomed
<1>9. OwnerInv'
  BY <1>0, <1>1, <1>4, <1>6, <1>7, <1>8 DEF Inv, OwnerInv, IsDying
<1> QED
  BY <1>5, <1>9 DEF Inv

LEMMA SweepStarts ==
    ASSUME TypeOK, Inv, OnTimerDelConn
    PROVE  Inv'
<1>0. /\ ~Deleting /\ ~Sweeping /\ stack = <<>> /\ mgr = "alive" /\ mgr' = "alive"
      /\ Len(stack) = 0 /\ at' = 1 /\ end' = Len(vwdc) /\ iter' = "valid"
      /\ UNCHANGED <<obj, all, open, zero, vwdc>> /\ Len(vwdc) \in Nat
  BY EmptySeq, LenProperties DEF OnTimerDelConn, Idle, Deleting, Sweeping, TypeOK
<1>1. FrLoop("Sweep", {}) \in Frame /\ FrLoop("Sweep", {}).fn = "Sweep"
      /\ FrLoop("Sweep", {}).rest = {} /\ FrLoop("Sweep", {}).con = NoCon
  BY FrameTypes DEF UserFn, LibFn
<1>2. stack' # <<>> /\ Len(stack') = 1 /\ stack'[1] = FrLoop("Sweep", {})
  BY <1>0, <1>1, AppendFacts DEF OnTimerDelConn, Push, TypeOK
<1>3. Deleting' /\ Sweeping'
  BY <1>1, <1>2 DEF Deleting, Sweeping
<1>4. StackInv' /\ SweepInv' /\ FrameInv'
  BY <1>0, <1>1, <1>2, <1>3 DEF Inv, StackInv, SweepInv, FrameInv
<1>5. Pending' = Pending
  BY <1>0, <1>3 DEF Pending
<1>6. OwnerInv'
  BY <1>0, <1>2, <1>3, <1>5 DEF Inv, OwnerInv, IsDying, AllOwned, Doomed, Live, OnZero
<1> QED
  BY <1>4, <1>6 DEF Inv

LEMMA MgrDestroyKeeps ==
    ASSUME TypeOK, Inv, MgrDestroy
    PROVE  Inv'
<1>0. /\ ~Deleting /\ ~Sweeping /\ stack = <<>> /\ mgr = "alive" /\ mgr' = "dying"
      /\ Len(stack) = 0 /\ UNCHANGED <<obj, all, open, zero, vwdc, at, end>>
  BY EmptySeq DEF MgrDestroy, Idle, Deleting, Sweeping
<1>1. FrLoop("MgrDtor", all) \in Frame /\ FrLoop("MgrDtor", all).fn = "MgrDtor"
      /\ FrLoop("MgrDtor", all).rest = all /\ FrLoop("MgrDtor", all).con = NoCon
  BY FrameTypes DEF UserFn, LibFn, TypeOK
<1>2. stack' # <<>> /\ Len(stack') = 1 /\ stack'[1] = FrLoop("MgrDtor", all)
  BY <1>0, <1>1, AppendFacts DEF MgrDestroy, Push, TypeOK
<1>3. Deleting' /\ ~Sweeping'
  BY <1>1, <1>2 DEF Deleting, Sweeping
<1>4. StackInv' /\ SweepInv' /\ FrameInv'
  BY <1>0, <1>1, <1>2, <1>3 DEF Inv, StackInv, SweepInv, FrameInv, OwnerInv
<1>5. Pending' = {}
  BY <1>0 DEF Pending
<1>6. OwnerInv'
  BY <1>0, <1>2, <1>3, <1>5 DEF Inv, OwnerInv, IsDying, AllOwned, Live, OnZero
<1> QED
  BY <1>4, <1>6 DEF Inv

LEMMA SweepNextKeeps ==
    ASSUME TypeOK, RangeInv, Inv, SweepNext
    PROVE  Inv'
<1>0. /\ Len(stack) = 1 /\ stack # <<>> /\ stack[1].fn = "Sweep" /\ Sweeping /\ Deleting
      /\ at \in 1..Len(vwdc) /\ end = Len(vwdc) /\ mgr = "alive" /\ Len(vwdc) \in Nat
  BY LoopIsFirst, LenProperties
     DEF SweepNext, Running, LoopFn, RangeInv, TypeOK, Sweeping, Deleting, Inv, SweepInv
<1>1. /\ obj' = [obj EXCEPT ![vwdc[at]] = "dying"] /\ Push(Fr("Dtor", vwdc[at]))
      /\ UNCHANGED <<all, open, zero, vwdc, at, end, iter, mgr>>
      /\ obj \in [Con -> {"unborn", "alive", "dying", "freed"}] /\ vwdc[at] \in Con
      /\ \A i \in 1..Len(vwdc) : vwdc[i] \in Con
  BY <1>0, LenProperties DEF SweepNext, TypeOK
<1>2. Fr("Dtor", vwdc[at]) \in Frame /\ Fr("Dtor", vwdc[at]).fn = "Dtor"
      /\ Fr("Dtor", vwdc[at]).con = vwdc[at] /\ Fr("Dtor", vwdc[at]).rest = {}
  BY <1>1, FrameTypes DEF UserFn, LibFn
<1>3. /\ stack' # <<>> /\ Len(stack') = 2 /\ stack'[1] = stack[1]
      /\ stack'[2] = Fr("Dtor", vwdc[at])
  <2>1. /\ stack' # <<>> /\ Len(stack') = Len(stack) + 1
        /\ \A i \in 1..Len(stack) : stack'[i] = stack[i]
        /\ stack'[Len(stack) + 1] = Fr("Dtor", vwdc[at])
    BY <1>1, <1>2, AppendFacts DEF Push, TypeOK
  <2> QED
    BY <1>0, <2>1
<1>4. Deleting' /\ Sweeping'
  BY <1>0, <1>3 DEF Deleting, Sweeping
<1>5. StackInv' /\ SweepInv'
  BY <1>0, <1>1, <1>2, <1>3, <1>4 DEF Inv, StackInv, SweepInv
<1>6. \A i \in Pending : obj[vwdc[i]] = "alive"
  BY <1>0 DEF Inv, OwnerInv, IsDying
<1>7. Pending' = Pending /\ at \in Pending /\ \A i \in Pending : i \in 1..Len(vwdc)
  BY <1>0, <1>1, <1>4 DEF Pending
<1>8. \A c \in Con : IsDying(c)' <=> c = vwdc[at]
  BY <1>2, <1>3, <1>4 DEF IsDying
<1>9. FrameInv'
  <2>1. stack[1].rest = {}
    BY <1>0 DEF Inv, SweepInv
  <2> QED
    BY <1>2, <1>3, <1>4, <2>1 DEF FrameInv
<1>10. OwnerInv'
  BY <1>0, <1>1, <1>6, <1>7, <1>8 DEF Inv, OwnerInv, IsDying, AllOwned, Doomed, Live, OnZero
<1> QED
  BY <1>5, <1>9, <1>10 DEF Inv

LEMMA SweepEndKeeps ==
    ASSUME TypeOK, RangeInv, Inv, SweepEnd
    PROVE  Inv'
<1>0. /\ Len(stack) = 1 /\ stack # <<>> /\ Sweeping /\ Deleting
      /\ at > end /\ end = Len(vwdc) /\ mgr = "alive" /\ Len(vwdc) \in Nat /\ at \in Nat
  BY LoopIsFirst, LenProperties
     DEF SweepEnd, Running, LoopFn, RangeInv, TypeOK, Sweeping, Deleting, Inv, SweepInv
<1>1. /\ stack' = <<>> /\ Len(stack') = 0
      /\ vwdc' = <<>> /\ Len(vwdc') = 0 /\ end' = 0
      /\ UNCHANGED <<obj, all, open, zero, iter, mgr>>
  BY <1>0, FrontFacts, EmptySeq DEF SweepEnd, Pop, Below, TypeOK
<1>2. ~Deleting' /\ ~Sweeping'
  BY <1>1 DEF Deleting, Sweeping
<1>3. StackInv' /\ SweepInv' /\ FrameInv'
  BY <1>0, <1>1, <1>2 DEF Inv, StackInv, SweepInv, FrameInv
<1>4. Pending = {} /\ Pending' = {}
  BY <1>0, <1>1, <1>2 DEF Pending
<1>5. OwnerInv'
  BY <1>0, <1>1, <1>2, <1>4 DEF Inv, OwnerInv, IsDying, AllOwned, Doomed, Live, OnZero
<1> QED
  BY <1>3, <1>5 DEF Inv

LEMMA MgrDtorNextKeeps ==
    ASSUME TypeOK, RangeInv, Inv, MgrDtorNext
    PROVE  Inv'
<1>0. /\ Len(stack) = 1 /\ stack # <<>> /\ stack[1] = Top /\ Top.fn = "MgrDtor"
      /\ ~Sweeping /\ Deleting /\ mgr = "dying" /\ Top \in Frame
      /\ UNCHANGED <<all, open, zero, vwdc, at, end, iter, mgr>>
  BY LoopIsFirst, PushAfterPick
     DEF MgrDtorNext, Running, LoopFn, RangeInv, TypeOK, Sweeping, Deleting, Inv, StackInv
<1>1. PICK c \in Top.rest :
        /\ obj' = [obj EXCEPT ![c] = "dying"]
        /\ stack' = Append([stack EXCEPT ![Len(stack)].rest = @ \ {c}], Fr("Dtor", c))
  BY DEF MgrDtorNext
<1>2. c \in Con /\ obj[c] = "alive" /\ obj \in [Con -> {"unborn", "alive", "dying", "freed"}]
  BY <1>0, <1>1 DEF Frame, Inv, FrameInv, TypeOK
<1>3. Fr("Dtor", c) \in Frame /\ Fr("Dtor", c).fn = "Dtor" /\ Fr("Dtor", c).con = c
      /\ Fr("Dtor", c).rest = {}
  BY <1>2, FrameTypes DEF UserFn, LibFn
<1>4. /\ stack' # <<>> /\ Len(stack') = 2
      /\ stack'[1] = [Top EXCEPT !.rest = @ \ {c}] /\ stack'[2] = Fr("Dtor", c)
  <2>1. /\ Len(stack') = Len(stack) + 1 /\ stack' # <<>>
        /\ stack'[Len(stack)] = [Top EXCEPT !.rest = @ \ {c}]
        /\ stack'[Len(stack) + 1] = Fr("Dtor", c)
    BY <1>0, <1>1, <1>3, PushAfterPick DEF TypeOK
  <2> QED
    BY <1>0, <2>1
<1>5. stack'[1].fn = "MgrDtor" /\ stack'[1].rest = Top.rest \ {c} /\ stack'[1].con = Top.con
  BY <1>0, <1>4 DEF Frame
<1>6. Deleting' /\ ~Sweeping' /\ \A d \in Con : IsDying(d)' <=> d = c
  BY <1>3, <1>4, <1>5 DEF Deleting, Sweeping, IsDying
<1>7. StackInv' /\ SweepInv'
  BY <1>0, <1>3, <1>4, <1>5, <1>6 DEF Inv, StackInv, SweepInv
<1>8. FrameInv'
  BY <1>0, <1>1, <1>2, <1>3, <1>4, <1>5, <1>6 DEF Inv, FrameInv
<1>9. Pending' = {} /\ mgr' = "dying"
  BY <1>0 DEF Pending
<1>10. \A d \in Con : ~IsDying(d)
  BY <1>0 DEF IsDying
<1>11. OwnerInv'
  BY <1>0, <1>1, <1>2, <1>6, <1>9, <1>10 DEF Inv, OwnerInv, AllOwned, TypeOK, Live, OnZero
<1> QED
  BY <1>7, <1>8, <1>11 DEF Inv

LEMMA MgrDtorEndKeeps ==
    ASSUME TypeOK, RangeInv, Inv, MgrDtorEnd
    PROVE  Inv'
<1>0. Len(stack) = 1 /\ stack # <<>> /\ ~Sweeping /\ Deleting
  BY LoopIsFirst
     DEF MgrDtorEnd, Running, LoopFn, RangeInv, TypeOK, Sweeping, Deleting
<1>1. /\ stack' = <<>> /\ Len(stack') = 0 /\ all' = {} /\ mgr' = "dead"
      /\ UNCHANGED <<obj, open, zero, at, end, iter>>
  BY <1>0, FrontFacts, EmptySeq DEF MgrDtorEnd, Pop, Below, TypeOK
<1>2. ~Deleting' /\ ~Sweeping' /\ Pending' = {}
  BY <1>1 DEF Deleting, Sweeping, Pending
<1>3. StackInv' /\ SweepInv' /\ FrameInv'
  BY <1>0, <1>1, <1>2 DEF Inv, StackInv, SweepInv, FrameInv
<1>4. OwnerInv'
  BY <1>0, <1>1, <1>2 DEF Inv, OwnerInv, IsDying, AllOwned, Live, OnZero
<1> QED
  BY <1>3, <1>4 DEF Inv

LEMMA DtorReturnKeeps ==
    ASSUME TypeOK, RangeInv, Inv, DtorReturn
    PROVE  Inv'
<1>0. /\ stack # <<>> /\ Top.fn = "Dtor" /\ Deleting
      /\ Len(stack) = 2 /\ Top = stack[2]
  <2>1. stack # <<>> /\ Top.fn = "Dtor"
    BY DEF DtorReturn, Running
  <2>2. Len(stack) \in 1..Len(stack)
    BY <2>1, FrontFacts DEF TypeOK
  <2>3. Deleting
    BY <2>1, <2>2 DEF Inv, StackInv, Top
  <2>4. Len(stack) # 1
    BY <2>1, <2>3 DEF Deleting, Top
  <2> QED
    BY <2>1, <2>3, <2>4 DEF Inv, StackInv, Top
<1> DEFINE c == Top.con
<1>1. /\ obj' = [obj EXCEPT ![c] = "freed"] /\ Live' \in SUBSET (Live \ {c})
      /\ at' = (IF stack[1].fn = "Sweep" THEN at + 1 ELSE at)
      /\ UNCHANGED <<all, vwdc, end, iter, mgr>>
      /\ obj \in [Con -> {"unborn", "alive", "dying", "freed"}]
      /\ Live \in SUBSET Con /\ Pop /\ at \in Nat /\ Len(vwdc) \in Nat
      /\ vwdc \in Seq(Con)
  BY LenProperties DEF DtorReturn, TypeOK, Live, OnZero
<1>2. Len(stack') = 1 /\ stack' # <<>> /\ stack'[1] = stack[1]
  BY <1>0, <1>1, FrontFacts DEF Pop, Below, TypeOK
<1>3. Deleting' /\ (Sweeping' <=> Sweeping)
  BY <1>0, <1>2 DEF Deleting, Sweeping
<1>4. /\ \A d \in Con : ~IsDying(d)'
      /\ \A d \in Con : IsDying(d) <=> d = c
  BY <1>0, <1>2 DEF IsDying
<1> HIDE DEF c
<1>5. StackInv'
  BY <1>0, <1>1, <1>2, <1>3 DEF Inv, StackInv
<1>6. SweepInv'
  BY <1>0, <1>1, <1>2, <1>3 DEF Inv, SweepInv, Sweeping
<1>7. \A d \in Con : obj[d] = "dying" <=> d = c
  BY <1>4 DEF Inv, OwnerInv
<1>8. FrameInv'
  <2>1. \A d \in stack[1].rest : obj[d] = "alive"
    BY <1>0 DEF Inv, FrameInv
  <2>2. \A d \in stack[1].rest : d \in Con
    <3>1. stack \in Seq(Frame) /\ 1 \in 1..Len(stack)
      BY <1>0 DEF TypeOK
    <3>2. stack[1] \in Frame
      BY <3>1, LenProperties
    <3> QED
      BY <3>2 DEF Frame
  <2>3. \A d \in stack[1].rest : d # c
    BY <2>1, <2>2, <1>7
  <2> QED
    BY <1>1, <1>2, <1>3, <2>1, <2>2, <2>3 DEF FrameInv
<1>9. CASE Sweeping
  <2>1. /\ c = vwdc[at] /\ at \in 1..Len(vwdc) /\ mgr = "alive" /\ at' = at + 1
        /\ c \in Con /\ end = Len(vwdc)
    BY <1>0, <1>1, <1>9, LenProperties DEF Inv, SweepInv, Sweeping, TypeOK, c
  <2>2. Pending' = {i \in Pending : i > at} /\ at \in Pending
    BY <1>1, <1>3, <1>9, <2>1 DEF Pending
  <2>3. \A i \in Pending : vwdc[i] \in Con
    BY <1>1, LenProperties DEF Pending
  <2>4. \A i \in Pending' : i \in Pending /\ vwdc[i] # c /\ obj[vwdc[i]] = "alive"
    BY <1>4, <2>1, <2>2, <2>3 DEF Inv, OwnerInv
  <2>5. \A d \in all : d # c
    BY <2>1, <2>2 DEF Inv, OwnerInv
  <2>6. AllOwned'
    <3> SUFFICES ASSUME NEW d \in Con, obj'[d] = "alive"
                 PROVE  d \in all \/ \E i \in Pending' : vwdc[i] = d
      BY <1>1, <2>1 DEF AllOwned, Doomed
    <3>1. d # c /\ obj[d] = "alive"
      BY <1>1, <2>1
    <3>2. d \in all \/ \E i \in Pending : vwdc[i] = d
      BY <3>1, <2>1 DEF Inv, OwnerInv, AllOwned, Doomed
    <3>3. ASSUME NEW i \in Pending, vwdc[i] = d PROVE i > at
      BY <3>1, <3>3, <1>9, <2>1 DEF Pending
    <3> QED
      BY <3>2, <3>3, <2>2
  <2> QED
    BY <1>1, <1>4, <1>5, <1>6, <1>7, <1>8, <2>1, <2>3, <2>4, <2>5, <2>6
       DEF Inv, OwnerInv, TypeOK
<1>10. CASE ~Sweeping
  <2>1. mgr = "dying" /\ Pending = {} /\ Pending' = {}
    BY <1>0, <1>1, <1>10 DEF Inv, StackInv, Deleting, Sweeping, Pending
  <2>2. OwnerInv'
    BY <1>1, <1>4, <1>7, <2>1 DEF Inv, OwnerInv, AllOwned
  <2> QED
    BY <1>5, <1>6, <1>8, <2>2 DEF Inv
<1> QED
  BY <1>9, <1>10

-----------------------------------------------------------------------------
(* The theorem. *)

LEMMA InvNext ==
    ASSUME Quiet, TypeOK, RangeInv, Inv, [Next]_vars
    PROVE  Inv'
<1>0. stack \in Seq(Frame) /\ (stack # <<>> => Top \in Frame)
  BY FrontFacts, LenProperties DEF TypeOK, Top
<1>1. ASSUME NEW c \in Con, Accept(c) PROVE Inv'
  BY <1>1, AcceptKeeps
<1>2. ASSUME NEW c \in Con, ReadCb(c) \/ EventCb(c) PROVE Inv'
  <2>1. ~Deleting /\ c \in Live /\ Live' \in SUBSET Live
    <3>1. ~Deleting /\ c \in Reading /\ open' = open
          /\ \/ zero' = zero
             \/ zero' = [zero EXCEPT ![c] = IF @ = "reads" THEN "shut" ELSE @]
      BY <1>2 DEF ReadCb, EventCb, Idle, Deleting
    <3>2. zero \in [Con -> {"no", "reads", "told", "shut"}] /\ open \in SUBSET Con
      BY DEF TypeOK
    <3> QED
      BY <3>1, <3>2, LiveShrinks, LiveStays DEF Reading, Live, OnZero
  <2>2. obj[c] = "alive"
    BY <2>1 DEF Inv, OwnerInv, IsDying
  <2>3. \A fn \in {"ReadCb", "OnError"} :
          Fr(fn, c) \in Frame /\ Fr(fn, c).fn = fn /\ Fr(fn, c).con = c /\ Fr(fn, c).rest = {}
    BY FrameTypes DEF UserFn, LibFn
  <2> QED
    BY <1>2, <2>1, <2>2, <2>3, QuietPush DEF ReadCb, EventCb
<1>3. CASE UserTimer
  <2>1. ~Deleting
    BY <1>3 DEF UserTimer, Idle, Deleting
  <2>2. LET f == Fr("UserTimer", NoCon)
        IN  f \in Frame /\ f.fn = "UserTimer" /\ f.con = NoCon /\ f.rest = {}
    BY FrameTypes DEF UserFn, LibFn
  <2> QED
    BY <1>3, <2>1, <2>2, ConAssumption, LiveShrinks, QuietPush DEF UserTimer
<1>4. CASE OnTimerDelConn
  BY <1>4, SweepStarts
<1>5. CASE MgrDestroy
  BY <1>5, MgrDestroyKeeps
<1>6. CASE DeliverMsg
  <2>1. /\ stack # <<>> /\ Top.fn = "ReadCb" /\ Top \in Frame
        /\ Top.con \in Con /\ Top.con \in Live /\ Live' \in SUBSET Live
    <3>1. Top.con \in Reading /\ open' = open
          /\ zero' = [zero EXCEPT ![Top.con] = IF @ = "reads" THEN "told" ELSE @]
      BY <1>6 DEF DeliverMsg
    <3>2. zero \in [Con -> {"no", "reads", "told", "shut"}] /\ open \in SUBSET Con
      BY DEF TypeOK
    <3>3. Top.con \in Con /\ Top.con \in Live
      BY <3>1, <3>2 DEF Reading, Live, OnZero
    <3>4. Live' \in SUBSET Live
      BY <3>1, <3>2, LiveStays
    <3>5. stack # <<>> /\ Top.fn = "ReadCb"
      BY <1>6 DEF DeliverMsg, Running
    <3> QED
      BY <1>0, <3>3, <3>4, <3>5
  <2>2. ~Deleting
    BY <2>1, <1>0, TopOfDeleting
  <2>3. obj[Top.con] = "alive"
    BY <2>1, <2>2 DEF Inv, OwnerInv, IsDying
  <2>4. LET f == Fr("OnRecv", Top.con)
        IN  f \in Frame /\ f.fn = "OnRecv" /\ f.con = Top.con /\ f.rest = {}
    BY <2>1, FrameTypes DEF UserFn, LibFn
  <2> QED
    BY <1>6, <2>1, <2>2, <2>3, <2>4, QuietPush DEF DeliverMsg
<1>7. CASE BadLength \/ ErrorReturn
  <2>1. /\ stack # <<>> /\ Pop /\ Top.fn \in {"ReadCb", "OnError"}
        /\ ConComDisConnect(Top.con) /\ UNCHANGED <<obj, zero, at, end, mgr>>
    BY <1>7 DEF BadLength, ErrorReturn, Running
  <2>2. ~Deleting
    BY <2>1, <1>0, TopOfDeleting
  <2>3. ~Deleting' /\ StackInv' /\ FrameInv'
    BY <2>1, <2>2, QuietPop
  <2>4. SweepInv' /\ OwnerInv'
    BY <2>1, <2>2, <2>3, QuietDisConnect
  <2> QED
    BY <2>3, <2>4 DEF Inv
<1>8. CASE ReadReturn \/ ForeachEnd \/ UserReturn
  <2>1. /\ stack # <<>> /\ Pop /\ Top.fn \notin {"Sweep", "MgrDtor", "Dtor"}
        /\ UNCHANGED <<obj, all, open, vwdc, at, end, iter, mgr>>
        /\ \/ zero' = zero
           \/ zero' = [zero EXCEPT ![Top.con] = IF @ = "told" THEN "reads" ELSE @]
    BY <1>8 DEF ReadReturn, ForeachEnd, UserReturn, Running, InUserCode, UserFn
  <2>2. ~Deleting
    BY <2>1, <1>0, TopOfDeleting
  <2>3. ~Deleting' /\ StackInv' /\ FrameInv'
    BY <2>1, <2>2, QuietPop
  <2>4. Live' \in SUBSET Live
    BY <2>1, LiveShrinks, LiveStays DEF TypeOK
  <2>5. SweepInv' /\ OwnerInv'
    BY <2>1, <2>2, <2>3, <2>4, QuietOwner
  <2> QED
    BY <2>3, <2>5 DEF Inv
<1>9. CASE ForeachNext
  <2>1. stack # <<>> /\ Top.fn = "Foreach" /\ Top \in Frame
    BY <1>9, <1>0 DEF ForeachNext, Running
  <2>2. ~Deleting
    BY <2>1, <1>0, TopOfDeleting
  <2> QED
    BY <1>9, <2>1, <2>2, ForeachNextKeeps
<1>10. CASE SweepNext
  BY <1>10, SweepNextKeeps
<1>11. CASE SweepStale \/ MgrDtorStale
  <2>1. UNCHANGED <<obj, all, open, zero, vwdc, cap, at, end, iter, stack, mgr>>
    BY <1>11 DEF SweepStale, MgrDtorStale
  <2> QED
    BY <2>1, LiveShrinks, SameState
<1>12. CASE SweepEnd
  BY <1>12, SweepEndKeeps
<1>13. CASE MgrDtorNext
  BY <1>13, MgrDtorNextKeeps
<1>14. CASE MgrDtorEnd
  BY <1>14, MgrDtorEndKeeps
<1>15. ASSUME NEW c \in Con, UserPostDelConn(c) PROVE Inv'
  <2>1. ~Deleting /\ ~Deleting'
    BY <1>15 DEF UserPostDelConn, MayUseMgr, Quiet, Deleting
  <2>2. SweepInv' /\ OwnerInv'
    BY <1>15, <2>1, LiveShrinks, QuietPost DEF UserPostDelConn
  <2> QED
    BY <1>15, <2>1, <2>2 DEF UserPostDelConn, Inv, StackInv, FrameInv
<1>16. ASSUME NEW c \in Con, UserDisConnect(c) \/ UserSendOverflow(c)
       PROVE  Inv'
  <2>0. UNCHANGED <<obj, zero, at, end, stack, mgr>> /\ (ConComDisConnect(c) \/ SvrConDisConnect(c))
    BY <1>16 DEF UserDisConnect, UserSendOverflow
  <2>1. Deleting' <=> Deleting
    BY <2>0 DEF Deleting
  <2>2. CASE ~Deleting
    <3>1. SweepInv' /\ OwnerInv'
      BY <2>0, <2>1, <2>2, QuietDisConnect
    <3> QED
      BY <2>0, <2>1, <2>2, <3>1 DEF Inv, StackInv, FrameInv
  <2>3. CASE Deleting
    <3>1. c \notin all /\ SvrConDisConnect(c)
      BY <1>16, <2>3 DEF UserDisConnect, UserSendOverflow, MayUseMgr, Quiet
    <3>2. mgr # "dead"
      BY <2>3 DEF Inv, StackInv, SweepInv, Deleting, Sweeping
    <3>3. UNCHANGED <<all, vwdc, iter>> /\ open' \in SUBSET open
      BY <3>1, <3>2 DEF SvrConDisConnect, PostDelConn
    <3> QED
      BY <2>0, <3>3, LiveShrinks, SameState
  <2> QED
    BY <2>2, <2>3
<1>17. CASE UserForeach
  <2>1. ~Deleting
    BY <1>17 DEF UserForeach, MayUseMgr, Quiet
  <2>2. \A d \in all : obj[d] = "alive"
    BY <1>17, <2>1 DEF UserForeach, Inv, StackInv, OwnerInv, TypeOK, Deleting
  <2>3. LET f == FrLoop("Foreach", all)
        IN  f \in Frame /\ f.fn = "Foreach" /\ f.con = NoCon /\ f.rest = all
    BY FrameTypes DEF UserFn, LibFn, TypeOK
  <2> QED
    BY <1>17, <2>1, <2>2, <2>3, ConAssumption, LiveShrinks, QuietPush DEF UserForeach
<1>18. CASE DtorReturn
  BY <1>18, DtorReturnKeeps
<1>19. CASE UNCHANGED vars
  <2>1. UNCHANGED <<obj, all, open, zero, vwdc, at, end, iter, stack, mgr>>
    BY <1>19 DEF vars
  <2> QED
    BY <2>1, LiveShrinks, SameState
<1> QED
  BY <1>1, <1>2, <1>3, <1>4, <1>5, <1>6, <1>7, <1>8, <1>9, <1>10, <1>11, <1>12,
     <1>13, <1>14, <1>15, <1>16, <1>17, <1>18, <1>19 DEF Next, Step, Event, Library, User

LEMMA InvSafe == ASSUME TypeOK, Inv PROVE SingleOwner /\ AllOwned /\ NoDangling
<1>1. SingleOwner
  BY DEF Inv, OwnerInv, SingleOwner, Doomed
<1>2. AllOwned
  BY DEF Inv, OwnerInv
<1>3. NoDangling
  <2> SUFFICES ASSUME NEW i \in 1..Len(stack)
               PROVE  /\ stack[i].con \in Con => obj[stack[i].con] # "freed"
                      /\ \A c \in stack[i].rest : obj[c] = "alive"
    BY DEF NoDangling
  <2>1. \A c \in stack[i].rest : obj[c] = "alive"
    BY DEF Inv, FrameInv
  <2>2. CASE ~Deleting
    BY <2>1, <2>2 DEF Inv, FrameInv
  <2>3. CASE Deleting
    <3>1. i = 1 \/ (i = 2 /\ Len(stack) = 2)
      BY <2>3 DEF Inv, StackInv
    <3>2. stack[1].con \notin Con
      BY <2>3, ConAssumption DEF Inv, StackInv
    <3>3. Len(stack) = 2 /\ stack[2].con \in Con => obj[stack[2].con] = "dying"
      BY <2>3 DEF Inv, OwnerInv, IsDying
    <3> QED
      BY <2>1, <3>1, <3>2, <3>3
  <2> QED
    BY <2>2, <2>3
<1> QED
  BY <1>1, <1>2, <1>3

\* Quiet programs stay quiet, the others claim nothing.
QuietInv == Quiet => Inv

\* For programs whose derived destructors leave the manager alone, in whatever
\* order connections come, go, post, disconnect and iterate: an object never has
\* two owners, never none, and no running callback holds a deleted one.
THEOREM SafetyCorrect ==
    Spec => []((Quiet => SingleOwner) /\ NoOrphan /\ NoDangling)
<1>1. Init => TypeOK /\ RangeInv /\ QuietInv
  BY TypesInit, InvInit DEF QuietInv
<1>2. TypeOK /\ RangeInv /\ QuietInv /\ [Next]_vars => (TypeOK /\ RangeInv /\ QuietInv)'
  <2> SUFFICES ASSUME TypeOK, RangeInv, QuietInv, [Next]_vars
               PROVE  TypeOK' /\ RangeInv' /\ QuietInv'
    OBVIOUS
  <2>1. Quiet' <=> Quiet
    BY DEF Next, Step, vars, Quiet
  <2> QED
    BY <2>1, TypesNext, InvNext DEF QuietInv
<1>3. TypeOK /\ QuietInv => (Quiet => SingleOwner) /\ NoOrphan /\ NoDangling
  BY InvSafe DEF QuietInv, NoOrphan, NoDangling
<1> QED
  BY <1>1, <1>2, <1>3, PTL DEF Spec

-----------------------------------------------------------------------------
(* Ownership under every program.  Derived destructors that post, iterate and *)
(* disconnect reach into a running delete loop, and SingleOwner survives it.  *)

\* The destructor a delete loop runs is the second frame; what it calls is above.
DtorSecond ==
    /\ \A i \in 1..Len(stack) : stack[i].fn = "Dtor" => i = 2 /\ Deleting
    /\ Deleting /\ Len(stack) >= 2 => stack[2].fn = "Dtor"
    /\ stack # <<>> /\ stack[1].fn = "MgrDtor" => mgr # "alive"

\* A sweep has called a destructor, and that has not returned.
MidDelete == Sweeping /\ Len(stack) >= 2

MidDeleteInv == MidDelete => at <= end /\ stack[2].con = vwdc[at]

\* While the manager lives, what is still to be deleted is owned once.
LiveOwner ==
    mgr = "alive" =>
        /\ \A i, j \in Pending : vwdc[i] = vwdc[j] => i = j
        /\ \A i \in Pending : vwdc[i] \notin all
        /\ \A i \in Pending : obj[vwdc[i]] = IF MidDelete /\ i = at THEN "dying" ELSE "alive"
        /\ \A c \in all : obj[c] = "alive"

OwnInv == DtorSecond /\ MidDeleteInv /\ LiveOwner

LEMMA OwnInit == Init => OwnInv
<1> SUFFICES ASSUME Init PROVE OwnInv
  OBVIOUS
<1>1. Len(vwdc) = 0 /\ Len(stack) = 0 /\ ~Deleting /\ ~Sweeping
  BY EmptySeq DEF Init, Deleting, Sweeping
<1> QED
  BY <1>1 DEF Init, OwnInv, DtorSecond, MidDeleteInv, MidDelete, LiveOwner, Pending

\* A frame that is neither a delete loop nor its destructor is pushed.
LEMMA OwnPush ==
    ASSUME TypeOK, LoopFirst, OwnInv, NEW f \in Frame, Push(f),
           f.fn \notin {"Sweep", "MgrDtor", "Dtor"}, Deleting => Len(stack) >= 2,
           UNCHANGED <<obj, all, vwdc, at, end, mgr>>
    PROVE  OwnInv'
<1>0. stack \in Seq(Frame) /\ Len(stack) \in Nat /\ (stack = <<>> <=> Len(stack) = 0)
  BY LenProperties, EmptySeq DEF TypeOK
<1>1. /\ Len(stack') = Len(stack) + 1 /\ stack' # <<>>
      /\ \A i \in 1..Len(stack) : stack'[i] = stack[i]
      /\ stack'[Len(stack) + 1] = f
  BY <1>0, AppendFacts DEF Push
<1>2. (Deleting' <=> Deleting) /\ (Sweeping' <=> Sweeping) /\ (MidDelete' <=> MidDelete)
  BY <1>0, <1>1 DEF Deleting, Sweeping, MidDelete
<1>3. DtorSecond'
  BY <1>0, <1>1, <1>2 DEF OwnInv, DtorSecond, Deleting
<1>4. MidDeleteInv'
  BY <1>0, <1>1, <1>2 DEF OwnInv, MidDeleteInv, MidDelete
<1>5. Pending' = Pending
  BY <1>2 DEF Pending
<1>6. LiveOwner'
  BY <1>2, <1>5 DEF OwnInv, LiveOwner
<1> QED
  BY <1>3, <1>4, <1>6 DEF OwnInv

\* Such a frame returns.
LEMMA OwnPop ==
    ASSUME TypeOK, OwnInv, stack # <<>>, Pop, mgr' = mgr,
           Top.fn \notin {"Sweep", "MgrDtor", "Dtor"}
    PROVE  /\ DtorSecond' /\ (Sweeping' <=> Sweeping) /\ (MidDelete' <=> MidDelete)
           /\ MidDelete => stack'[2] = stack[2]
<1>1. /\ Len(stack') = Len(stack) - 1
      /\ \A i \in 1..(Len(stack) - 1) : stack'[i] = stack[i]
      /\ Len(stack) \in Nat /\ Len(stack) > 0
      /\ stack' = <<>> <=> Len(stack) = 1
  BY FrontFacts DEF Pop, Below, TypeOK
<1>2. Deleting => Len(stack) >= 3
  BY <1>1 DEF OwnInv, DtorSecond, Deleting, Top
<1>3. (Deleting' <=> Deleting) /\ (Sweeping' <=> Sweeping) /\ (MidDelete' <=> MidDelete)
  BY <1>1, <1>2 DEF Deleting, Sweeping, MidDelete
<1>4. DtorSecond'
  BY <1>1, <1>2, <1>3 DEF OwnInv, DtorSecond, Deleting
<1> QED
  BY <1>1, <1>2, <1>3, <1>4 DEF MidDelete, Sweeping, Deleting

\* The vector, the map and the objects stay as they are.
LEMMA OwnKeep ==
    ASSUME OwnInv, MidDelete' <=> MidDelete, Sweeping' <=> Sweeping,
           MidDelete => stack'[2] = stack[2],
           UNCHANGED <<obj, all, vwdc, at, end, mgr>>
    PROVE  MidDeleteInv' /\ LiveOwner'
<1>1. Pending' = Pending
  BY DEF Pending
<1> QED
  BY <1>1 DEF OwnInv, MidDeleteInv, LiveOwner

\* A post, wherever it is called from, moves an object from the map to the end of
\* the vector, behind whatever a running sweep looks at.
LEMMA OwnPost ==
    ASSUME TypeOK, RangeInv, OwnInv, MidDelete' <=> MidDelete, Sweeping' <=> Sweeping,
           MidDelete => stack'[2] = stack[2],
           NEW c, PostDelConn(c), UNCHANGED <<obj, at, end, mgr>>
    PROVE  MidDeleteInv' /\ LiveOwner'
<1>1. CASE c \notin all \/ mgr = "dead"
  <2>1. UNCHANGED <<all, vwdc>> \/ mgr # "alive"
    BY <1>1 DEF PostDelConn
  <2>2. UNCHANGED vwdc
    BY <1>1 DEF PostDelConn
  <2> QED
    BY <2>1, <2>2, OwnKeep DEF OwnInv, LiveOwner, MidDeleteInv
<1>2. CASE c \in all /\ mgr # "dead"
  <2>1. /\ all' = all \ {c} /\ vwdc' = Append(vwdc, c) /\ c \in Con
        /\ vwdc \in Seq(Con) /\ all \in SUBSET Con /\ at \in Nat \ {0} /\ end \in Nat
        /\ end <= Len(vwdc)
    BY <1>2 DEF PostDelConn, TypeOK, RangeInv
  <2>2. /\ vwdc' \in Seq(Con) /\ Len(vwdc') = Len(vwdc) + 1 /\ Len(vwdc) \in Nat
        /\ \A i \in 1..Len(vwdc) : vwdc'[i] = vwdc[i]
        /\ vwdc'[Len(vwdc) + 1] = c
    BY <2>1, AppendFacts, LenProperties
  <2>3. MidDeleteInv'
    BY <2>1, <2>2 DEF OwnInv, MidDeleteInv
  <2>4. CASE mgr # "alive"
    BY <2>3, <2>4 DEF LiveOwner
  <2>5. CASE mgr = "alive"
    <3>1. \A i \in Pending' : \/ i \in Pending /\ vwdc'[i] = vwdc[i]
                              \/ i = Len(vwdc) + 1 /\ vwdc'[i] = c
      BY <2>1, <2>2, <2>5 DEF Pending
    <3>2. \A i \in Pending : vwdc[i] # c
      BY <1>2, <2>5 DEF OwnInv, LiveOwner
    <3>3. obj[c] = "alive"
      BY <1>2, <2>5 DEF OwnInv, LiveOwner
    <3>4. MidDelete => at # Len(vwdc) + 1
      BY <2>1, <2>2 DEF OwnInv, MidDeleteInv
    <3>5. \A i \in Pending' : obj'[vwdc'[i]] = IF MidDelete' /\ i = at' THEN "dying" ELSE "alive"
      BY <2>5, <3>1, <3>3, <3>4 DEF OwnInv, LiveOwner
    <3>6. \A i, j \in Pending' : vwdc'[i] = vwdc'[j] => i = j
      BY <2>5, <3>1, <3>2 DEF OwnInv, LiveOwner
    <3>7. /\ \A i \in Pending' : vwdc'[i] \notin all'
          /\ \A d \in all' : obj'[d] = "alive"
      BY <2>1, <2>5, <3>1 DEF OwnInv, LiveOwner
    <3> QED
      BY <2>3, <3>5, <3>6, <3>7 DEF LiveOwner
  <2> QED
    BY <2>4, <2>5
<1> QED
  BY <1>1, <1>2

LEMMA OwnDisConnect ==
    ASSUME TypeOK, RangeInv, OwnInv, MidDelete' <=> MidDelete, Sweeping' <=> Sweeping,
           MidDelete => stack'[2] = stack[2],
           NEW c, ConComDisConnect(c) \/ SvrConDisConnect(c), UNCHANGED <<obj, at, end, mgr>>
    PROVE  MidDeleteInv' /\ LiveOwner'
<1>1. CASE PostDelConn(c)
  BY <1>1, OwnPost
<1>2. CASE UNCHANGED <<all, open, vwdc, cap, iter, heap>>
  BY <1>2, OwnKeep
<1> QED
  BY <1>1, <1>2 DEF ConComDisConnect, SvrConDisConnect

LEMMA OwnSame ==
    ASSUME OwnInv, UNCHANGED <<obj, all, vwdc, at, end, stack, mgr>>
    PROVE  OwnInv'
<1>1. (Deleting' <=> Deleting) /\ (Sweeping' <=> Sweeping) /\ (MidDelete' <=> MidDelete)
  BY DEF Deleting, Sweeping, MidDelete
<1> QED
  BY <1>1, OwnKeep DEF OwnInv, DtorSecond

\* The loop of an idle program starts a delete loop, or accepts.
LEMMA OwnStartLoop ==
    ASSUME TypeOK, OwnInv, OnTimerDelConn \/ MgrDestroy
    PROVE  OwnInv'
<1>0. /\ stack = <<>> /\ ~Sweeping /\ Len(vwdc) \in Nat
      /\ UNCHANGED <<obj, all, vwdc>> /\ mgr = "alive"
  BY LenProperties DEF OnTimerDelConn, MgrDestroy, Idle, Sweeping, TypeOK
<1>1. CASE OnTimerDelConn
  <2>1. FrLoop("Sweep", {}) \in Frame /\ FrLoop("Sweep", {}).fn = "Sweep"
    BY FrameTypes DEF UserFn, LibFn
  <2>2. Len(stack') = 1 /\ stack' # <<>> /\ stack'[1] = FrLoop("Sweep", {})
    BY <1>0, <1>1, <2>1, AppendFacts, EmptySeq DEF OnTimerDelConn, Push
  <2>3. Deleting' /\ Sweeping' /\ ~MidDelete' /\ ~MidDelete
    BY <1>0, <2>1, <2>2 DEF Deleting, Sweeping, MidDelete
  <2>4. Pending' = Pending
    BY <1>0, <1>1, <2>3 DEF Pending, OnTimerDelConn
  <2>5. DtorSecond'
    BY <2>1, <2>2, <2>3 DEF DtorSecond
  <2> QED
    BY <1>0, <1>1, <2>3, <2>4, <2>5 DEF OwnInv, MidDeleteInv, LiveOwner, OnTimerDelConn
<1>2. CASE MgrDestroy
  <2>1. FrLoop("MgrDtor", all) \in Frame /\ FrLoop("MgrDtor", all).fn = "MgrDtor"
    BY FrameTypes DEF UserFn, LibFn, TypeOK
  <2>2. Len(stack') = 1 /\ stack' # <<>> /\ stack'[1] = FrLoop("MgrDtor", all)
    BY <1>0, <1>2, <2>1, AppendFacts, EmptySeq DEF MgrDestroy, Push
  <2>3. Deleting' /\ ~Sweeping' /\ ~MidDelete' /\ mgr' # "alive"
    BY <1>2, <2>1, <2>2 DEF Deleting, Sweeping, MidDelete, MgrDestroy
  <2> QED
    BY <2>1, <2>2, <2>3 DEF OwnInv, DtorSecond, MidDeleteInv, LiveOwner
<1> QED
  BY <1>1, <1>2

LEMMA OwnAccept ==
    ASSUME TypeOK, OwnInv, NEW c \in Con, Accept(c)
    PROVE  OwnInv'
<1>0. /\ stack = <<>> /\ ~Sweeping /\ ~MidDelete /\ Len(vwdc) \in Nat /\ mgr = "alive"
      /\ obj' = [obj EXCEPT ![c] = "alive"] /\ all' = all \cup {c} /\ obj[c] = "unborn"
      /\ obj \in [Con -> {"unborn", "alive", "dying", "freed"}] /\ vwdc \in Seq(Con)
      /\ all \in SUBSET Con /\ UNCHANGED <<vwdc, at, end, mgr>>
  BY LenProperties DEF Accept, CreateConnectForListener, Idle, Sweeping, MidDelete, TypeOK
<1>1. Len(stack') = 0 \/ (stack' # <<>> /\ Len(stack') = 1 /\ stack'[1] = Fr("OnConnected", c))
  <2>1. Fr("OnConnected", c) \in Frame
    BY FrameTypes DEF UserFn, LibFn
  <2> QED
    BY <1>0, <2>1, AppendFacts, EmptySeq DEF Accept, AcceptInit, Push
<1>2. ~Deleting' /\ ~Sweeping' /\ ~MidDelete'
  BY <1>0, <1>1, EmptySeq DEF Accept, AcceptInit, Push, Deleting, Sweeping, MidDelete, Fr
<1>3. DtorSecond'
  BY <1>1, <1>2 DEF DtorSecond, Deleting, Fr
<1>4. Pending = 1..Len(vwdc) /\ Pending' = Pending
  BY <1>0, <1>2 DEF Pending
<1>5. \A i \in Pending : vwdc[i] \in Con /\ vwdc[i] # c
  BY <1>0, <1>4, LenProperties DEF OwnInv, LiveOwner
<1>6. LiveOwner'
  BY <1>0, <1>2, <1>4, <1>5 DEF OwnInv, LiveOwner
<1> QED
  BY <1>2, <1>3, <1>6 DEF OwnInv, MidDeleteInv

LEMMA OwnSweepNext ==
    ASSUME TypeOK, RangeInv, OwnInv, SweepNext
    PROVE  OwnInv'
<1>0. /\ Len(stack) = 1 /\ stack # <<>> /\ stack[1].fn = "Sweep" /\ Sweeping /\ ~MidDelete
      /\ at \in 1..Len(vwdc) /\ at <= end /\ Len(vwdc) \in Nat
  <2>1. stack # <<>> /\ Top.fn = "Sweep" /\ at <= end
    BY DEF SweepNext, Running
  <2>2. Len(stack) = 1 /\ stack[1] = Top
    BY <2>1, LoopIsFirst DEF LoopFn, RangeInv, TypeOK
  <2>3. at \in Nat \ {0} /\ end \in Nat /\ Len(vwdc) \in Nat /\ end <= Len(vwdc)
    BY LenProperties DEF TypeOK, RangeInv
  <2> QED
    BY <2>1, <2>2, <2>3 DEF Sweeping, MidDelete
<1>1. /\ obj' = [obj EXCEPT ![vwdc[at]] = "dying"] /\ Push(Fr("Dtor", vwdc[at]))
      /\ UNCHANGED <<all, vwdc, at, end, mgr>>
      /\ obj \in [Con -> {"unborn", "alive", "dying", "freed"}] /\ vwdc[at] \in Con
      /\ \A i \in 1..Len(vwdc) : vwdc[i] \in Con
      /\ all \in SUBSET Con
  BY <1>0, LenProperties DEF SweepNext, TypeOK
<1>2. Fr("Dtor", vwdc[at]) \in Frame /\ Fr("Dtor", vwdc[at]).fn = "Dtor"
      /\ Fr("Dtor", vwdc[at]).con = vwdc[at]
  BY <1>1, FrameTypes DEF UserFn, LibFn
<1>3. /\ Len(stack') = 2 /\ stack' # <<>> /\ stack'[1] = stack[1]
      /\ stack'[2] = Fr("Dtor", vwdc[at])
  <2>1. /\ stack' # <<>> /\ Len(stack') = Len(stack) + 1
        /\ \A i \in 1..Len(stack) : stack'[i] = stack[i]
        /\ stack'[Len(stack) + 1] = Fr("Dtor", vwdc[at])
    BY <1>1, <1>2, AppendFacts DEF Push, TypeOK
  <2> QED
    BY <1>0, <2>1
<1>4. Deleting' /\ Sweeping' /\ MidDelete'
  BY <1>0, <1>3 DEF Deleting, Sweeping, MidDelete
<1>5. DtorSecond'
  <2>1. \A i \in 1..Len(stack') : i = 1 \/ i = 2
    BY <1>3
  <2> QED
    BY <1>0, <1>2, <1>3, <1>4, <2>1 DEF DtorSecond
<1>6. MidDeleteInv'
  BY <1>0, <1>1, <1>2, <1>3 DEF MidDeleteInv
<1>7. Pending' = Pending /\ (mgr = "alive" => at \in Pending) /\ \A i \in Pending : i \in 1..Len(vwdc)
  BY <1>0, <1>1, <1>4 DEF Pending
<1>8. LiveOwner'
  BY <1>0, <1>1, <1>4, <1>7 DEF OwnInv, LiveOwner
<1> QED
  BY <1>5, <1>6, <1>8 DEF OwnInv

LEMMA OwnMgrDtorNext ==
    ASSUME TypeOK, RangeInv, OwnInv, MgrDtorNext
    PROVE  OwnInv'
<1>0. /\ Len(stack) = 1 /\ stack # <<>> /\ stack[1] = Top /\ Top.fn = "MgrDtor"
      /\ mgr # "alive" /\ mgr' = mgr
  BY LoopIsFirst DEF MgrDtorNext, Running, LoopFn, RangeInv, TypeOK, OwnInv, DtorSecond
<1>1. PICK c \in Top.rest :
        stack' = Append([stack EXCEPT ![Len(stack)].rest = @ \ {c}], Fr("Dtor", c))
  BY DEF MgrDtorNext
<1>2. Fr("Dtor", c) \in Frame /\ Fr("Dtor", c).fn = "Dtor"
  <2>1. Top \in Frame
    BY <1>0, FrontFacts, LenProperties DEF TypeOK, Top
  <2> QED
    BY <1>1, <2>1, FrameTypes DEF UserFn, LibFn, Frame
<1>3. /\ Len(stack') = 2 /\ stack' # <<>> /\ stack'[1].fn = "MgrDtor"
      /\ stack'[2] = Fr("Dtor", c)
  <2>1. /\ Len(stack') = Len(stack) + 1 /\ stack' # <<>>
        /\ stack'[Len(stack) + 1] = Fr("Dtor", c)
        /\ \A i \in 1..Len(stack) : stack'[i].fn = stack[i].fn
    BY <1>0, <1>1, <1>2, PushAfterPick DEF TypeOK
  <2> QED
    BY <1>0, <2>1
<1>4. Deleting' /\ ~Sweeping' /\ ~MidDelete'
  BY <1>3 DEF Deleting, Sweeping, MidDelete
<1>5. DtorSecond'
  <2>1. \A i \in 1..Len(stack') : i = 1 \/ i = 2
    BY <1>3
  <2> QED
    BY <1>0, <1>2, <1>3, <1>4, <2>1 DEF DtorSecond
<1> QED
  BY <1>0, <1>4, <1>5 DEF OwnInv, MidDeleteInv, LiveOwner

\* The last frame of a delete loop returns.
LEMMA OwnLoopEnds ==
    ASSUME TypeOK, RangeInv, OwnInv, SweepEnd \/ MgrDtorEnd
    PROVE  OwnInv'
<1>0. Len(stack) = 1 /\ stack # <<>> /\ Pop
  BY LoopIsFirst DEF SweepEnd, MgrDtorEnd, Running, LoopFn, RangeInv, TypeOK
<1>1. stack' = <<>> /\ Len(stack') = 0
  BY <1>0, FrontFacts, EmptySeq DEF Pop, Below, TypeOK
<1>2. ~Deleting' /\ ~Sweeping' /\ ~MidDelete'
  BY <1>1 DEF Deleting, Sweeping, MidDelete
<1>3. DtorSecond' /\ MidDeleteInv'
  BY <1>1, <1>2 DEF DtorSecond, MidDeleteInv
<1>4. LiveOwner'
  <2>1. CASE MgrDtorEnd
    BY <2>1 DEF MgrDtorEnd, LiveOwner
  <2>2. CASE SweepEnd
    <3>1. Pending' = {}
      BY <2>2, EmptySeq DEF SweepEnd, Pending
    <3> QED
      BY <2>2, <3>1 DEF SweepEnd, OwnInv, LiveOwner
  <2> QED
    BY <2>1, <2>2
<1> QED
  BY <1>3, <1>4 DEF OwnInv

LEMMA OwnDtorReturn ==
    ASSUME TypeOK, RangeInv, OwnInv, DtorReturn
    PROVE  OwnInv'
<1>0. stack # <<>> /\ Top.fn = "Dtor" /\ Deleting /\ Len(stack) = 2 /\ Top = stack[2]
  <2>1. stack # <<>> /\ Top.fn = "Dtor"
    BY DEF DtorReturn, Running
  <2>2. Len(stack) \in 1..Len(stack)
    BY <2>1, FrontFacts DEF TypeOK
  <2> QED
    BY <2>1, <2>2 DEF OwnInv, DtorSecond, Top
<1>1. Len(stack') = 1 /\ stack' # <<>> /\ stack'[1] = stack[1]
  BY <1>0, FrontFacts DEF DtorReturn, Pop, Below, TypeOK
<1>2. /\ obj' = [obj EXCEPT ![Top.con] = "freed"] /\ UNCHANGED <<all, vwdc, end, mgr>>
      /\ at' = (IF stack[1].fn = "Sweep" THEN at + 1 ELSE at)
      /\ obj \in [Con -> {"unborn", "alive", "dying", "freed"}]
      /\ at \in Nat /\ Len(vwdc) \in Nat /\ vwdc \in Seq(Con) /\ all \in SUBSET Con
  BY LenProperties DEF DtorReturn, TypeOK
<1>3. Deleting' /\ (Sweeping' <=> Sweeping) /\ ~MidDelete' /\ (Sweeping => MidDelete)
  BY <1>0, <1>1 DEF Deleting, Sweeping, MidDelete
<1>4. DtorSecond'
  BY <1>0, <1>1, <1>2, <1>3 DEF OwnInv, DtorSecond, Deleting
<1>5. LiveOwner'
  <2> SUFFICES ASSUME mgr = "alive"
               PROVE  LiveOwner'
    BY <1>2 DEF LiveOwner
  <2>1. Sweeping /\ MidDelete /\ at' = at + 1
    BY <1>0, <1>2, <1>3 DEF OwnInv, DtorSecond, Deleting, Sweeping
  <2>2. Top.con = vwdc[at] /\ at \in 1..Len(vwdc)
    BY <1>0, <1>2, <2>1 DEF OwnInv, MidDeleteInv, RangeInv, TypeOK
  <2>3. at \in Pending /\ \A i \in Pending' : i \in Pending /\ i # at
    BY <1>2, <1>3, <2>1, <2>2 DEF Pending
  <2>4. \A i \in Pending' : vwdc[i] # vwdc[at] /\ vwdc[i] \in Con
    <3>1. \A i \in Pending : vwdc[i] \in Con
      BY <1>2, LenProperties DEF Pending
    <3> QED
      BY <2>3, <3>1 DEF OwnInv, LiveOwner
  <2>5. \A d \in all : d # vwdc[at] /\ d \in Con
    BY <1>2, <2>3 DEF OwnInv, LiveOwner
  <2> QED
    BY <1>2, <1>3, <2>2, <2>3, <2>4, <2>5 DEF OwnInv, LiveOwner
<1> QED
  BY <1>3, <1>4, <1>5 DEF OwnInv, MidDeleteInv

LEMMA OwnNext ==
    ASSUME TypeOK, RangeInv, OwnInv, [Next]_vars
    PROVE  OwnInv'
<1>0. /\ stack \in Seq(Frame) /\ LoopFirst /\ (stack # <<>> => Top \in Frame)
      /\ Len(stack) \in Nat
  BY FrontFacts, LenProperties DEF TypeOK, RangeInv, Top
\* Whatever runs above a delete loop runs above its destructor.
<1>00. ASSUME stack # <<>>, Top.fn \notin {"Sweep", "MgrDtor"} PROVE Deleting => Len(stack) >= 2
  BY <1>0, <1>00, FrontFacts DEF Deleting, Top
<1>1. ASSUME NEW c \in Con, Accept(c) PROVE OwnInv'
  BY <1>1, OwnAccept
<1>2. ASSUME NEW c \in Con, ReadCb(c) \/ EventCb(c) PROVE OwnInv'
  <2>1. \A fn \in {"ReadCb", "OnError"} : Fr(fn, c) \in Frame /\ Fr(fn, c).fn = fn
    BY FrameTypes DEF UserFn, LibFn
  <2>2. ~Deleting
    BY <1>2 DEF ReadCb, EventCb, Idle, Deleting
  <2> QED
    BY <1>0, <1>2, <2>1, <2>2, OwnPush DEF ReadCb, EventCb
<1>3. CASE UserTimer
  <2>1. Fr("UserTimer", NoCon) \in Frame /\ Fr("UserTimer", NoCon).fn = "UserTimer"
    BY FrameTypes DEF UserFn, LibFn
  <2>2. ~Deleting
    BY <1>3 DEF UserTimer, Idle, Deleting
  <2> QED
    BY <1>0, <1>3, <2>1, <2>2, OwnPush DEF UserTimer
<1>4. CASE OnTimerDelConn \/ MgrDestroy
  BY <1>4, OwnStartLoop
<1>5. CASE DeliverMsg
  <2>1. stack # <<>> /\ Top.fn = "ReadCb"
    BY <1>5 DEF DeliverMsg, Running
  <2>2. Fr("OnRecv", Top.con) \in Frame /\ Fr("OnRecv", Top.con).fn = "OnRecv"
    BY <1>0, <2>1, FrameTypes DEF UserFn, LibFn, Frame
  <2> QED
    BY <1>0, <1>00, <1>5, <2>1, <2>2, OwnPush DEF DeliverMsg
<1>6. CASE BadLength \/ ErrorReturn
  <2>1. /\ stack # <<>> /\ Pop /\ Top.fn \in {"ReadCb", "OnError"}
        /\ ConComDisConnect(Top.con) /\ UNCHANGED <<obj, at, end, mgr>>
    BY <1>6 DEF BadLength, ErrorReturn, Running
  <2>2. /\ DtorSecond' /\ (Sweeping' <=> Sweeping) /\ (MidDelete' <=> MidDelete)
        /\ MidDelete => stack'[2] = stack[2]
    BY <2>1, OwnPop
  <2> QED
    BY <2>1, <2>2, OwnDisConnect DEF OwnInv
<1>7. CASE ReadReturn \/ ForeachEnd \/ UserReturn
  <2>1. /\ stack # <<>> /\ Pop /\ Top.fn \notin {"Sweep", "MgrDtor", "Dtor"}
        /\ UNCHANGED <<obj, all, vwdc, at, end, mgr>>
    BY <1>7 DEF ReadReturn, ForeachEnd, UserReturn, Running, InUserCode, UserFn
  <2>2. /\ DtorSecond' /\ (Sweeping' <=> Sweeping) /\ (MidDelete' <=> MidDelete)
        /\ MidDelete => stack'[2] = stack[2]
    BY <2>1, OwnPop
  <2> QED
    BY <2>1, <2>2, OwnKeep DEF OwnInv
<1>8. CASE ForeachNext
  <2>1. /\ stack # <<>> /\ Top.fn = "Foreach" /\ Top \in Frame
        /\ UNCHANGED <<obj, all, vwdc, at, end, mgr>>
    BY <1>0, <1>8 DEF ForeachNext, Running
  <2>2. PICK c \in Top.rest :
          stack' = Append([stack EXCEPT ![Len(stack)].rest = @ \ {c}], Fr("ForeachCb", c))
    BY <1>8 DEF ForeachNext
  <2>3. Fr("ForeachCb", c) \in Frame /\ Fr("ForeachCb", c).fn = "ForeachCb"
    BY <2>1, <2>2, FrameTypes DEF UserFn, LibFn, Frame
  <2>4. /\ Len(stack') = Len(stack) + 1 /\ stack' # <<>>
        /\ \A i \in 1..(Len(stack) - 1) : stack'[i] = stack[i]
        /\ stack'[Len(stack) + 1] = Fr("ForeachCb", c)
        /\ \A i \in 1..Len(stack) : stack'[i].fn = stack[i].fn /\ stack'[i].con = stack[i].con
    BY <1>0, <2>1, <2>2, <2>3, PushAfterPick
  <2>5. (Deleting' <=> Deleting) /\ (Sweeping' <=> Sweeping) /\ (MidDelete' <=> MidDelete)
    BY <1>0, <1>00, <2>1, <2>4, FrontFacts DEF Deleting, Sweeping, MidDelete
  <2>6. DtorSecond'
    BY <1>0, <1>00, <2>1, <2>3, <2>4, <2>5, FrontFacts DEF OwnInv, DtorSecond, Deleting
  <2>7. MidDeleteInv'
    BY <1>0, <2>1, <2>4, <2>5 DEF OwnInv, MidDeleteInv, MidDelete
  <2>8. LiveOwner'
    <3>1. Pending' = Pending
      BY <2>1, <2>5 DEF Pending
    <3> QED
      BY <2>1, <2>5, <3>1 DEF OwnInv, LiveOwner
  <2> QED
    BY <2>6, <2>7, <2>8 DEF OwnInv
<1>9. CASE SweepNext
  BY <1>9, OwnSweepNext
<1>10. CASE MgrDtorNext
  BY <1>10, OwnMgrDtorNext
<1>11. CASE SweepEnd \/ MgrDtorEnd
  BY <1>11, OwnLoopEnds
<1>12. CASE SweepStale \/ MgrDtorStale
  BY <1>12, OwnSame DEF SweepStale, MgrDtorStale
<1>13. ASSUME NEW c \in Con, UserPostDelConn(c) \/ UserDisConnect(c) \/ UserSendOverflow(c)
       PROVE  OwnInv'
  <2>1. /\ UNCHANGED <<obj, at, end, stack, mgr>>
        /\ PostDelConn(c) \/ ConComDisConnect(c) \/ SvrConDisConnect(c)
    BY <1>13 DEF UserPostDelConn, UserDisConnect, UserSendOverflow
  <2>2. (Deleting' <=> Deleting) /\ (Sweeping' <=> Sweeping) /\ (MidDelete' <=> MidDelete)
    BY <2>1 DEF Deleting, Sweeping, MidDelete
  <2>3. MidDeleteInv' /\ LiveOwner'
    BY <2>1, <2>2, OwnPost, OwnDisConnect
  <2> QED
    BY <2>1, <2>2, <2>3 DEF OwnInv, DtorSecond
<1>14. CASE UserForeach
  <2>1. FrLoop("Foreach", all) \in Frame /\ FrLoop("Foreach", all).fn = "Foreach"
    BY FrameTypes DEF UserFn, LibFn, TypeOK
  <2>2. stack # <<>> /\ Top.fn \notin {"Sweep", "MgrDtor"}
    BY <1>14 DEF UserForeach, InUserCode, UserFn
  <2> QED
    BY <1>0, <1>00, <1>14, <2>1, <2>2, OwnPush DEF UserForeach
<1>15. CASE DtorReturn
  BY <1>15, OwnDtorReturn
<1>16. CASE UNCHANGED vars
  BY <1>16, OwnSame DEF vars
<1> QED
  BY <1>1, <1>2, <1>3, <1>4, <1>5, <1>6, <1>7, <1>8, <1>9, <1>10, <1>11, <1>12,
     <1>13, <1>14, <1>15, <1>16 DEF Next, Step, Event, Library, User

\* For every program, also one whose derived destructors post, iterate and
\* disconnect in the middle of a sweep: PostDelConn never gives an object a second
\* owner, and what the timer will delete has not been deleted.
THEOREM OwnersCorrect == Spec => []SingleOwner
<1>1. Init => TypeOK /\ RangeInv /\ OwnInv
  BY TypesInit, OwnInit
<1>2. TypeOK /\ RangeInv /\ OwnInv /\ [Next]_vars => (TypeOK /\ RangeInv /\ OwnInv)'
  BY TypesNext, OwnNext
<1>3. TypeOK /\ OwnInv => SingleOwner
  <2> SUFFICES ASSUME TypeOK, OwnInv PROVE SingleOwner
    OBVIOUS
  <2>1. CASE mgr = "alive"
    BY <2>1 DEF OwnInv, LiveOwner, SingleOwner, Doomed
  <2>2. CASE mgr # "alive"
    <3>1. Pending = {}
      BY <2>2 DEF Pending
    <3> QED
      BY <2>2, <3>1 DEF SingleOwner, Doomed
  <2> QED
    BY <2>1, <2>2
<1> QED
  BY <1>1, <1>2, <1>3, PTL DEF Spec

\* For quiet programs no object that was made is forgotten while the manager
\* lives: the part of SafetyCorrect that listener.h promises.
THEOREM NoOrphanCorrect == Spec => []NoOrphan
  BY SafetyCorrect, PTL

-----------------------------------------------------------------------------
(* The safety half of the refinement: under tidy programs every step of the   *)
(* manager, however deep in callbacks, is one step of ConLife or none.        *)

\* Nobody destroys the manager of a tidy program.
TidyInv == Tidy => mgr = "alive"

LEMMA TidyNext == TypeOK /\ RangeInv /\ QuietInv /\ TidyInv /\ [Next]_vars => TidyInv'
<1> SUFFICES ASSUME TypeOK, RangeInv, QuietInv, TidyInv, [Next]_vars, Tidy' PROVE mgr' = "alive"
  BY DEF TidyInv
<1>1. CASE UNCHANGED vars
  BY <1>1 DEF vars, TidyInv, Tidy
<1>2. CASE Next
  <2>1. Tidy /\ mgr = "alive" /\ (Event \/ Library \/ User)
    BY <1>2 DEF Next, Step, Tidy, TidyInv
  <2>2. CASE Event
    BY <2>1, <2>2 DEF Event, Accept, ReadCb, EventCb, UserTimer, OnTimerDelConn, MgrDestroy, Tidy
  <2>3. CASE Library
    <3>1. ~MgrDtorEnd
      <4> SUFFICES ASSUME MgrDtorEnd PROVE FALSE
        OBVIOUS
      <4>1. /\ stack # <<>> /\ Top.fn = "MgrDtor" /\ Len(stack) = 1 /\ stack[1] = Top
        BY LoopIsFirst DEF MgrDtorEnd, Running, LoopFn, RangeInv, TypeOK
      <4>2. mgr = "dying"
        BY <2>1, <4>1 DEF QuietInv, Inv, StackInv, Tidy, Quiet
      <4> QED
        BY <2>1, <4>2
    <3> QED
      BY <2>1, <2>3, <3>1 DEF Library, DeliverMsg, BadLength, ReadReturn, ForeachNext, ForeachEnd,
         SweepNext, SweepStale, SweepEnd, MgrDtorNext, MgrDtorStale
  <2>4. CASE User
    BY <2>1, <2>4 DEF User, UserPostDelConn, UserDisConnect, UserSendOverflow, UserForeach,
       UserReturn, ErrorReturn, DtorReturn
  <2> QED
    BY <2>1, <2>2, <2>3, <2>4
<1> QED
  BY <1>1, <1>2

LEMMA BusyPush ==
    ASSUME Tidy, prog' = prog, stack \in Seq(Frame), NEW f \in Frame, Push(f)
    PROVE  LifeBusy' = LifeBusy \cup (IF f.fn \in CallbackFn /\ f.con \in Con THEN {f.con} ELSE {})
<1>1. /\ Len(stack') = Len(stack) + 1 /\ Len(stack) \in Nat
      /\ \A i \in 1..Len(stack) : stack'[i] = stack[i]
      /\ stack'[Len(stack) + 1] = f
  BY AppendFacts, LenProperties DEF Push
<1>2. \A i \in 1..Len(stack') : i \in 1..Len(stack) \/ i = Len(stack) + 1
  BY <1>1
<1> QED
  BY <1>1, <1>2 DEF LifeBusy, Tidy

LEMMA BusyPop ==
    ASSUME Tidy, prog' = prog, stack \in Seq(Frame), stack # <<>>, Pop
    PROVE  LifeBusy' \in SUBSET LifeBusy
<1>1. /\ Len(stack') = Len(stack) - 1 /\ Len(stack) \in Nat
      /\ \A i \in 1..(Len(stack) - 1) : stack'[i] = stack[i]
  BY FrontFacts DEF Pop, Below
<1>2. \A i \in 1..Len(stack') : i \in 1..Len(stack) /\ stack'[i] = stack[i]
  BY <1>1
<1> QED
  BY <1>2 DEF LifeBusy, Tidy

\* Nothing is busy while a delete loop is the only frame, or none runs.
LEMMA BusyNone ==
    ASSUME stack = <<>> \/ (Len(stack) = 1 /\ stack[1].fn \in LoopFn)
    PROVE  LifeBusy = {}
  BY EmptySeq DEF LifeBusy, CallbackFn, LoopFn

LEMMA LifeStutters ==
    ASSUME UNCHANGED <<prog, obj, all>>, LifeBusy' = LifeBusy
    PROVE  UNCHANGED Life!lifeVars
  BY DEF Life!lifeVars, LifeSt, Tidy

LEMMA LifeLeaves ==
    ASSUME UNCHANGED <<prog, obj, all>>, LifeBusy' \in SUBSET LifeBusy
    PROVE  Life!Leave
<1>1. LifeSt' = LifeSt
  BY DEF LifeSt, Tidy
<1> QED
  BY <1>1 DEF Life!Leave

LEMMA LifeEnters ==
    ASSUME Tidy, UNCHANGED <<prog, obj, all>>, NEW c \in Con, obj[c] = "alive",
           LifeBusy' = LifeBusy \cup {c}
    PROVE  Life!Enter(c)
<1>1. LifeSt' = LifeSt
  BY DEF LifeSt, Tidy
<1>2. LifeSt[c] \in {"managed", "posted"}
  BY DEF LifeSt
<1> QED
  BY <1>1, <1>2 DEF Life!Enter

LEMMA LifePosts ==
    ASSUME Tidy, UNCHANGED <<prog, obj>>, NEW c \in Con, c \in all, obj[c] = "alive",
           all' = all \ {c}, LifeBusy' \in SUBSET LifeBusy
    PROVE  Life!Post(c)
<1>1. LifeSt[c] = "managed"
  BY DEF LifeSt
<1>2. LifeSt' = [LifeSt EXCEPT ![c] = "posted"]
  <2>1. LifeSt'[c] = "posted"
    BY DEF LifeSt, Tidy
  <2>2. \A d \in Con \ {c} : LifeSt'[d] = LifeSt[d]
    BY DEF LifeSt, Tidy
  <2>3. LifeSt = [d \in Con |-> LifeSt[d]] /\ LifeSt' = [d \in Con |-> LifeSt'[d]]
    BY DEF LifeSt
  <2> QED
    BY <2>1, <2>2, <2>3
<1> QED
  BY <1>1, <1>2 DEF Life!Post

\* What a post does, seen from ConLife.
LEMMA LifeDisConnects ==
    ASSUME Tidy, TypeOK, Inv, mgr = "alive", UNCHANGED <<prog, obj>>, NEW c,
           PostDelConn(c) \/ ConComDisConnect(c) \/ SvrConDisConnect(c),
           LifeBusy' \in SUBSET LifeBusy
    PROVE  Life!Next
<1>1. CASE all' = all
  <2>1. Life!Leave
    BY <1>1, LifeLeaves
  <2> QED
    BY <2>1 DEF Life!Next
<1>2. CASE all' # all
  <2>1. c \in all /\ all' = all \ {c}
    BY <1>2 DEF ConComDisConnect, SvrConDisConnect, PostDelConn
  <2>2. c \in Con /\ obj[c] = "alive"
    BY <2>1 DEF TypeOK, Inv, OwnerInv
  <2>3. Life!Post(c)
    BY <2>1, <2>2, LifePosts
  <2> QED
    BY <2>2, <2>3 DEF Life!Next
<1> QED
  BY <1>1, <1>2

LEMMA LifeAccept ==
    ASSUME Tidy, TypeOK, prog' = prog, NEW c \in Con, Accept(c)
    PROVE  Life!Next
<1>1. /\ stack = <<>> /\ obj[c] = "unborn" /\ obj' = [obj EXCEPT ![c] = "alive"]
      /\ all' = all \cup {c} /\ obj \in [Con -> {"unborn", "alive", "dying", "freed"}]
      /\ Push(Fr("OnConnected", c))
  BY DEF Accept, CreateConnectForListener, AcceptInit, Idle, Tidy, TypeOK
<1>2. LifeBusy = {}
  BY <1>1, BusyNone
<1>3. LifeBusy' = {c}
  <2>1. /\ Fr("OnConnected", c) \in Frame /\ Fr("OnConnected", c).fn = "OnConnected"
        /\ Fr("OnConnected", c).con = c
    BY FrameTypes DEF UserFn, LibFn
  <2> QED
    BY <1>1, <1>2, <2>1, BusyPush DEF CallbackFn, TypeOK
<1>4. LifeSt[c] = "none"
  BY <1>1 DEF LifeSt
<1>5. LifeSt' = [LifeSt EXCEPT ![c] = "managed"]
  <2>1. LifeSt'[c] = "managed"
    BY <1>1 DEF LifeSt, Tidy
  <2>2. \A d \in Con \ {c} : LifeSt'[d] = LifeSt[d]
    BY <1>1 DEF LifeSt, Tidy
  <2>3. LifeSt = [d \in Con |-> LifeSt[d]] /\ LifeSt' = [d \in Con |-> LifeSt'[d]]
    BY DEF LifeSt
  <2> QED
    BY <2>1, <2>2, <2>3
<1> QED
  BY <1>2, <1>3, <1>4, <1>5 DEF Life!Next, Life!Create

LEMMA LifeSweepNext ==
    ASSUME Tidy, TypeOK, RangeInv, Inv, prog' = prog, SweepNext
    PROVE  Life!Next
<1>1. stack # <<>> /\ Top.fn = "Sweep" /\ at <= end
  BY DEF SweepNext, Running
<1>2. Len(stack) = 1 /\ stack[1] = Top
  BY <1>1, LoopIsFirst DEF LoopFn, RangeInv, TypeOK
<1>3. /\ at \in 1..Len(vwdc) /\ Sweeping /\ mgr = "alive" /\ vwdc[at] \in Con
      /\ obj \in [Con -> {"unborn", "alive", "dying", "freed"}]
  <2>1. at \in Nat \ {0} /\ end \in Nat /\ Len(vwdc) \in Nat /\ end <= Len(vwdc)
    BY LenProperties DEF TypeOK, RangeInv
  <2> QED
    BY <1>1, <1>2, <2>1, LenProperties DEF Sweeping, Inv, SweepInv, TypeOK
<1> DEFINE c == vwdc[at]
<1>4. at \in Pending
  BY <1>3 DEF Pending, TypeOK
<1>5. obj[c] = "alive" /\ c \notin all
  BY <1>2, <1>4 DEF Inv, OwnerInv, IsDying
<1>6. obj' = [obj EXCEPT ![c] = "dying"] /\ all' = all /\ Push(Fr("Dtor", c))
  BY DEF SweepNext
<1>7. LifeBusy = {}
  BY <1>1, <1>2, BusyNone DEF LoopFn
<1>8. LifeBusy' = {}
  <2>1. Fr("Dtor", c) \in Frame /\ Fr("Dtor", c).fn = "Dtor"
    BY <1>3, FrameTypes DEF UserFn, LibFn
  <2> HIDE DEF c
  <2> QED
    BY <1>6, <1>7, <2>1, BusyPush DEF CallbackFn, TypeOK
<1> HIDE DEF c
<1>9. LifeSt[c] = "posted" /\ LifeSt' = [LifeSt EXCEPT ![c] = "gone"]
  <2>0. c \in Con
    BY <1>3 DEF c
  <2>1. LifeSt'[c] = "gone" /\ LifeSt[c] = "posted"
    BY <1>3, <1>5, <1>6, <2>0 DEF LifeSt, Tidy
  <2>2. \A d \in Con \ {c} : LifeSt'[d] = LifeSt[d]
    BY <1>3, <1>6 DEF LifeSt, Tidy
  <2>3. LifeSt = [d \in Con |-> LifeSt[d]] /\ LifeSt' = [d \in Con |-> LifeSt'[d]]
    BY DEF LifeSt
  <2> QED
    BY <2>0, <2>1, <2>2, <2>3
<1> QED
  BY <1>3, <1>7, <1>8, <1>9 DEF Life!Next, Life!Delete, c

LEMMA LifeDtorReturn ==
    ASSUME Tidy, TypeOK, RangeInv, Inv, prog' = prog, DtorReturn
    PROVE  Life!Next
<1>1. stack # <<>> /\ Top.fn = "Dtor" /\ Pop /\ all' = all
      /\ obj' = [obj EXCEPT ![Top.con] = "freed"]
      /\ obj \in [Con -> {"unborn", "alive", "dying", "freed"}]
  BY DEF DtorReturn, Running, TypeOK
<1>2. Deleting /\ Len(stack) = 2 /\ Top = stack[2]
  <2>1. Len(stack) \in 1..Len(stack)
    BY <1>1, FrontFacts DEF TypeOK
  <2> QED
    BY <1>1, <2>1 DEF Inv, StackInv, Deleting, Top
<1>3. Top.con \in Con => obj[Top.con] = "dying"
  BY <1>2 DEF Inv, OwnerInv, IsDying
<1>4. LifeSt' = LifeSt
  BY <1>1, <1>3 DEF LifeSt, Tidy
<1>5. LifeBusy' \in SUBSET LifeBusy
  BY <1>1, BusyPop DEF TypeOK
<1> QED
  BY <1>4, <1>5 DEF Life!Next, Life!Leave

LEMMA LifeStep ==
    ASSUME Tidy, TypeOK, RangeInv, Inv, mgr = "alive", Next
    PROVE  [Life!Next]_(Life!lifeVars)
<1>0. /\ prog' = prog /\ stack \in Seq(Frame) /\ (stack # <<>> => Top \in Frame)
      /\ LoopFirst
  BY FrontFacts, LenProperties DEF Next, Step, TypeOK, RangeInv, Top
<1>00. NoCon \notin Con
  BY ConAssumption
<1>1. ASSUME NEW c \in Con, Accept(c) PROVE Life!Next
  BY <1>0, <1>1, LifeAccept
<1>2. ASSUME NEW c \in Con, ReadCb(c) \/ EventCb(c) PROVE Life!Next
  <2>1. \A fn \in {"ReadCb", "OnError"} :
          Fr(fn, c) \in Frame /\ Fr(fn, c).fn = fn /\ Fr(fn, c).con = c
    BY FrameTypes DEF UserFn, LibFn
  <2>2. c \in Live /\ UNCHANGED <<obj, all>> /\ ~Deleting
        /\ \E fn \in {"ReadCb", "OnError"} : Push(Fr(fn, c))
    BY <1>2 DEF ReadCb, EventCb, Idle, Deleting, Reading, Live, OnZero
  <2>3. obj[c] = "alive"
    BY <2>2 DEF Inv, OwnerInv, IsDying
  <2>4. LifeBusy' = LifeBusy \cup {c}
    BY <1>0, <2>1, <2>2, BusyPush DEF CallbackFn
  <2>5. Life!Enter(c)
    BY <1>0, <2>2, <2>3, <2>4, LifeEnters
  <2> QED
    BY <2>5 DEF Life!Next
<1>3. CASE UserTimer \/ OnTimerDelConn \/ UserForeach
  <2>1. PICK f \in Frame : Push(f) /\ f.fn \in {"UserTimer", "Sweep", "Foreach"} /\ f.con = NoCon
    <3>1. /\ Fr("UserTimer", NoCon) \in Frame /\ Fr("UserTimer", NoCon).fn = "UserTimer"
          /\ Fr("UserTimer", NoCon).con = NoCon
          /\ FrLoop("Sweep", {}) \in Frame /\ FrLoop("Sweep", {}).fn = "Sweep"
          /\ FrLoop("Sweep", {}).con = NoCon
          /\ FrLoop("Foreach", all) \in Frame /\ FrLoop("Foreach", all).fn = "Foreach"
          /\ FrLoop("Foreach", all).con = NoCon
      BY FrameTypes DEF UserFn, LibFn, TypeOK
    <3> QED
      BY <1>3, <3>1 DEF UserTimer, OnTimerDelConn, UserForeach
  <2>2. LifeBusy' = LifeBusy
    BY <1>0, <1>00, <2>1, BusyPush
  <2>3. UNCHANGED <<obj, all>>
    BY <1>3 DEF UserTimer, OnTimerDelConn, UserForeach
  <2> QED
    BY <1>0, <2>2, <2>3, LifeStutters
<1>4. CASE DeliverMsg
  <2>1. stack # <<>> /\ Top.fn = "ReadCb" /\ Top.con \in Con /\ Top.con \in Live
        /\ Push(Fr("OnRecv", Top.con)) /\ UNCHANGED <<obj, all>>
    BY <1>4 DEF DeliverMsg, Running, TypeOK, Reading, Live, OnZero
  <2>2. ~Deleting
    BY <2>1, TopOfDeleting
  <2>3. obj[Top.con] = "alive"
    BY <2>1, <2>2 DEF Inv, OwnerInv, IsDying
  <2>4. Fr("OnRecv", Top.con) \in Frame /\ Fr("OnRecv", Top.con).fn = "OnRecv"
        /\ Fr("OnRecv", Top.con).con = Top.con
    BY <2>1, FrameTypes DEF UserFn, LibFn
  <2>5. LifeBusy' = LifeBusy \cup {Top.con}
    BY <1>0, <2>1, <2>4, BusyPush DEF CallbackFn
  <2>6. Life!Enter(Top.con)
    BY <1>0, <2>1, <2>3, <2>5, LifeEnters
  <2> QED
    BY <2>1, <2>6 DEF Life!Next
<1>5. CASE BadLength \/ ErrorReturn
  <2>1. stack # <<>> /\ Pop /\ ConComDisConnect(Top.con) /\ obj' = obj
    BY <1>5 DEF BadLength, ErrorReturn, Running
  <2>2. LifeBusy' \in SUBSET LifeBusy
    BY <1>0, <2>1, BusyPop
  <2> QED
    BY <1>0, <2>1, <2>2, LifeDisConnects
<1>6. CASE ReadReturn \/ ForeachEnd \/ UserReturn \/ SweepEnd
  <2>1. stack # <<>> /\ Pop /\ UNCHANGED <<obj, all>>
    BY <1>6 DEF ReadReturn, ForeachEnd, UserReturn, SweepEnd, Running, InUserCode
  <2>2. Life!Leave
    BY <1>0, <2>1, BusyPop, LifeLeaves
  <2> QED
    BY <2>2 DEF Life!Next
<1>7. CASE ForeachNext
  <2>1. stack # <<>> /\ Top.fn = "Foreach" /\ UNCHANGED <<obj, all>>
    BY <1>7 DEF ForeachNext, Running
  <2>2. PICK c \in Top.rest :
          stack' = Append([stack EXCEPT ![Len(stack)].rest = @ \ {c}], Fr("ForeachCb", c))
    BY <1>7 DEF ForeachNext
  <2>3. Len(stack) \in Nat /\ Len(stack) > 0 /\ c \in Con
    BY <1>0, <2>1, <2>2, FrontFacts DEF Frame
  <2>4. obj[c] = "alive"
    BY <2>2, <2>3 DEF Inv, FrameInv, Top
  <2>5. Fr("ForeachCb", c) \in Frame /\ Fr("ForeachCb", c).fn = "ForeachCb"
        /\ Fr("ForeachCb", c).con = c
    BY <2>3, FrameTypes DEF UserFn, LibFn
  <2>6. /\ Len(stack') = Len(stack) + 1
        /\ stack'[Len(stack) + 1] = Fr("ForeachCb", c)
        /\ \A i \in 1..Len(stack) : stack'[i].fn = stack[i].fn /\ stack'[i].con = stack[i].con
    BY <1>0, <2>1, <2>2, <2>5, PushAfterPick
  <2>7. LifeBusy' = LifeBusy \cup {c}
    <3>1. \A i \in 1..Len(stack') : i \in 1..Len(stack) \/ i = Len(stack) + 1
      BY <2>3, <2>6
    <3>2. \A i \in 1..Len(stack) : i \in 1..Len(stack')
      BY <2>3, <2>6
    <3>3. Len(stack) + 1 \in 1..Len(stack')
      BY <2>3, <2>6
    <3> QED
      BY <1>0, <2>3, <2>5, <2>6, <3>1, <3>2, <3>3 DEF LifeBusy, Tidy, CallbackFn
  <2>8. Life!Enter(c)
    BY <1>0, <2>1, <2>3, <2>4, <2>7, LifeEnters
  <2> QED
    BY <2>3, <2>8 DEF Life!Next
<1>8. CASE SweepNext
  BY <1>0, <1>8, LifeSweepNext
<1>9. CASE SweepStale \/ MgrDtorStale
  <2>1. LifeBusy' = LifeBusy
    BY <1>0, <1>9 DEF SweepStale, MgrDtorStale, LifeBusy, Tidy
  <2> QED
    BY <1>0, <1>9, <2>1, LifeStutters DEF SweepStale, MgrDtorStale
<1>10. CASE MgrDestroy \/ MgrDtorNext \/ MgrDtorEnd
  <2>1. CASE MgrDestroy
    BY <2>1 DEF MgrDestroy, Tidy
  <2>2. CASE MgrDtorNext \/ MgrDtorEnd
    <3>1. stack # <<>> /\ Top.fn = "MgrDtor"
      BY <2>2 DEF MgrDtorNext, MgrDtorEnd, Running
    <3> QED
      BY <1>0, <3>1, LoopIsFirst DEF LoopFn, Inv, StackInv
  <2> QED
    BY <1>10, <2>1, <2>2
<1>11. ASSUME NEW c \in Con, UserPostDelConn(c) \/ UserDisConnect(c) \/ UserSendOverflow(c)
       PROVE  Life!Next
  <2>1. /\ UNCHANGED <<obj, stack>>
        /\ PostDelConn(c) \/ ConComDisConnect(c) \/ SvrConDisConnect(c)
    BY <1>11 DEF UserPostDelConn, UserDisConnect, UserSendOverflow
  <2>2. LifeBusy' = LifeBusy
    BY <1>0, <2>1 DEF LifeBusy, Tidy
  <2> QED
    BY <1>0, <2>1, <2>2, LifeDisConnects
<1>12. CASE DtorReturn
  BY <1>0, <1>12, LifeDtorReturn
<1> QED
  BY <1>1, <1>2, <1>3, <1>4, <1>5, <1>6, <1>7, <1>8, <1>9, <1>10, <1>11, <1>12
     DEF Next, Step, Event, Library, User

LEMMA LifeInit == Init => Life!Init
<1> SUFFICES ASSUME Init PROVE Life!Init
  OBVIOUS
<1>1. LifeBusy = {}
  BY BusyNone DEF Init
<1>2. LifeSt = [c \in Con |-> "none"]
  BY DEF Init, LifeSt
<1> QED
  BY <1>1, <1>2 DEF Life!Init

\* The manager implements ConLife (listener.h): an object is managed from its
\* creation until it is posted, posted once, and deleted only after that, once,
\* at a moment when no callback of any connection is running.
THEOREM LifeCorrect == Spec => Life!SafeSpec
<1>1. Init => TypeOK /\ RangeInv /\ QuietInv /\ TidyInv
  BY TypesInit, InvInit DEF QuietInv, TidyInv, Init
<1>2. TypeOK /\ RangeInv /\ QuietInv /\ TidyInv /\ [Next]_vars
        => (TypeOK /\ RangeInv /\ QuietInv /\ TidyInv)'
  <2> SUFFICES ASSUME TypeOK, RangeInv, QuietInv, TidyInv, [Next]_vars
               PROVE  TypeOK' /\ RangeInv' /\ QuietInv' /\ TidyInv'
    OBVIOUS
  <2>1. Quiet' <=> Quiet
    BY DEF Next, Step, vars, Quiet
  <2> QED
    BY <2>1, TypesNext, InvNext, TidyNext DEF QuietInv
<1>3. Init => Life!Init
  BY LifeInit
<1>4. TypeOK /\ RangeInv /\ QuietInv /\ TidyInv /\ [Next]_vars => [Life!Next]_(Life!lifeVars)
  <2> SUFFICES ASSUME TypeOK, RangeInv, QuietInv, TidyInv, [Next]_vars
               PROVE  [Life!Next]_(Life!lifeVars)
    OBVIOUS
  <2>1. CASE UNCHANGED vars
    <3>1. LifeBusy' = LifeBusy
      BY <2>1 DEF vars, LifeBusy, Tidy
    <3> QED
      BY <2>1, <3>1, LifeStutters DEF vars
  <2>2. CASE Next /\ Tidy
    BY <2>2, LifeStep DEF QuietInv, TidyInv, Quiet, Tidy
  <2>3. CASE Next /\ ~Tidy
    <3>1. prog' = prog
      BY <2>3 DEF Next, Step
    <3>2. LifeSt' = LifeSt /\ LifeBusy' = LifeBusy
      BY <2>3, <3>1 DEF LifeSt, LifeBusy, Tidy
    <3> QED
      BY <3>2 DEF Life!lifeVars
  <2> QED
    BY <2>1, <2>2, <2>3
<1> QED
  BY <1>1, <1>2, <1>3, <1>4, PTL DEF Spec, Life!SafeSpec
=============================================================================
