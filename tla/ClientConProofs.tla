--------------------------- MODULE ClientConProofs ---------------------------
(***************************************************************************)
(* Proofs about ClientCon, for any number of bufferevents, any bound on    *)
(* the stack, any lengths, streams and programs.                           *)
(***************************************************************************)
EXTENDS ClientCon, DataLemmas

-----------------------------------------------------------------------------
(* The invariants. *)

\* Frames that events start, and the library frames that use what Top says.
Base   == {"Read", "AfterRecv", "AfterRaw", "Program", "OnConnected"}
Reader == {"Read", "AfterRecv", "AfterRaw"}

\* What runs above what: nothing above the read loop, OnRecv above AfterRecv.
LoopInv ==
    /\ \A i \in 1..Len(stack) : stack[i].fn \in Base => i = 1
    /\ \A i \in 1..Len(stack) : stack[i].fn \in Reader => stack[i].bev \in Bev
    /\ \A i \in 1..Len(stack) : stack[i].fn = "OnRecv" => i = 2 /\ stack[1].fn = "AfterRecv"
    /\ stack # <<>> /\ stack[1].fn = "Read" => Len(stack) = 1
    /\ Len(stack) >= 2 /\ stack[1].fn = "AfterRecv" => stack[2].fn = "OnRecv"

\* Above a callback that may not connect are only the OnDisconnected of its
\* disconnects.
NestInv ==
    /\ ~Fails => \A i \in 1..Len(stack) :
         stack[i].fn # "Connect" /\ (stack[i].fn = "OnError" => i = 1)
    /\ stack # <<>> /\ stack[1].fn = "AfterRecv" /\ (~ReconnectsInRecv \/ ~Fails) =>
         \A i \in 3..Len(stack) : stack[i].fn = "OnDisconnected" /\ Closes("OnRecv")
    /\ stack # <<>> /\ stack[1].fn = "OnError" /\ ~Fails =>
         \A i \in 2..Len(stack) : stack[i].fn = "OnDisconnected" /\ Closes("OnError")

\* A bufferevent that works is the current one; what was told of it follows
\* its life; a deleted object has none.
BevInv ==
    /\ \A b \in Bev : bev[b] \in {"connecting", "open"} => buf = b
    /\ ~Fails => \A b \in Bev : bev[b] \in {"connecting", "open", "failed", "down"} => buf = b
    /\ \A b \in Bev : bev[b] \in {"none", "connecting"} => told[b] = "nothing"
    /\ \A b \in Bev : bev[b] = "open" => told[b] = "connected"
    /\ buf # NoBev => told[buf] # "disconnected"
    /\ obj = "freed" => buf = NoBev

\* What a running read loop and conn_event_callback rely on.
RunInv ==
    /\ stack # <<>> /\ stack[1].fn = "Read" /\ ~ReconnectsInRecv =>
         told[stack[1].bev] = "connected"
    /\ stack # <<>> /\ stack[1].fn = "AfterRecv" =>
         /\ stack[1].n =< avail[stack[1].bev]
         /\ ~ReconnectsInRecv /\ obj = "alive" /\ fd # 0 => told[stack[1].bev] = "connected"
    /\ stack # <<>> /\ stack[1].fn = "OnError" /\ ~Fails /\ ~Leads("OnError", "Connect") =>
         buf \in {NoBev, stack[1].bev}

\* A program that deletes nowhere below library code.
DeleteInv ==
    ~DeletesBelowLibrary /\ ~Fails =>
        /\ heap = "sound"
        /\ obj = "freed" /\ stack # <<>> => stack[1].fn \notin {"Read", "AfterRecv", "OnError"}

\* TypeOK in parts.
ObjOk ==
    /\ prog \in Programs
    /\ obj \in {"alive", "freed"} /\ heap \in {"sound", "corrupt"}
    /\ buf \in Bev \cup {NoBev} /\ fd \in {0, 1} /\ up \in {"yes", "no"} /\ raw \in {"yes", "no"}
BevOk ==
    /\ bev \in [Bev -> {"none", "connecting", "open", "failed", "down", "free"}]
    /\ told \in [Bev -> {"nothing", "connected", "disconnected"}]
IoOk ==
    /\ mark \in [Bev -> Mark] /\ stream \in [Bev -> Streams \cup {<<>>}]
    /\ pos \in [Bev -> Nat] /\ avail \in [Bev -> Nat]
StackOk == stack \in Seq(Frame)

IInv == /\ ObjOk /\ BevOk /\ IoOk /\ StackOk /\ rpl \in Length
        /\ LoopInv /\ NestInv /\ BevInv /\ RunInv /\ DeleteInv

LEMMA IInvTypes == IInv => TypeOK
  BY DEF IInv, ObjOk, BevOk, IoOk, StackOk, TypeOK

-----------------------------------------------------------------------------
(* What the stack operations do to the shape of the stack. *)

LEMMA ProgSame ==
    ASSUME prog' = prog
    PROVE  /\ Fails' <=> Fails
           /\ ReconnectsInRecv' <=> ReconnectsInRecv
           /\ DeletesBelowLibrary' <=> DeletesBelowLibrary
           /\ \A fn : Closes(fn)' <=> Closes(fn)
           /\ \A fn, op : Leads(fn, op)' <=> Leads(fn, op)
  BY DEF Fails, ReconnectsInRecv, DeletesBelowLibrary, Closes, Leads, Can

LEMMA FrTypes ==
    \A fn \in UserFn \cup LibFn, b \in Bev \cup {NoBev} :
        Fr(fn, b) \in Frame /\ Fr(fn, b).fn = fn /\ Fr(fn, b).bev = b /\ Fr(fn, b).n = 0
  BY LenAssumption DEF Fr, Frame

LEMMA TopFacts ==
    ASSUME StackOk, stack # <<>>
    PROVE  /\ Len(stack) \in Nat /\ Len(stack) >= 1 /\ Len(stack) \in 1..Len(stack)
           /\ Top = stack[Len(stack)] /\ Top \in Frame
           /\ stack[1] \in Frame
           /\ Top.fn \in UserFn \cup LibFn /\ Top.bev \in Bev \cup {NoBev}
<1>1. /\ Len(stack) \in Nat /\ Len(stack) >= 1 /\ Len(stack) \in 1..Len(stack) /\ 1 \in 1..Len(stack)
  BY FrontFacts DEF StackOk
<1>2. stack[Len(stack)] \in Frame /\ stack[1] \in Frame
  BY <1>1, LenProperties DEF StackOk
<1> QED
  BY <1>1, <1>2 DEF Top, Frame

\* The stack does not change, or its frame returns.
LEMMA StackSame ==
    ASSUME IInv, prog' = prog, stack' = stack
    PROVE  StackOk' /\ LoopInv' /\ NestInv'
  BY ProgSame DEF IInv, StackOk, LoopInv, NestInv

LEMMA StackPop ==
    ASSUME IInv, prog' = prog, stack # <<>>, Pop
    PROVE  /\ StackOk' /\ LoopInv' /\ NestInv'
           /\ stack' # <<>> => stack'[1] = stack[1]
<1>1. /\ stack' \in Seq(Frame) /\ Len(stack') = Len(stack) - 1 /\ Len(stack) \in Nat /\ Len(stack) > 0
      /\ \A i \in 1..(Len(stack) - 1) : stack'[i] = stack[i]
      /\ stack' = <<>> <=> Len(stack) = 1
  BY FrontFacts DEF Pop, Below, IInv, StackOk
<1>2. \A i \in 1..Len(stack') : i \in 1..Len(stack) /\ stack'[i] = stack[i]
  BY <1>1
<1>3. stack' # <<>> => stack'[1] = stack[1] /\ Len(stack) >= 2
  BY <1>1, <1>2
<1>4. LoopInv'
  <2>1. \A i \in 1..Len(stack') : stack'[i].fn \in Base => i = 1
    BY <1>2 DEF IInv, LoopInv
  <2>5. \A i \in 1..Len(stack') : stack'[i].fn \in Reader => stack'[i].bev \in Bev
    BY <1>2 DEF IInv, LoopInv
  <2>2. \A i \in 1..Len(stack') : stack'[i].fn = "OnRecv" => i = 2 /\ stack'[1].fn = "AfterRecv"
    BY <1>2 DEF IInv, LoopInv
  <2>3. stack' # <<>> /\ stack'[1].fn = "Read" => Len(stack') = 1
    BY <1>1, <1>3 DEF IInv, LoopInv
  <2>4. Len(stack') >= 2 /\ stack'[1].fn = "AfterRecv" => stack'[2].fn = "OnRecv"
    BY <1>1, <1>2, <1>3 DEF IInv, LoopInv
  <2> QED
    BY <2>1, <2>2, <2>3, <2>4, <2>5 DEF LoopInv
<1>5. NestInv'
  <2>1. \A i \in 2..Len(stack') : i \in 2..Len(stack) /\ stack'[i] = stack[i]
    BY <1>1, <1>2
  <2>2. \A i \in 3..Len(stack') : i \in 3..Len(stack) /\ stack'[i] = stack[i]
    BY <1>1, <1>2
  <2> QED
    BY <1>2, <1>3, <2>1, <2>2, ProgSame DEF IInv, NestInv
<1> QED
  BY <1>1, <1>3, <1>4, <1>5 DEF StackOk

\* A callback that the loop runs, and the read loop with what it calls.
LEMMA StackOne ==
    ASSUME IInv, prog' = prog, NEW f \in Frame, stack' = <<f>>, f.fn \notin {"OnRecv", "Connect"},
           f.fn \in Reader => f.bev \in Bev
    PROVE  StackOk' /\ LoopInv' /\ NestInv' /\ stack' # <<>> /\ stack'[1] = f /\ Len(stack') = 1
<1>1. stack' \in Seq(Frame) /\ Len(stack') = 1 /\ stack'[1] = f /\ stack' # <<>>
  BY PairFacts
<1>2. \A i \in 1..Len(stack') : i = 1 /\ stack'[i] = f
  BY <1>1
<1>3. LoopInv'
  BY <1>1, <1>2 DEF LoopInv
<1>4. NestInv'
  BY <1>1, <1>2 DEF NestInv
<1> QED
  BY <1>1, <1>3, <1>4 DEF StackOk

LEMMA StackTwo ==
    ASSUME IInv, prog' = prog, NEW f \in Frame, NEW g \in Frame, stack' = <<f, g>>, f.bev \in Bev,
           \/ f.fn = "AfterRaw" /\ g.fn = "OnRawRecv"
           \/ f.fn = "AfterRecv" /\ g.fn = "OnRecv"
    PROVE  StackOk' /\ LoopInv' /\ NestInv' /\ stack' # <<>> /\ stack'[1] = f /\ Len(stack') = 2
<1>1. /\ stack' \in Seq(Frame) /\ Len(stack') = 2 /\ stack'[1] = f /\ stack'[2] = g /\ stack' # <<>>
  BY PairFacts
<1>2. \A i \in 1..Len(stack') : (i = 1 /\ stack'[i] = f) \/ (i = 2 /\ stack'[i] = g)
  BY <1>1
<1>3. LoopInv'
  BY <1>1, <1>2 DEF LoopInv, Base, Reader
<1>4. NestInv'
  BY <1>1, <1>2 DEF NestInv
<1> QED
  BY <1>1, <1>3, <1>4 DEF StackOk

\* User code disconnects: OnDisconnected runs above it.
LEMMA StackPushDisc ==
    ASSUME IInv, prog' = prog, InUserCode, Closes(Top.fn), NEW b \in Bev \cup {NoBev},
           stack' = Append(stack, Fr("OnDisconnected", b))
    PROVE  StackOk' /\ LoopInv' /\ NestInv' /\ stack # <<>> /\ stack'[1] = stack[1] /\ stack' # <<>>
<1> DEFINE f == Fr("OnDisconnected", b)
<1>1. f \in Frame /\ f.fn = "OnDisconnected"
  BY FrTypes DEF UserFn
<1>2. /\ stack' \in Seq(Frame) /\ Len(stack') = Len(stack) + 1 /\ stack' # <<>>
      /\ \A i \in 1..Len(stack) : stack'[i] = stack[i]
      /\ stack'[Len(stack) + 1] = f
  BY <1>1, AppendFacts DEF IInv, StackOk
<1> HIDE DEF f
<1>3. stack # <<>> /\ Top.fn \in UserFn /\ Len(stack) \in Nat /\ Len(stack) >= 1 /\ Top = stack[Len(stack)]
      /\ Len(stack) \in 1..Len(stack)
  BY TopFacts DEF InUserCode, IInv
<1>0. \A n \in Nat : n >= 1 => n = 1 \/ n = 2 \/ n >= 3
  OBVIOUS
<1>4. stack'[1] = stack[1]
  BY <1>2, <1>3
<1>5. \A i \in 1..Len(stack') : (i \in 1..Len(stack) /\ stack'[i] = stack[i]) \/ stack'[i].fn = "OnDisconnected"
  BY <1>1, <1>2, <1>3
<1>6. LoopInv'
  <2>1. stack[1].fn = "Read" => FALSE
    BY <1>3 DEF IInv, LoopInv, UserFn
  <2>2. Len(stack') >= 2 /\ stack[1].fn = "AfterRecv" => stack'[2].fn = "OnRecv"
    <3>1. stack[1].fn = "AfterRecv" => Len(stack) >= 2
      BY <1>3 DEF UserFn
    <3>2. Len(stack) >= 2 => stack'[2] = stack[2]
      BY <1>2, <1>3
    <3> QED
      BY <3>1, <3>2 DEF IInv, LoopInv
  <2> QED
    BY <1>4, <1>5, <2>1, <2>2 DEF IInv, LoopInv, Base, Reader
<1>7. NestInv'
  <2>1. ~Fails => \A i \in 1..Len(stack') :
           stack'[i].fn # "Connect" /\ (stack'[i].fn = "OnError" => i = 1)
    BY <1>5 DEF IInv, NestInv
  <2>2. ASSUME stack[1].fn = "AfterRecv", ~ReconnectsInRecv \/ ~Fails
        PROVE  \A i \in 3..Len(stack') : stack'[i].fn = "OnDisconnected" /\ Closes("OnRecv")
    <3>1. Closes("OnRecv")
      <4>1. CASE Len(stack) = 1
        BY <1>3, <2>2, <4>1 DEF UserFn
      <4>2. CASE Len(stack) = 2
        BY <1>3, <2>2, <4>2 DEF IInv, LoopInv
      <4>3. CASE Len(stack) >= 3
        <5>1. Len(stack) \in 3..Len(stack)
          BY <1>3, <4>3
        <5>2. \A i \in 3..Len(stack) : stack[i].fn = "OnDisconnected" /\ Closes("OnRecv")
          BY <2>2, <1>3 DEF IInv, NestInv
        <5> QED
          BY <5>1, <5>2
      <4>4. Len(stack) = 1 \/ Len(stack) = 2 \/ Len(stack) >= 3
        BY <1>0, <1>3
      <4> QED
        BY <4>1, <4>2, <4>3, <4>4
    <3>2. \A i \in 3..Len(stack') : (i \in 3..Len(stack) /\ stack'[i] = stack[i]) \/ stack'[i].fn = "OnDisconnected"
      BY <1>1, <1>2, <1>3
    <3> QED
      BY <1>3, <2>2, <3>1, <3>2 DEF IInv, NestInv
  <2>3. ASSUME stack[1].fn = "OnError", ~Fails
        PROVE  \A i \in 2..Len(stack') : stack'[i].fn = "OnDisconnected" /\ Closes("OnError")
    <3>1. Closes("OnError")
      <4>1. CASE Len(stack) = 1
        BY <1>3, <2>3, <4>1
      <4>2. CASE Len(stack) >= 2
        <5>1. Len(stack) \in 2..Len(stack)
          BY <1>3, <4>2
        <5>2. \A i \in 2..Len(stack) : stack[i].fn = "OnDisconnected" /\ Closes("OnError")
          BY <2>3, <1>3 DEF IInv, NestInv
        <5> QED
          BY <5>1, <5>2
      <4>3. Len(stack) = 1 \/ Len(stack) >= 2
        <5>1. Len(stack) = 1 \/ Len(stack) = 2 \/ Len(stack) >= 3
          BY <1>0, <1>3
        <5>2. Len(stack) = 2 => Len(stack) >= 2
          OBVIOUS
        <5>3. Len(stack) \in Nat /\ Len(stack) >= 3 => Len(stack) >= 2
          OBVIOUS
        <5> QED
          BY <1>3, <5>1, <5>2, <5>3
      <4> QED
        BY <4>1, <4>2, <4>3
    <3>2. \A i \in 2..Len(stack') : (i \in 2..Len(stack) /\ stack'[i] = stack[i]) \/ stack'[i].fn = "OnDisconnected"
      BY <1>1, <1>2, <1>3
    <3> QED
      BY <1>3, <2>3, <3>1, <3>2 DEF IInv, NestInv
  <2> QED
    BY <1>4, <2>1, <2>2, <2>3, ProgSame DEF NestInv
<1> QED
  BY <1>2, <1>3, <1>4, <1>6, <1>7 DEF StackOk

LEMMA DepthCases ==
    \A n \in Nat : n >= 1 => /\ (n = 1 \/ n = 2 \/ n \in 3..n)
                           /\ (n = 1 \/ n \in 2..n)
  OBVIOUS

\* What OnRecv, or an OnDisconnected above it, does is what OnRecv leads to.
LEMMA UnderRecv ==
    ASSUME IInv, NEW op, Doing(op), stack[1].fn = "AfterRecv", ~ReconnectsInRecv \/ ~Fails
    PROVE  Leads("OnRecv", op)
<1>0. Can(Top.fn, op)
  BY DEF Doing, Can
<1>1. stack # <<>> /\ Top.fn \in UserFn /\ Len(stack) \in Nat /\ Len(stack) >= 1 /\ Top = stack[Len(stack)]
  BY TopFacts DEF Doing, InUserCode, IInv
<1>2. Len(stack) = 1 \/ Len(stack) = 2 \/ Len(stack) \in 3..Len(stack)
  <2>1. Len(stack) \in Nat /\ Len(stack) >= 1
    BY <1>1
  <2> QED
    BY <2>1, DepthCases
<1>3. CASE Len(stack) = 1
  BY <1>1, <1>3 DEF UserFn
<1>4. CASE Len(stack) = 2
  <2>1. Top.fn = "OnRecv"
    BY <1>1, <1>4 DEF IInv, LoopInv
  <2> QED
    BY <1>0, <2>1 DEF Leads
<1>5. CASE Len(stack) \in 3..Len(stack)
  <2>1. \A i \in 3..Len(stack) : stack[i].fn = "OnDisconnected" /\ Closes("OnRecv")
    BY <1>1 DEF IInv, NestInv
  <2>2. Top.fn = "OnDisconnected" /\ Closes("OnRecv")
    BY <1>1, <1>5, <2>1
  <2> QED
    BY <1>0, <2>2 DEF Leads
<1> QED
  BY <1>2, <1>3, <1>4, <1>5

LEMMA UnderError ==
    ASSUME IInv, NEW op, Doing(op), stack[1].fn = "OnError", ~Fails
    PROVE  Leads("OnError", op)
<1>0. Can(Top.fn, op)
  BY DEF Doing, Can
<1>1. stack # <<>> /\ Top.fn \in UserFn /\ Len(stack) \in Nat /\ Len(stack) >= 1 /\ Top = stack[Len(stack)]
  BY TopFacts DEF Doing, InUserCode, IInv
<1>2. Len(stack) = 1 \/ Len(stack) \in 2..Len(stack)
  BY <1>1, DepthCases
<1>3. CASE Len(stack) = 1
  <2>1. Top.fn = "OnError"
    BY <1>1, <1>3
  <2> QED
    BY <1>0, <2>1 DEF Leads
<1>4. CASE Len(stack) \in 2..Len(stack)
  <2>1. \A i \in 2..Len(stack) : stack[i].fn = "OnDisconnected" /\ Closes("OnError")
    BY <1>1 DEF IInv, NestInv
  <2>2. Top.fn = "OnDisconnected" /\ Closes("OnError")
    BY <1>1, <1>4, <2>1
  <2> QED
    BY <1>0, <2>2 DEF Leads
<1> QED
  BY <1>2, <1>3, <1>4

\* User code makes a connect that fails at once.
LEMMA StackPushFails ==
    ASSUME IInv, prog' = prog, Doing("Connect"), Fails, NEW b \in Bev,
           stack' = stack \o <<Fr("Connect", b), Fr("OnError", b)>>
    PROVE  StackOk' /\ LoopInv' /\ NestInv' /\ stack # <<>> /\ stack'[1] = stack[1] /\ stack' # <<>>
<1> DEFINE f == Fr("Connect", b)
           g == Fr("OnError", b)
<1>1. f \in Frame /\ g \in Frame /\ f.fn = "Connect" /\ g.fn = "OnError"
  BY FrTypes DEF UserFn, LibFn
<1>2. /\ stack' \in Seq(Frame) /\ Len(stack) \in Nat /\ Len(stack') = Len(stack) + 2
      /\ \A i \in 1..Len(stack) : stack'[i] = stack[i]
      /\ stack'[Len(stack) + 1] = f /\ stack'[Len(stack) + 2] = g
  BY <1>1, TwoFacts DEF IInv, StackOk
<1> HIDE DEF f, g
<1>3. /\ stack # <<>> /\ Top.fn \in UserFn /\ Len(stack) >= 1 /\ Top = stack[Len(stack)]
      /\ Len(stack) \in 1..Len(stack)
  BY TopFacts DEF Doing, InUserCode, IInv
<1>4. stack'[1] = stack[1] /\ stack' # <<>>
  BY <1>2, <1>3, EmptySeq
<1>5. \A i \in 1..Len(stack') :
        (i \in 1..Len(stack) /\ stack'[i] = stack[i]) \/ stack'[i].fn \in {"Connect", "OnError"}
  BY <1>1, <1>2, <1>3
<1>6. LoopInv'
  <2>1. stack[1].fn = "Read" => FALSE
    BY <1>3 DEF IInv, LoopInv, UserFn
  <2>2. stack[1].fn = "AfterRecv" => stack'[2].fn = "OnRecv"
    <3>1. stack[1].fn = "AfterRecv" => Len(stack) >= 2
      BY <1>3, <1>2 DEF UserFn
    <3>2. Len(stack) >= 2 => stack'[2] = stack[2]
      BY <1>2, <1>3
    <3> QED
      BY <1>3, <3>1, <3>2 DEF IInv, LoopInv
  <2>3. \A i \in 1..Len(stack') : stack'[i].fn \in Base \/ stack'[i].fn = "OnRecv" =>
           i \in 1..Len(stack) /\ stack'[i] = stack[i]
    BY <1>5 DEF Base
  <2>4. \A i \in 1..Len(stack') : stack'[i].fn \in Reader => stack'[i].fn \in Base
    BY DEF Base, Reader
  <2>5. \A i \in 1..Len(stack') : stack'[i].fn \in Base => i = 1
    BY <2>3 DEF IInv, LoopInv
  <2>6. \A i \in 1..Len(stack') : stack'[i].fn \in Reader => stack'[i].bev \in Bev
    BY <2>3, <2>4 DEF IInv, LoopInv
  <2>7. \A i \in 1..Len(stack') : stack'[i].fn = "OnRecv" => i = 2 /\ stack'[1].fn = "AfterRecv"
    BY <1>4, <2>3 DEF IInv, LoopInv
  <2>8. stack' # <<>> /\ stack'[1].fn = "Read" => Len(stack') = 1
    BY <1>4, <2>1
  <2>9. Len(stack') >= 2 /\ stack'[1].fn = "AfterRecv" => stack'[2].fn = "OnRecv"
    BY <1>4, <2>2
  <2> QED
    BY <2>5, <2>6, <2>7, <2>8, <2>9 DEF LoopInv
<1>7. NestInv'
  <2>1. stack[1].fn = "AfterRecv" => ReconnectsInRecv
    <3>1. ASSUME stack[1].fn = "AfterRecv", ~ReconnectsInRecv
          PROVE  Leads("OnRecv", "Connect")
      BY <3>1, UnderRecv
    <3> QED
      BY <3>1 DEF ReconnectsInRecv
  <2> QED
    BY <1>4, <2>1, ProgSame DEF NestInv
<1> QED
  BY <1>2, <1>3, <1>4, <1>6, <1>7 DEF StackOk

\* OnError returns and conn_event_callback disconnects: OnDisconnected runs in its place.
LEMMA StackErrorDisc ==
    ASSUME IInv, prog' = prog, Running("OnError"), NEW b \in Bev \cup {NoBev},
           Become(Fr("OnDisconnected", b))
    PROVE  /\ StackOk' /\ LoopInv' /\ NestInv' /\ stack' # <<>> /\ Len(stack') = Len(stack)
           /\ IF Len(stack) = 1 THEN stack'[1].fn = "OnDisconnected"
                                ELSE stack'[1] = stack[1] /\ Fails
<1> DEFINE f == Fr("OnDisconnected", b)
<1>1. f \in Frame /\ f.fn = "OnDisconnected"
  BY FrTypes DEF UserFn
<1>2. /\ Below \in Seq(Frame) /\ Len(Below) = Len(stack) - 1
      /\ Len(stack) \in Nat /\ Len(stack) > 0
      /\ \A i \in 1..(Len(stack) - 1) : Below[i] = stack[i]
  BY FrontFacts DEF Below, Running, IInv, StackOk
<1>3. /\ stack' \in Seq(Frame) /\ Len(stack') = Len(Below) + 1 /\ stack' # <<>>
      /\ \A i \in 1..Len(Below) : stack'[i] = Below[i]
      /\ stack'[Len(Below) + 1] = f
  BY <1>1, <1>2, AppendFacts DEF Become
<1> HIDE DEF f
<1>4. /\ Len(stack') = Len(stack) /\ stack'[Len(stack)] = f
      /\ \A i \in 1..(Len(stack) - 1) : stack'[i] = stack[i]
  BY <1>2, <1>3
<1>5. stack # <<>> /\ stack[Len(stack)].fn = "OnError" /\ Len(stack) \in 1..Len(stack)
  BY <1>2 DEF Running, Top
<1>6. CASE Len(stack) = 1
  <2>1. \A i \in 1..Len(stack') : i = 1 /\ stack'[i] = f
    BY <1>4, <1>6
  <2>2. LoopInv' /\ NestInv'
    BY <1>1, <1>3, <1>4, <1>6, <2>1 DEF LoopInv, NestInv, Base, Reader
  <2> QED
    BY <1>1, <1>3, <1>4, <1>6, <2>2 DEF StackOk
<1>7. CASE Len(stack) # 1
  <2>1. Len(stack) >= 2 /\ stack'[1] = stack[1]
    BY <1>2, <1>4, <1>7
  <2>2. Fails
    BY <1>5, <1>7 DEF IInv, NestInv
  <2>3. \A i \in 1..Len(stack') : (i \in 1..Len(stack) /\ stack'[i] = stack[i]) \/ stack'[i].fn = "OnDisconnected"
    BY <1>1, <1>2, <1>4
  <2>4. stack[1].fn # "Read"
    BY <1>5, <1>7 DEF IInv, LoopInv
  <2>5. stack[1].fn = "AfterRecv" => Len(stack) >= 3
    <3>1. stack[1].fn = "AfterRecv" /\ Len(stack) = 2 => FALSE
      BY <1>5 DEF IInv, LoopInv
    <3> QED
      BY <1>2, <2>1, <3>1
  <2>6. stack[1].fn = "AfterRecv" => ReconnectsInRecv
    <3>1. ASSUME stack[1].fn = "AfterRecv", ~ReconnectsInRecv PROVE FALSE
      <4>1. Len(stack) \in 3..Len(stack)
        BY <1>2, <2>5, <3>1
      <4>2. \A i \in 3..Len(stack) : stack[i].fn = "OnDisconnected"
        BY <1>5, <3>1 DEF IInv, NestInv
      <4> QED
        BY <1>5, <4>1, <4>2
    <3> QED
      BY <3>1
  <2>7. LoopInv'
    <3>1. stack[1].fn = "AfterRecv" => stack'[2] = stack[2] /\ stack[2].fn = "OnRecv"
      BY <1>2, <1>4, <1>5, <2>5 DEF IInv, LoopInv
    <3> QED
      BY <2>1, <2>3, <2>4, <3>1 DEF IInv, LoopInv, Base, Reader
  <2>8. NestInv'
    BY <2>1, <2>2, <2>6, ProgSame DEF NestInv
  <2> QED
    BY <1>3, <1>4, <1>7, <2>1, <2>2, <2>7, <2>8 DEF StackOk
<1> QED
  BY <1>6, <1>7

-----------------------------------------------------------------------------
(* What the data operations preserve. *)

LEMMA BevSame ==
    ASSUME IInv, prog' = prog, UNCHANGED <<obj, buf, bev, told>>
    PROVE  BevOk' /\ BevInv'
  BY ProgSame DEF IInv, BevOk, BevInv

\* The running read loop is alone; its frame may return.
LEMMA RunPop ==
    ASSUME IInv, prog' = prog, UNCHANGED <<obj, buf, fd, told, avail>>,
           stack' # <<>> => stack # <<>> /\ stack'[1] = stack[1]
    PROVE  RunInv'
  BY ProgSame DEF IInv, RunInv

\* ConCom::Free, in a disconnect or in the destructor.
LEMMA FreeData ==
    ASSUME IInv, prog' = prog, Free,
           told' = told \/ told' = [told EXCEPT ![buf] = "disconnected"]
    PROVE  BevOk' /\ BevInv' /\ buf' = NoBev /\ fd' = 0 /\ up' = "no" /\ rpl' \in Length
<1>1. BevOk'
  BY DEF IInv, BevOk, Free
<1>2. buf' = NoBev /\ fd' = 0 /\ up' = "no" /\ rpl' \in Length
  BY LenAssumption DEF Free, Length
<1>3. \A b \in Bev : bev'[b] # "free" => b # buf /\ bev'[b] = bev[b] /\ told'[b] = told[b]
  <2>1. ASSUME NEW b \in Bev, bev'[b] # "free"
        PROVE  b # buf /\ bev'[b] = bev[b]
    <3>1. b # NoBev
      BY DEF Bev, NoBev
    <3> QED
      BY <2>1, <3>1 DEF IInv, BevOk, Free
  <2>2. \A b \in Bev : b # buf => told'[b] = told[b]
    BY DEF IInv, BevOk
  <2> QED
    BY <2>1, <2>2
<1>4. \A b \in Bev : bev[b] \in {"connecting", "open"} => buf = b
  BY DEF IInv, BevInv
<1>5. ~Fails => \A b \in Bev : bev[b] \in {"connecting", "open", "failed", "down"} => buf = b
  BY DEF IInv, BevInv
<1>6. \A b \in Bev : bev[b] \in {"none", "connecting"} => told[b] = "nothing"
  BY DEF IInv, BevInv
<1> QED
  BY <1>1, <1>2, <1>3, <1>4, <1>5, <1>6, ProgSame DEF BevInv

\* DisConnect ends a connection or does nothing.
LEMMA DisConnectCases ==
    ASSUME IInv, NEW frames, DisConnect(frames)
    PROVE  \/ stack' = frames /\ UNCHANGED <<con, bev, told>>
           \/ /\ Free /\ told' = [told EXCEPT ![buf] = "disconnected"]
              /\ stack' = Append(frames, Fr("OnDisconnected", buf))
              /\ UNCHANGED <<prog, obj, raw>>
  BY DEF DisConnect

\* After a connection has ended nothing below is told of it.
LEMMA RunFreed ==
    ASSUME IInv, prog' = prog, buf' = NoBev, fd' = 0, avail' = avail, stack' # <<>>,
           stack'[1].fn # "Read",
           stack'[1].fn = "AfterRecv" => stack # <<>> /\ stack'[1] = stack[1]
    PROVE  RunInv'
  BY ProgSame DEF IInv, RunInv

LEMMA DeleteSame ==
    ASSUME IInv, prog' = prog, heap' = heap, obj' = obj,
           stack' # <<>> => \/ stack # <<>> /\ stack'[1] = stack[1]
                            \/ stack'[1].fn \notin {"Read", "AfterRecv", "OnError"}
    PROVE  DeleteInv'
  BY ProgSame DEF IInv, DeleteInv

-----------------------------------------------------------------------------
(* Init establishes the invariant and every action keeps it. *)

LEMMA InitInv == Init => IInv
<1> SUFFICES ASSUME Init PROVE IInv
  OBVIOUS
<1>1. ObjOk /\ BevOk /\ StackOk /\ rpl \in Length
  BY LenAssumption, PairFacts, EmptySeq DEF Init, ObjOk, BevOk, StackOk, Length
<1>2. IoOk
  BY DEF Init, IoOk, Mark, NoMark
<1>3. Len(stack) = 0
  BY EmptySeq DEF Init
<1>4. LoopInv /\ NestInv /\ RunInv /\ DeleteInv
  BY <1>3 DEF Init, LoopInv, NestInv, RunInv, DeleteInv
<1>5. BevInv
  BY DEF Init, BevInv, NoBev
<1> QED
  BY <1>1, <1>2, <1>4, <1>5 DEF IInv

\* An event of the loop starts with an empty stack.
LEMMA LoopPush ==
    ASSUME Idle, NEW f, Push(f)
    PROVE  stack' = <<f>>
  BY DEF Idle, Push

LEMMA ConnectedKeeps ==
    ASSUME IInv, NEW b \in Bev, Connected(b)
    PROVE  IInv'
<1> DEFINE f == Fr("OnConnected", b)
<1>1. f \in Frame /\ f.fn = "OnConnected"
  BY FrTypes DEF UserFn
<1>2. stack' = <<f>>
  BY LoopPush DEF Connected
<1>3. prog' = prog
  BY DEF Connected
<1> HIDE DEF f
<1>4. StackOk' /\ LoopInv' /\ NestInv' /\ stack'[1] = f
  BY <1>1, <1>2, <1>3, StackOne DEF Reader
<1>5. ObjOk' /\ BevOk' /\ IoOk' /\ rpl' \in Length
  BY DEF Connected, IInv, ObjOk, BevOk, IoOk, io
<1>6. BevInv'
  <2>1. buf = b /\ told[b] = "nothing"
    BY DEF IInv, BevInv, Connected
  <2>2. \A a \in Bev \ {b} : bev'[a] = bev[a] /\ told'[a] = told[a]
    BY DEF Connected, IInv, BevOk
  <2>3. bev'[b] = "open" /\ told'[b] = "connected" /\ buf' = buf /\ obj' = obj
    BY DEF Connected, IInv, BevOk
  <2> QED
    BY <1>3, <2>1, <2>2, <2>3, ProgSame DEF IInv, BevInv
<1>7. RunInv'
  BY <1>1, <1>4 DEF RunInv
<1>8. DeleteInv'
  BY <1>1, <1>3, <1>4, DeleteSame DEF Connected
<1> QED
  BY <1>4, <1>5, <1>6, <1>7, <1>8 DEF IInv

LEMMA ErrorEventKeeps ==
    ASSUME IInv, NEW b \in Bev, ErrorEvent(b)
    PROVE  IInv'
<1>1. prog' = prog /\ UNCHANGED <<obj, buf, fd, up, rpl, raw, told, avail, mark, stream, pos>>
  BY DEF ErrorEvent, con, io
<1>2. ObjOk' /\ BevOk' /\ IoOk' /\ rpl' \in Length
  BY <1>1 DEF ErrorEvent, IInv, ObjOk, BevOk, IoOk
<1>3. BevInv'
  <2>1. \A a \in Bev \ {b} : bev'[a] = bev[a]
    BY DEF ErrorEvent, IInv, BevOk
  <2>2. bev'[b] = "down" /\ bev[b] \in {"connecting", "open", "failed"}
    BY DEF ErrorEvent, IInv, BevOk
  <2> QED
    BY <1>1, <2>1, <2>2, ProgSame DEF IInv, BevInv
<1>4. ~Fails => buf = b
  BY DEF IInv, BevInv, ErrorEvent
<1>5. obj = "freed" => buf = NoBev
  BY DEF IInv, BevInv
<1>6. NoBev # b
  BY DEF NoBev, Bev
<1>7. CASE obj = "freed"
  <2>1. stack' = stack
    BY <1>7 DEF ErrorEvent
  <2>2. StackOk' /\ LoopInv' /\ NestInv'
    BY <1>1, <2>1, StackSame
  <2>3. RunInv'
    BY <1>1, <2>1, RunPop
  <2>4. DeleteInv'
    BY <1>1, <1>4, <1>5, <1>6, <1>7, ProgSame DEF DeleteInv
  <2> QED
    BY <1>2, <1>3, <2>2, <2>3, <2>4 DEF IInv
<1>8. CASE obj # "freed"
  <2> DEFINE f == Fr("OnError", b)
  <2>1. f \in Frame /\ f.fn = "OnError" /\ f.bev = b
    BY FrTypes DEF UserFn
  <2>2. stack' = <<f>> /\ heap' = heap
    BY <1>8, LoopPush DEF ErrorEvent
  <2> HIDE DEF f
  <2>3. StackOk' /\ LoopInv' /\ NestInv' /\ stack'[1] = f
    BY <1>1, <2>1, <2>2, StackOne DEF Reader
  <2>4. RunInv'
    BY <1>1, <1>4, <2>1, <2>3, ProgSame DEF RunInv
  <2>5. DeleteInv'
    BY <1>1, <1>8, <2>2, ProgSame DEF IInv, DeleteInv
  <2> QED
    BY <1>2, <1>3, <2>3, <2>4, <2>5 DEF IInv
<1> QED
  BY <1>7, <1>8

\* The length read is one a length field can have.
LEMMA PackLenTypes == ASSUME IInv, NEW b \in Bev PROVE PackLen(b) \subseteq Length
<1>1. rpl \in Length /\ stream[b] \in Streams \cup {<<>>}
  BY DEF IInv, IoOk
<1>2. <<>> \in Seq(Length)
  BY EmptySeq
<1>3. stream[b] \in Seq(Length)
  BY <1>1, <1>2, StreamAssumption
<1>4. \A k \in DOMAIN stream[b] : stream[b][k] \in Length
  BY <1>3, LenProperties
<1>5. AtFront(b) \subseteq DOMAIN stream[b]
  BY DEF AtFront
<1> QED
  BY <1>1, <1>4, <1>5 DEF PackLen

LEMMA ReadEventKeeps ==
    ASSUME IInv, NEW b \in Bev, ReadEvent(b)
    PROVE  IInv'
<1>1. prog' = prog /\ UNCHANGED <<obj, buf, fd, up, rpl, raw, bev, told, mark, stream, pos, heap>>
  BY DEF ReadEvent, con
<1>2. buf = b /\ told[b] = "connected"
  BY DEF ReadEvent, IInv, BevInv
<1>3. obj = "alive"
  BY <1>2 DEF IInv, BevInv, ObjOk, NoBev, Bev
<1>4. avail' \in [Bev -> Nat]
  <2>1. PICK n \in 1..ReadLimit(b) : avail' = [avail EXCEPT ![b] = @ + n]
    BY DEF ReadEvent
  <2>2. n \in Nat
    BY <2>1
  <2>3. avail \in [Bev -> Nat]
    BY DEF IInv, IoOk
  <2> QED
    BY <2>1, <2>2, <2>3
<1>5. ObjOk' /\ BevOk' /\ IoOk' /\ rpl' \in Length
  BY <1>1, <1>4 DEF IInv, ObjOk, BevOk, IoOk
<1>6. BevInv'
  BY <1>1, BevSame
<1>7. CASE stack' = stack
  <2>1. StackOk' /\ LoopInv' /\ NestInv'
    BY <1>1, <1>7, StackSame
  <2>2. RunInv' /\ DeleteInv'
    <3>1. stack' = <<>>
      BY <1>7 DEF ReadEvent, Idle
    <3>2. DeleteInv'
      BY <1>1, <1>7, DeleteSame
    <3> QED
      BY <3>1, <3>2 DEF RunInv
  <2> QED
    BY <1>5, <1>6, <2>1, <2>2 DEF IInv
<1>8. CASE stack' = <<Fr("AfterRaw", b), Fr("OnRawRecv", b)>>
  <2> DEFINE f == Fr("AfterRaw", b)
             g == Fr("OnRawRecv", b)
  <2>1. f \in Frame /\ f.fn = "AfterRaw" /\ f.bev = b /\ g \in Frame /\ g.fn = "OnRawRecv"
    BY FrTypes DEF UserFn, LibFn
  <2>2. stack' = <<f, g>>
    BY <1>8
  <2> HIDE DEF f, g
  <2>3. StackOk' /\ LoopInv' /\ NestInv' /\ stack'[1] = f
    BY <1>1, <2>1, <2>2, StackTwo
  <2>4. RunInv'
    BY <2>1, <2>3 DEF RunInv
  <2>5. DeleteInv'
    BY <1>1, <2>1, <2>3, DeleteSame
  <2> QED
    BY <1>5, <1>6, <2>3, <2>4, <2>5 DEF IInv
<1>9. CASE Push(Fr("Read", b))
  <2> DEFINE f == Fr("Read", b)
  <2>1. f \in Frame /\ f.fn = "Read" /\ f.bev = b
    BY FrTypes DEF LibFn
  <2>2. stack' = <<f>>
    BY <1>9, LoopPush DEF ReadEvent
  <2> HIDE DEF f
  <2>3. StackOk' /\ LoopInv' /\ NestInv' /\ stack'[1] = f
    BY <1>1, <2>1, <2>2, StackOne
  <2>4. RunInv'
    BY <1>1, <1>2, <2>1, <2>3 DEF RunInv
  <2>5. DeleteInv'
    BY <1>1, <1>3, ProgSame DEF IInv, DeleteInv
  <2> QED
    BY <1>5, <1>6, <2>3, <2>4, <2>5 DEF IInv
<1>10. \/ stack' = stack
       \/ stack' = <<Fr("AfterRaw", b), Fr("OnRawRecv", b)>>
       \/ Push(Fr("Read", b))
  <2>1. Triggers(b) \in BOOLEAN /\ raw \in {"yes", "no"}
    BY DEF Triggers, IInv, ObjOk
  <2> QED
    BY <2>1 DEF ReadEvent
<1> QED
  BY <1>7, <1>8, <1>9, <1>10

LEMMA ProgramRunsKeeps == ASSUME IInv, ProgramRuns PROVE IInv'
<1> DEFINE f == Fr("Program", NoBev)
<1>1. f \in Frame /\ f.fn = "Program"
  BY FrTypes DEF UserFn
<1>2. stack' = <<f>>
  BY LoopPush DEF ProgramRuns
<1>3. UNCHANGED <<con, bev, io, told, heap>>
  BY DEF ProgramRuns
<1> HIDE DEF f
<1>4. StackOk' /\ LoopInv' /\ NestInv' /\ stack'[1] = f
  BY <1>1, <1>2, <1>3, StackOne DEF Reader, con
<1>5. ObjOk' /\ BevOk' /\ IoOk' /\ rpl' \in Length
  BY <1>3 DEF IInv, ObjOk, BevOk, IoOk, con, io
<1>6. BevInv'
  BY <1>3, BevSame DEF con
<1>7. RunInv'
  BY <1>1, <1>4 DEF RunInv
<1>8. DeleteInv'
  BY <1>1, <1>3, <1>4, DeleteSame DEF con
<1> QED
  BY <1>4, <1>5, <1>6, <1>7, <1>8 DEF IInv

\* A read loop, or what follows it, runs with nothing below.
LEMMA ReaderAlone ==
    ASSUME IInv, stack # <<>>, Top.fn \in {"Read", "AfterRecv", "AfterRaw"}
    PROVE  /\ Len(stack) = 1 /\ Top = stack[1] /\ Top.bev \in Bev /\ Below = <<>>
<1>1. Len(stack) \in 1..Len(stack) /\ Top = stack[Len(stack)]
  BY TopFacts DEF IInv
<1>2. Len(stack) = 1 /\ Top.bev \in Bev
  BY <1>1 DEF IInv, LoopInv, Base, Reader
<1> QED
  BY <1>1, <1>2, FrontFacts DEF Below, IInv, StackOk

LEMMA ConnectReturnKeeps == ASSUME IInv, ConnectReturn PROVE IInv'
<1>1. UNCHANGED <<con, bev, io, told>> /\ stack # <<>> /\ Pop
  BY DEF ConnectReturn, Running
<1>2. ObjOk' /\ BevOk' /\ IoOk' /\ rpl' \in Length
  BY <1>1 DEF ConnectReturn, IInv, ObjOk, BevOk, IoOk, con, io
<1>3. StackOk' /\ LoopInv' /\ NestInv' /\ (stack' # <<>> => stack'[1] = stack[1])
  BY <1>1, StackPop DEF con
<1>4. BevInv'
  BY <1>1, BevSame DEF con
<1>5. RunInv'
  BY <1>1, <1>3, RunPop DEF con, io
<1>6. Fails
  BY TopFacts DEF IInv, NestInv, ConnectReturn, Running
<1>7. DeleteInv'
  BY <1>1, <1>6, ProgSame DEF DeleteInv, con
<1> QED
  BY <1>2, <1>3, <1>4, <1>5, <1>7 DEF IInv

LEMMA AfterRawKeeps == ASSUME IInv, AfterRaw PROVE IInv'
<1>1. UNCHANGED <<con, bev, mark, stream, told, heap>> /\ stack # <<>> /\ Pop
  BY DEF AfterRaw, Running
<1>2. Len(stack) = 1 /\ Top.bev \in Bev /\ stack' = <<>>
  BY <1>1, ReaderAlone DEF AfterRaw, Running, Pop
<1>3. IoOk'
  <2>1. PICK n \in 0..avail[Top.bev] : Drain(Top.bev, n)
    BY DEF AfterRaw
  <2>2. avail[Top.bev] \in Nat /\ pos[Top.bev] \in Nat
    BY <1>2 DEF IInv, IoOk
  <2>3. n \in Nat /\ avail[Top.bev] - n \in Nat /\ pos[Top.bev] + n \in Nat
    BY <2>1, <2>2
  <2> QED
    BY <1>1, <1>2, <2>1, <2>3 DEF Drain, IInv, IoOk
<1>4. ObjOk' /\ BevOk' /\ rpl' \in Length
  BY <1>1 DEF IInv, ObjOk, BevOk, con
<1>5. StackOk' /\ LoopInv' /\ NestInv'
  BY <1>1, StackPop DEF con
<1>6. BevInv'
  BY <1>1, BevSame DEF con
<1>7. RunInv' /\ DeleteInv'
  BY <1>1, <1>2, DeleteSame DEF RunInv, con
<1> QED
  BY <1>3, <1>4, <1>5, <1>6, <1>7 DEF IInv

LEMMA ReadReturnKeeps == ASSUME IInv, ReadReturn PROVE IInv'
<1>1. UNCHANGED <<prog, obj, buf, fd, up, raw, bev, io, told, heap>> /\ stack # <<>> /\ Pop
  BY DEF ReadReturn, Running
<1>2. Top.bev \in Bev /\ stack' = <<>>
  BY <1>1, ReaderAlone DEF ReadReturn, Running, Pop
<1>3. rpl' \in Length
  BY <1>2, PackLenTypes DEF ReadReturn, IInv
<1>4. ObjOk' /\ BevOk' /\ IoOk'
  BY <1>1 DEF IInv, ObjOk, BevOk, IoOk, io
<1>5. StackOk' /\ LoopInv' /\ NestInv'
  BY <1>1, StackPop
<1>6. BevInv'
  BY <1>1, BevSame
<1>7. RunInv' /\ DeleteInv'
  BY <1>1, <1>2, DeleteSame DEF RunInv
<1> QED
  BY <1>3, <1>4, <1>5, <1>6, <1>7 DEF IInv

LEMMA ReadBadLengthKeeps == ASSUME IInv, ReadBadLength PROVE IInv'
<1>1. Running("Read") /\ DisConnect(Below) /\ UNCHANGED <<io, heap>>
  BY DEF ReadBadLength
<1>2. stack # <<>> /\ Below = <<>>
  BY <1>1, ReaderAlone DEF Running
<1>3. IoOk'
  BY <1>1 DEF IInv, IoOk, io
<1>4. CASE stack' = Below /\ UNCHANGED <<con, bev, told>>
  <2>1. StackOk' /\ LoopInv' /\ NestInv'
    BY <1>2, <1>4, StackPop DEF Pop, con
  <2>2. BevOk' /\ BevInv'
    BY <1>4, BevSame DEF con
  <2>3. ObjOk' /\ rpl' \in Length
    BY <1>1, <1>4 DEF IInv, ObjOk, con
  <2>4. RunInv' /\ DeleteInv'
    BY <1>1, <1>2, <1>4, DeleteSame DEF RunInv, con
  <2> QED
    BY <1>3, <2>1, <2>2, <2>3, <2>4 DEF IInv
<1>5. CASE /\ Free /\ told' = [told EXCEPT ![buf] = "disconnected"]
           /\ stack' = Append(Below, Fr("OnDisconnected", buf))
           /\ UNCHANGED <<prog, obj, raw>>
  <2> DEFINE f == Fr("OnDisconnected", buf)
  <2>1. f \in Frame /\ f.fn = "OnDisconnected"
    BY FrTypes DEF UserFn, IInv, ObjOk
  <2>2. stack' = <<f>>
    BY <1>2, <1>5
  <2> HIDE DEF f
  <2>3. StackOk' /\ LoopInv' /\ NestInv' /\ stack'[1] = f
    BY <1>5, <2>1, <2>2, StackOne DEF Reader
  <2>4. BevOk' /\ BevInv' /\ buf' = NoBev /\ fd' = 0 /\ up' = "no" /\ rpl' \in Length
    BY <1>5, FreeData
  <2>5. ObjOk'
    BY <1>1, <1>5, <2>4 DEF IInv, ObjOk
  <2>6. RunInv'
    BY <2>1, <2>3 DEF RunInv
  <2>7. DeleteInv'
    BY <1>1, <1>5, <2>1, <2>3, DeleteSame
  <2> QED
    BY <1>3, <2>3, <2>4, <2>5, <2>6, <2>7 DEF IInv
<1> QED
  BY <1>1, <1>4, <1>5, DisConnectCases

LEMMA ReadDeliverKeeps == ASSUME IInv, ReadDeliver PROVE IInv'
<1>1. UNCHANGED <<prog, obj, buf, fd, up, raw, bev, io, told, heap>> /\ Running("Read")
  BY DEF ReadDeliver
<1>2. stack # <<>> /\ Top = stack[1] /\ Top.bev \in Bev /\ Below = <<>> /\ stack[1].fn = "Read"
  BY <1>1, ReaderAlone DEF Running
<1>3. PICK len \in PackLen(Top.bev) :
         /\ ~Bad(len) /\ avail[Top.bev] >= HeadLen + len
         /\ rpl' = len
         /\ stack' = Below \o <<[Fr("AfterRecv", Top.bev) EXCEPT !.n = HeadLen + len],
                                Fr("OnRecv", Top.bev)>>
  BY DEF ReadDeliver
<1> DEFINE f == [Fr("AfterRecv", Top.bev) EXCEPT !.n = HeadLen + len]
           g == Fr("OnRecv", Top.bev)
<1>4. len \in Length
  BY <1>2, <1>3, PackLenTypes
<1>5. HeadLen + len \in 0..HeadLen + MaxLen
  <2>1. len \in 0..MaxLen + 1 /\ ~(len > MaxLen)
    BY <1>3, <1>4 DEF Bad, Length
  <2> QED
    BY <2>1, LenAssumption
<1>6. f \in Frame /\ f.fn = "AfterRecv" /\ f.bev = Top.bev /\ f.n = HeadLen + len
  BY <1>2, <1>5 DEF Fr, Frame, LibFn
<1>7. g \in Frame /\ g.fn = "OnRecv"
  BY <1>2, FrTypes DEF UserFn
<1>8. stack' = <<f, g>>
  BY <1>2, <1>3
<1> HIDE DEF f, g
<1>9. StackOk' /\ LoopInv' /\ NestInv' /\ stack'[1] = f
  BY <1>1, <1>2, <1>6, <1>7, <1>8, StackTwo
<1>10. ObjOk' /\ BevOk' /\ IoOk' /\ rpl' \in Length
  BY <1>1, <1>3, <1>4 DEF IInv, ObjOk, BevOk, IoOk, io
<1>11. BevInv'
  BY <1>1, BevSame
<1>12. RunInv'
  <2>1. f.n =< avail'[f.bev]
    <3>1. avail[Top.bev] \in Nat /\ HeadLen + len \in Nat
      BY <1>2, <1>5 DEF IInv, IoOk
    <3> QED
      BY <1>1, <1>3, <1>6, <3>1 DEF io
  <2>2. ~ReconnectsInRecv => told'[f.bev] = "connected"
    BY <1>1, <1>2, <1>6 DEF IInv, RunInv
  <2> QED
    BY <1>1, <1>6, <1>9, <2>1, <2>2, ProgSame DEF RunInv
<1>13. DeleteInv'
  BY <1>1, <1>2, ProgSame DEF IInv, DeleteInv
<1> QED
  BY <1>9, <1>10, <1>11, <1>12, <1>13 DEF IInv

LEMMA AfterRecvFreedKeeps == ASSUME IInv, AfterRecvFreed PROVE IInv'
<1>1. UNCHANGED <<con, bev, io, told, stack>> /\ Running("AfterRecv") /\ obj = "freed" /\ heap' = "corrupt"
  BY DEF AfterRecvFreed
<1>2. stack # <<>> /\ stack[1].fn = "AfterRecv"
  BY <1>1, ReaderAlone DEF Running
<1>3. ObjOk' /\ IoOk' /\ rpl' \in Length
  BY <1>1 DEF IInv, ObjOk, IoOk, con, io
<1>4. StackOk' /\ LoopInv' /\ NestInv'
  BY <1>1, StackSame DEF con
<1>5. BevOk' /\ BevInv'
  BY <1>1, BevSame DEF con
<1>6. RunInv'
  BY <1>1, <1>2, RunPop DEF con, io
<1>7. DeleteInv'
  BY <1>1, <1>2, ProgSame DEF IInv, DeleteInv, con
<1> QED
  BY <1>3, <1>4, <1>5, <1>6, <1>7 DEF IInv

LEMMA AfterRecvGoneKeeps == ASSUME IInv, AfterRecvGone PROVE IInv'
<1>1. UNCHANGED <<con, bev, io, told, heap>> /\ stack # <<>> /\ Pop
  BY DEF AfterRecvGone, Running
<1>2. ObjOk' /\ IoOk' /\ rpl' \in Length
  BY <1>1 DEF IInv, ObjOk, IoOk, con, io
<1>3. StackOk' /\ LoopInv' /\ NestInv' /\ (stack' # <<>> => stack'[1] = stack[1])
  BY <1>1, StackPop DEF con
<1>4. BevOk' /\ BevInv'
  BY <1>1, BevSame DEF con
<1>5. RunInv'
  BY <1>1, <1>3, RunPop DEF con, io
<1>6. DeleteInv'
  BY <1>1, <1>3, DeleteSame DEF con
<1> QED
  BY <1>2, <1>3, <1>4, <1>5, <1>6 DEF IInv

LEMMA AfterRecvDrainKeeps == ASSUME IInv, AfterRecvDrain PROVE IInv'
<1>1. /\ UNCHANGED <<prog, obj, buf, fd, up, raw, bev, mark, stream, told, heap>>
      /\ Running("AfterRecv") /\ obj = "alive" /\ fd # 0 /\ rpl' = 0
      /\ Drain(Top.bev, Top.n) /\ Become(Fr("Read", Top.bev))
  BY DEF AfterRecvDrain, IsWaitConnectReq
<1>2. stack # <<>> /\ Top = stack[1] /\ Top.bev \in Bev /\ Below = <<>> /\ stack[1].fn = "AfterRecv"
      /\ Top \in Frame
  BY <1>1, ReaderAlone, TopFacts DEF Running, IInv
<1> DEFINE f == Fr("Read", Top.bev)
<1>3. f \in Frame /\ f.fn = "Read" /\ f.bev = Top.bev
  <2>1. Top.bev \in Bev
    BY <1>2
  <2> QED
    BY <2>1, FrTypes DEF LibFn
<1>4. stack' = <<f>>
  BY <1>1, <1>2 DEF Become
<1> HIDE DEF f
<1>5. StackOk' /\ LoopInv' /\ NestInv' /\ stack'[1] = f
  BY <1>1, <1>2, <1>3, <1>4, StackOne
<1>6. ObjOk' /\ rpl' \in Length
  BY <1>1, LenAssumption DEF IInv, ObjOk, Length
<1>7. IoOk'
  <2>1. Top.n \in Nat /\ Top.n =< avail[Top.bev]
    BY <1>2, LenAssumption DEF Frame, IInv, RunInv
  <2>2. avail[Top.bev] \in Nat /\ pos[Top.bev] \in Nat
    BY <1>2 DEF IInv, IoOk
  <2>3. avail[Top.bev] - Top.n \in Nat /\ pos[Top.bev] + Top.n \in Nat
    BY <2>1, <2>2
  <2> QED
    BY <1>1, <1>2, <2>3 DEF Drain, IInv, IoOk
<1>8. BevOk' /\ BevInv'
  BY <1>1, BevSame
<1>9. RunInv'
  <2>1. ~ReconnectsInRecv => told[Top.bev] = "connected"
    BY <1>1, <1>2 DEF IInv, RunInv
  <2> QED
    BY <1>1, <1>3, <1>5, <2>1, ProgSame DEF RunInv
<1>10. DeleteInv'
  BY <1>1, ProgSame DEF IInv, DeleteInv
<1> QED
  BY <1>5, <1>6, <1>7, <1>8, <1>9, <1>10 DEF IInv

\* What is at the bottom while user code runs.
LEMMA UserBelow ==
    ASSUME IInv, InUserCode
    PROVE  stack # <<>> /\ stack[1].fn # "Read" /\ Top.fn \in UserFn
<1>1. stack # <<>> /\ Top = stack[Len(stack)] /\ Top.fn \in UserFn
  BY TopFacts DEF IInv, InUserCode
<1> QED
  BY <1>1 DEF IInv, LoopInv, UserFn

\* DisConnect and SendPack in user code.
LEMMA DisConnectKeeps ==
    ASSUME IInv, InUserCode, Closes(Top.fn), DisConnect(stack), UNCHANGED <<io, heap>>
    PROVE  IInv'
<1>1. IoOk'
  BY DEF IInv, IoOk, io
<1>2. stack # <<>> /\ stack[1].fn # "Read"
  BY UserBelow
<1>3. CASE stack' = stack /\ UNCHANGED <<con, bev, told>>
  <2>1. StackOk' /\ LoopInv' /\ NestInv'
    BY <1>3, StackSame DEF con
  <2>2. BevOk' /\ BevInv'
    BY <1>3, BevSame DEF con
  <2>3. ObjOk' /\ rpl' \in Length
    BY <1>3 DEF IInv, ObjOk, con
  <2>4. RunInv'
    BY <1>3, RunPop DEF con, io
  <2>5. DeleteInv'
    BY <1>3, DeleteSame DEF con
  <2> QED
    BY <1>1, <2>1, <2>2, <2>3, <2>4, <2>5 DEF IInv
<1>4. CASE /\ Free /\ told' = [told EXCEPT ![buf] = "disconnected"]
           /\ stack' = Append(stack, Fr("OnDisconnected", buf))
           /\ UNCHANGED <<prog, obj, raw>>
  <2>1. buf \in Bev \cup {NoBev}
    BY DEF IInv, ObjOk
  <2>2. StackOk' /\ LoopInv' /\ NestInv' /\ stack'[1] = stack[1] /\ stack' # <<>>
    BY <1>4, <2>1, StackPushDisc
  <2>3. BevOk' /\ BevInv' /\ buf' = NoBev /\ fd' = 0 /\ up' = "no" /\ rpl' \in Length
    BY <1>4, FreeData
  <2>4. ObjOk'
    BY <1>4, <2>3 DEF IInv, ObjOk
  <2>5. RunInv'
    BY <1>2, <1>4, <2>2, <2>3, RunFreed DEF io
  <2>6. DeleteInv'
    BY <1>2, <1>4, <2>2, DeleteSame
  <2> QED
    BY <1>1, <2>2, <2>3, <2>4, <2>5, <2>6 DEF IInv
<1> QED
  BY <1>3, <1>4, DisConnectCases

LEMMA UserDisConnectKeeps == ASSUME IInv, UserDisConnect PROVE IInv'
<1>1. InUserCode /\ Closes(Top.fn)
  BY DEF UserDisConnect, Doing, Closes, Can
<1> QED
  BY <1>1, DisConnectKeeps DEF UserDisConnect

LEMMA UserSendKeepsInv == ASSUME IInv, UserSendOverflow PROVE IInv'
<1>1. InUserCode /\ Closes(Top.fn)
  BY DEF UserSendOverflow, Doing, Closes, Can
<1> QED
  BY <1>1, DisConnectKeeps DEF UserSendOverflow

LEMMA ConnectStartsKeeps ==
    ASSUME IInv, Doing("Connect"), NEW b \in Bev, NewBev(b), ConnectStarts(b)
    PROVE  IInv'
<1>1. UNCHANGED <<prog, obj, up, rpl, raw, mark, pos, avail, told, stack, heap>> /\ obj = "alive"
  BY DEF ConnectStarts, Doing
<1>2. stack # <<>> /\ stack[1].fn # "Read"
  BY UserBelow DEF Doing
<1>3. StackOk' /\ LoopInv' /\ NestInv'
  BY <1>1, StackSame
<1>4. DeleteInv'
  BY <1>1, DeleteSame
<1>5. IoOk'
  BY <1>1 DEF ConnectStarts, IInv, IoOk
<1>6. bev[b] = "none" /\ told[b] = "nothing" /\ b # NoBev
  BY DEF NewBev, IInv, BevInv, NoBev, Bev
<1>7. CASE /\ buf = NoBev /\ buf' = b /\ fd' \in {0, 1}
           /\ bev' = [bev EXCEPT ![b] = "connecting"]
  <2>1. ObjOk' /\ BevOk' /\ rpl' \in Length
    BY <1>1, <1>7 DEF IInv, ObjOk, BevOk
  <2>2. bev'[b] = "connecting" /\ \A a \in Bev \ {b} : bev'[a] = bev[a]
    BY <1>7 DEF IInv, BevOk
  <2>3. \A a \in Bev : a # NoBev
    BY DEF Bev, NoBev
  <2>4. BevInv'
    BY <1>1, <1>6, <1>7, <2>2, <2>3, ProgSame DEF IInv, BevInv
  <2>5. stack[1].fn = "AfterRecv" => ReconnectsInRecv
    <3>1. ASSUME stack[1].fn = "AfterRecv", ~ReconnectsInRecv PROVE Leads("OnRecv", "Connect")
      BY <3>1, UnderRecv
    <3> QED
      BY <3>1 DEF ReconnectsInRecv
  <2>6. stack[1].fn = "OnError" /\ ~Fails => Leads("OnError", "Connect")
    <3>1. ASSUME stack[1].fn = "OnError", ~Fails PROVE Leads("OnError", "Connect")
      BY <3>1, UnderError
    <3> QED
      BY <3>1
  <2>7. RunInv'
    <3>1. stack'[1] = stack[1] /\ avail' = avail
      BY <1>1
    <3>2. stack[1].fn = "AfterRecv" => stack[1].n =< avail[stack[1].bev]
      BY <1>2 DEF IInv, RunInv
    <3>3. stack'[1].fn = "AfterRecv" => ReconnectsInRecv' /\ stack'[1].n =< avail'[stack'[1].bev]
      BY <1>1, <2>5, <3>1, <3>2, ProgSame
    <3>4. stack'[1].fn = "OnError" /\ ~Fails' => Leads("OnError", "Connect")'
      BY <1>1, <2>6, <3>1, ProgSame
    <3> QED
      BY <1>2, <3>1, <3>3, <3>4 DEF RunInv
  <2> QED
    BY <1>3, <1>4, <1>5, <2>1, <2>4, <2>7 DEF IInv
<1>8. CASE buf # NoBev /\ bev' = [bev EXCEPT ![b] = "free"] /\ UNCHANGED <<buf, fd>>
  <2>1. ObjOk' /\ BevOk' /\ rpl' \in Length
    BY <1>1, <1>8 DEF IInv, ObjOk, BevOk
  <2>2. bev'[b] = "free" /\ \A a \in Bev \ {b} : bev'[a] = bev[a]
    BY <1>8 DEF IInv, BevOk
  <2>3. BevInv'
    BY <1>1, <1>8, <2>2, ProgSame DEF IInv, BevInv
  <2>4. RunInv'
    BY <1>1, <1>2, <1>8, RunPop
  <2> QED
    BY <1>3, <1>4, <1>5, <2>1, <2>3, <2>4 DEF IInv
<1> QED
  BY <1>7, <1>8 DEF ConnectStarts, SetSocketInfo

LEMMA ConnectFailsKeeps ==
    ASSUME IInv, Doing("Connect"), NEW b \in Bev, NewBev(b), ConnectFails(b)
    PROVE  IInv'
<1>1. UNCHANGED <<con, io, told, heap>> /\ Fails /\ bev' = [bev EXCEPT ![b] = "failed"]
      /\ stack' = stack \o <<Fr("Connect", b), Fr("OnError", b)>>
  BY DEF ConnectFails, Fails
<1>2. StackOk' /\ LoopInv' /\ NestInv' /\ stack # <<>> /\ stack'[1] = stack[1] /\ stack' # <<>>
  BY <1>1, StackPushFails DEF con
<1>3. ObjOk' /\ BevOk' /\ IoOk' /\ rpl' \in Length
  BY <1>1 DEF IInv, ObjOk, BevOk, IoOk, con, io
<1>4. BevInv'
  <2>1. bev'[b] = "failed" /\ \A a \in Bev \ {b} : bev'[a] = bev[a]
    BY <1>1 DEF IInv, BevOk
  <2> QED
    BY <1>1, <2>1, ProgSame DEF IInv, BevInv, con
<1>5. RunInv'
  BY <1>1, <1>2, RunPop DEF con, io
<1>6. DeleteInv'
  BY <1>1, <1>2, DeleteSame DEF con
<1> QED
  BY <1>2, <1>3, <1>4, <1>5, <1>6 DEF IInv

LEMMA UserConnectKeeps == ASSUME IInv, UserConnect PROVE IInv'
<1>1. Doing("Connect")
  BY DEF UserConnect
<1>2. PICK b \in Bev : NewBev(b) /\ (ConnectStarts(b) \/ ConnectFails(b))
  BY DEF UserConnect, ConnectByAddr
<1> QED
  BY <1>1, <1>2, ConnectStartsKeeps, ConnectFailsKeeps

LEMMA UserSetRawKeeps == ASSUME IInv, UserSetRaw PROVE IInv'
<1>1. UNCHANGED <<prog, obj, buf, fd, up, rpl, bev, io, told, stack, heap>>
  BY DEF UserSetRaw
<1>2. StackOk' /\ LoopInv' /\ NestInv'
  BY <1>1, StackSame
<1>3. BevOk' /\ BevInv'
  BY <1>1, BevSame
<1>4. ObjOk' /\ IoOk' /\ rpl' \in Length
  BY <1>1 DEF UserSetRaw, IInv, ObjOk, IoOk, io
<1>5. RunInv'
  BY <1>1, RunPop DEF io
<1>6. DeleteInv'
  BY <1>1, DeleteSame
<1> QED
  BY <1>2, <1>3, <1>4, <1>5, <1>6 DEF IInv

LEMMA UserSetMarkKeeps == ASSUME IInv, UserSetMark PROVE IInv'
<1>1. UNCHANGED <<con, bev, stream, pos, avail, told, stack, heap>>
  BY DEF UserSetMark
<1>2. StackOk' /\ LoopInv' /\ NestInv'
  BY <1>1, StackSame DEF con
<1>3. BevOk' /\ BevInv'
  BY <1>1, BevSame DEF con
<1>4. ObjOk' /\ rpl' \in Length
  BY <1>1 DEF IInv, ObjOk, con
<1>5. IoOk'
  <2>1. prog.marks \subseteq Mark
    BY ProgramAssumption DEF IInv, ObjOk
  <2> QED
    BY <1>1, <2>1 DEF UserSetMark, IInv, IoOk
<1>6. RunInv'
  BY <1>1, RunPop DEF con
<1>7. DeleteInv'
  BY <1>1, DeleteSame DEF con
<1> QED
  BY <1>2, <1>3, <1>4, <1>5, <1>6, <1>7 DEF IInv

LEMMA UserDeleteKeeps == ASSUME IInv, UserDelete PROVE IInv'
<1>1. Doing("Delete") /\ obj' = "freed" /\ Free /\ UNCHANGED <<prog, raw, io, told, stack, heap>>
  BY DEF UserDelete
<1>2. stack # <<>> /\ stack[1].fn # "Read"
  BY <1>1, UserBelow DEF Doing
<1>3. StackOk' /\ LoopInv' /\ NestInv'
  BY <1>1, StackSame
<1>4. BevOk' /\ BevInv' /\ buf' = NoBev /\ fd' = 0 /\ up' = "no" /\ rpl' \in Length
  BY <1>1, FreeData
<1>5. ObjOk' /\ IoOk'
  BY <1>1, <1>4 DEF IInv, ObjOk, IoOk, io
<1>6. RunInv'
  BY <1>1, <1>2, <1>4, RunFreed DEF io
<1>7. DeleteInv'
  <2>1. stack[1].fn = "AfterRecv" /\ ~Fails => DeletesBelowLibrary
    <3>1. ASSUME stack[1].fn = "AfterRecv", ~Fails PROVE Leads("OnRecv", "Delete")
      BY <1>1, <3>1, UnderRecv
    <3> QED
      BY <3>1 DEF DeletesBelowLibrary
  <2>2. stack[1].fn = "OnError" /\ ~Fails => DeletesBelowLibrary
    <3>1. ASSUME stack[1].fn = "OnError", ~Fails PROVE Leads("OnError", "Delete")
      BY <1>1, <3>1, UnderError
    <3> QED
      BY <3>1 DEF DeletesBelowLibrary
  <2> QED
    BY <1>1, <1>2, <2>1, <2>2, ProgSame DEF IInv, DeleteInv
<1> QED
  BY <1>3, <1>4, <1>5, <1>6, <1>7 DEF IInv

LEMMA UserReturnKeeps == ASSUME IInv, UserReturn PROVE IInv'
<1>1. UNCHANGED <<con, bev, io, told, heap>> /\ stack # <<>> /\ Pop
  BY DEF UserReturn, InUserCode
<1>2. ObjOk' /\ IoOk' /\ rpl' \in Length
  BY <1>1 DEF IInv, ObjOk, IoOk, con, io
<1>3. StackOk' /\ LoopInv' /\ NestInv' /\ (stack' # <<>> => stack'[1] = stack[1])
  BY <1>1, StackPop DEF con
<1>4. BevOk' /\ BevInv'
  BY <1>1, BevSame DEF con
<1>5. RunInv'
  BY <1>1, <1>3, RunPop DEF con, io
<1>6. DeleteInv'
  BY <1>1, <1>3, DeleteSame DEF con
<1> QED
  BY <1>2, <1>3, <1>4, <1>5, <1>6 DEF IInv

LEMMA ErrorReturnKeeps == ASSUME IInv, ErrorReturn PROVE IInv'
<1>1. Running("OnError") /\ UNCHANGED io /\ stack # <<>>
  BY DEF ErrorReturn, Running
<1>2. IoOk'
  BY <1>1 DEF IInv, IoOk, io
<1>3. /\ Len(stack) \in 1..Len(stack) /\ stack[Len(stack)].fn = "OnError"
      /\ InUserCode /\ (~Fails => stack[1].fn = "OnError")
  <2>1. Len(stack) \in 1..Len(stack) /\ stack[Len(stack)].fn = "OnError"
    BY <1>1, TopFacts DEF Running, IInv
  <2>2. InUserCode
    BY <1>1 DEF Running, InUserCode, UserFn
  <2>4. ~Fails => \A i \in 1..Len(stack) : stack[i].fn = "OnError" => i = 1
    BY DEF IInv, NestInv
  <2>3. ~Fails => Len(stack) = 1
    BY <2>1, <2>4
  <2> QED
    BY <2>1, <2>2, <2>3
<1>4. CASE obj = "freed"
  <2>1. heap' = "corrupt" /\ UNCHANGED <<con, bev, told, stack>>
    BY <1>4 DEF ErrorReturn
  <2>2. StackOk' /\ LoopInv' /\ NestInv'
    BY <2>1, StackSame DEF con
  <2>3. BevOk' /\ BevInv'
    BY <2>1, BevSame DEF con
  <2>4. ObjOk' /\ rpl' \in Length
    BY <2>1 DEF IInv, ObjOk, con
  <2>5. RunInv'
    BY <1>1, <2>1, RunPop DEF con, io
  <2>6. ~DeletesBelowLibrary /\ ~Fails => FALSE
    BY <1>1, <1>3, <1>4 DEF IInv, DeleteInv
  <2>7. DeleteInv'
    BY <2>1, <2>6, ProgSame DEF DeleteInv, con
  <2> QED
    BY <1>2, <2>2, <2>3, <2>4, <2>5, <2>7 DEF IInv
<1>5. CASE /\ heap' = heap /\ stack' = Below /\ UNCHANGED <<con, bev, told>>
  <2>1. StackOk' /\ LoopInv' /\ NestInv' /\ (stack' # <<>> => stack'[1] = stack[1])
    BY <1>1, <1>5, StackPop DEF con, Pop
  <2>2. BevOk' /\ BevInv'
    BY <1>5, BevSame DEF con
  <2>3. ObjOk' /\ rpl' \in Length
    BY <1>5 DEF IInv, ObjOk, con
  <2>4. RunInv'
    BY <1>1, <1>5, <2>1, RunPop DEF con, io
  <2>5. DeleteInv'
    BY <1>1, <1>5, <2>1, DeleteSame DEF con
  <2> QED
    BY <1>2, <2>1, <2>2, <2>3, <2>4, <2>5 DEF IInv
<1>6. CASE /\ heap' = heap /\ Free /\ told' = [told EXCEPT ![buf] = "disconnected"]
           /\ stack' = Append(Below, Fr("OnDisconnected", buf))
           /\ UNCHANGED <<prog, obj, raw>>
  <2>1. buf \in Bev \cup {NoBev}
    BY DEF IInv, ObjOk
  <2>2. /\ StackOk' /\ LoopInv' /\ NestInv' /\ stack' # <<>> /\ Len(stack') = Len(stack)
        /\ IF Len(stack) = 1 THEN stack'[1].fn = "OnDisconnected"
                             ELSE stack'[1] = stack[1] /\ Fails
    BY <1>1, <1>6, <2>1, StackErrorDisc DEF Become
  <2>3. BevOk' /\ BevInv' /\ buf' = NoBev /\ fd' = 0 /\ up' = "no" /\ rpl' \in Length
    BY <1>6, FreeData
  <2>4. ObjOk'
    BY <1>6, <2>3 DEF IInv, ObjOk
  <2>5. stack[1].fn # "Read"
    BY <1>3, UserBelow
  <2>6. RunInv'
    <3>1. stack'[1].fn # "Read" /\ (stack'[1].fn = "AfterRecv" => stack'[1] = stack[1])
      BY <2>2, <2>5
    <3> QED
      BY <1>1, <1>6, <2>2, <2>3, <3>1, RunFreed DEF io
  <2>7. DeleteInv'
    BY <1>1, <1>6, <2>2, DeleteSame
  <2> QED
    BY <1>2, <2>2, <2>3, <2>4, <2>6, <2>7 DEF IInv
<1>7. obj # "freed" => DisConnect(Below) /\ heap' = heap
  BY DEF ErrorReturn
<1> QED
  BY <1>4, <1>5, <1>6, <1>7, DisConnectCases

LEMMA StutterKeeps == ASSUME IInv, UNCHANGED vars PROVE IInv'
<1>1. UNCHANGED <<con, bev, io, told, heap, stack>>
  BY DEF vars, con, io
<1>2. ObjOk' /\ IoOk' /\ rpl' \in Length
  BY <1>1 DEF IInv, ObjOk, IoOk, con, io
<1>3. StackOk' /\ LoopInv' /\ NestInv'
  BY <1>1, StackSame DEF con
<1>4. BevOk' /\ BevInv'
  BY <1>1, BevSame DEF con
<1>5. RunInv' /\ DeleteInv'
  BY <1>1, RunPop, DeleteSame DEF con, io
<1> QED
  BY <1>2, <1>3, <1>4, <1>5 DEF IInv

LEMMA NextKeeps == IInv /\ [Next]_vars => IInv'
<1> SUFFICES ASSUME IInv, [Next]_vars PROVE IInv'
  OBVIOUS
<1>1. CASE \E b \in Bev : LoopEvent(b)
  BY <1>1, ConnectedKeeps, ErrorEventKeeps, ReadEventKeeps DEF LoopEvent
<1>2. CASE ProgramRuns
  BY <1>2, ProgramRunsKeeps
<1>3. CASE Library
  BY <1>3, ConnectReturnKeeps, AfterRawKeeps, ReadReturnKeeps, ReadBadLengthKeeps, ReadDeliverKeeps,
     AfterRecvFreedKeeps, AfterRecvGoneKeeps, AfterRecvDrainKeeps DEF Library
<1>4. CASE User
  BY <1>4, UserDisConnectKeeps, UserSendKeepsInv, UserConnectKeeps, UserDeleteKeeps,
     UserSetRawKeeps, UserSetMarkKeeps, UserReturnKeeps, ErrorReturnKeeps DEF User
<1>5. CASE UNCHANGED vars
  BY <1>5, StutterKeeps
<1> QED
  BY <1>1, <1>2, <1>3, <1>4, <1>5 DEF Next

-----------------------------------------------------------------------------
(* The theorems. *)

\* The inductive invariant, for all programs.
THEOREM InvCorrect == Spec => []IInv
  BY InitInv, NextKeeps, PTL DEF Spec

\* Every variable keeps its type, and while no connect fails at once a
\* bufferevent that can still call the object is its m_buf_e, so Free reaches it.
THEOREM OwnedBevCorrect == Spec => []OwnedBev
<1>1. IInv => OwnedBev
  BY IInvTypes DEF IInv, BevInv, OwnedBev, FailedIsClosed
<1> QED
  BY <1>1, InvCorrect, PTL

\* The read loop and conn_event_callback never use an object the program
\* deleted, if it deletes it nowhere below them and no connect fails at once.
THEOREM NoUseCorrect == Spec => []NoUseAfterFree
<1>1. IInv => NoUseAfterFree
  BY DEF IInv, DeleteInv, NoUseAfterFree
<1> QED
  BY <1>1, InvCorrect, PTL

\* An error closes the connection that conn_event_callback was called for.
THEOREM ErrorCorrect == Spec => ErrorClosesOwn
<1>1. ASSUME IInv, ~Fails, ~Leads("OnError", "Connect"), Running("OnError"), buf # NoBev
      PROVE  Top.bev = buf
  <2>1. stack # <<>> /\ Top = stack[Len(stack)] /\ Top.fn = "OnError" /\ Len(stack) \in 1..Len(stack)
    BY <1>1, TopFacts DEF Running, IInv
  <2>2. \A i \in 1..Len(stack) : stack[i].fn = "OnError" => i = 1
    BY <1>1 DEF IInv, NestInv
  <2>3. Len(stack) = 1
    BY <2>1, <2>2
  <2> QED
    BY <1>1, <2>1, <2>3 DEF IInv, RunInv
<1>2. IInv /\ [Next]_vars =>
        [~Fails /\ ~Leads("OnError", "Connect") =>
         (Running("OnError") /\ obj' = "alive" /\ buf # NoBev /\ buf' = NoBev
            /\ Len(stack') <= Len(stack) => Top.bev = buf)]_vars
  BY <1>1
<1> QED
  BY <1>2, InvCorrect, PTL DEF Spec, ErrorClosesOwn

-----------------------------------------------------------------------------
(* What starts in a step. *)

\* No callback starts when the stack stays or a frame returns.
LEMMA NoneSame == ASSUME stack' = stack, NEW fn, NEW b PROVE ~Starts(fn, b)
  BY DEF Starts

LEMMA NonePop == ASSUME IInv, stack # <<>>, Pop, NEW fn, NEW b PROVE ~Starts(fn, b)
<1>1. Len(stack') = Len(stack) - 1 /\ Len(stack) \in Nat
  BY FrontFacts DEF Pop, Below, IInv, StackOk
<1> QED
  BY <1>1 DEF Starts

LEMMA OnlyTop ==
    ASSUME NEW f, NEW s \in Seq(Frame), f \in Frame, stack' = Append(s, f), NEW fn, NEW b, Starts(fn, b)
    PROVE  f.fn = fn /\ f.bev = b
<1>1. Append(s, f)[Len(s) + 1] = f /\ Len(Append(s, f)) = Len(s) + 1
  BY AppendFacts
<1> QED
  BY <1>1 DEF Starts

LEMMA OnlyTopOfTwo ==
    ASSUME NEW f \in Frame, NEW g \in Frame, NEW s \in Seq(Frame), stack' = s \o <<f, g>>,
           NEW fn, NEW b, Starts(fn, b)
    PROVE  g.fn = fn /\ g.bev = b
<1>1. (s \o <<f, g>>)[Len(s) + 2] = g /\ Len(s \o <<f, g>>) = Len(s) + 2
  BY TwoFacts
<1> QED
  BY <1>1 DEF Starts

\* What a callback that starts tells of.
Told(b) ==
    /\ Starts("OnConnected", b) => told[b] = "nothing"
    /\ Starts("OnDisconnected", b) => told[b] # "disconnected"
    /\ Starts("OnRecv", b) /\ ~ReconnectsInRecv => told[b] = "connected"

LEMMA ToldNone ==
    ASSUME IInv, NEW b \in Bev, stack' = stack \/ (stack # <<>> /\ Pop)
    PROVE  Told(b)
  BY NoneSame, NonePop DEF Told

LEMMA ToldOther ==
    ASSUME IInv, NEW s \in Seq(Frame), NEW f \in Frame, stack' = Append(s, f), NEW b \in Bev,
           f.fn \notin {"OnConnected", "OnDisconnected", "OnRecv"}
    PROVE  Told(b)
  BY OnlyTop DEF Told

LEMMA ToldDisConnect ==
    ASSUME IInv, NEW s \in Seq(Frame), DisConnect(s), s = stack \/ (stack # <<>> /\ s = Below),
           NEW b \in Bev
    PROVE  Told(b)
<1>1. CASE stack' = s
  BY <1>1, ToldNone DEF Pop
<1>2. CASE stack' = Append(s, Fr("OnDisconnected", buf))
  <2> DEFINE f == Fr("OnDisconnected", buf)
  <2>1. f \in Frame /\ f.fn = "OnDisconnected" /\ f.bev = buf
    BY FrTypes DEF UserFn, IInv, ObjOk
  <2>2. b # NoBev
    BY DEF Bev, NoBev
  <2>3. stack' = Append(s, f)
    BY <1>2
  <2> HIDE DEF f
  <2>4. \A fn : Starts(fn, b) => fn = "OnDisconnected" /\ b = buf
    BY <2>1, <2>3, OnlyTop
  <2>5. buf = b => told[b] # "disconnected"
    BY <2>2 DEF IInv, BevInv
  <2> QED
    BY <2>4, <2>5 DEF Told
<1> QED
  BY <1>1, <1>2, DisConnectCases

LEMMA ToldNext == ASSUME IInv, Next, NEW b \in Bev PROVE Told(b)
<1> USE DEF IInv
<1>0. stack \in Seq(Frame) /\ <<>> \in Seq(Frame)
  BY EmptySeq DEF StackOk
<1>1. ASSUME NEW a \in Bev, Connected(a) PROVE Told(b)
  <2> DEFINE f == Fr("OnConnected", a)
  <2>1. f \in Frame /\ f.fn = "OnConnected" /\ f.bev = a
    BY FrTypes DEF UserFn
  <2>2. stack' = Append(stack, f)
    BY <1>1 DEF Connected, Push
  <2> HIDE DEF f
  <2>3. \A fn : Starts(fn, b) => fn = "OnConnected" /\ b = a
    BY <1>0, <2>1, <2>2, OnlyTop
  <2>4. told[a] = "nothing"
    BY <1>1 DEF Connected, BevInv
  <2> QED
    BY <2>3, <2>4 DEF Told
<1>2. ASSUME NEW a \in Bev, ErrorEvent(a) PROVE Told(b)
  <2>1. CASE stack' = stack
    BY <2>1, ToldNone
  <2>2. CASE stack' = Append(stack, Fr("OnError", a))
    <3>1. Fr("OnError", a) \in Frame /\ Fr("OnError", a).fn = "OnError"
      BY FrTypes DEF UserFn
    <3> QED
      BY <1>0, <2>2, <3>1, ToldOther
  <2> QED
    BY <1>2, <2>1, <2>2 DEF ErrorEvent, Push
<1>3. ASSUME NEW a \in Bev, ReadEvent(a) PROVE Told(b)
  <2> DEFINE f == Fr("AfterRaw", a)
             g == Fr("OnRawRecv", a)
             h == Fr("Read", a)
  <2>1. f \in Frame /\ g \in Frame /\ g.fn = "OnRawRecv" /\ h \in Frame /\ h.fn = "Read"
    BY FrTypes DEF UserFn, LibFn
  <2>2. stack' = stack \/ stack' = <<f, g>> \/ stack' = Append(stack, h)
    <3>1. Triggers(a) \in BOOLEAN /\ raw \in {"yes", "no"}
      BY DEF Triggers, ObjOk
    <3> QED
      BY <1>3, <3>1 DEF ReadEvent, Push
  <2> HIDE DEF f, g, h
  <2>3. CASE stack' = <<f, g>>
    <3>1. stack' = Append(<<f>>, g) /\ <<f>> \in Seq(Frame)
      BY <2>1, <2>3
    <3> QED
      BY <2>1, <3>1, ToldOther
  <2>4. CASE stack' = Append(stack, h)
    BY <1>0, <2>1, <2>4, ToldOther
  <2> QED
    BY <2>2, <2>3, <2>4, ToldNone
<1>4. CASE ProgramRuns
  <2>1. Fr("Program", NoBev) \in Frame /\ Fr("Program", NoBev).fn = "Program"
    BY FrTypes DEF UserFn
  <2> QED
    BY <1>0, <1>4, <2>1, ToldOther DEF ProgramRuns, Push
<1>5. CASE ConnectReturn \/ AfterRaw \/ ReadReturn \/ AfterRecvFreed \/ AfterRecvGone \/ UserReturn
  BY <1>5, ToldNone DEF ConnectReturn, AfterRaw, ReadReturn, AfterRecvFreed, AfterRecvGone, UserReturn,
     Running, InUserCode
<1>6. CASE ReadBadLength
  <2>1. stack # <<>> /\ Below = <<>>
    BY <1>6, ReaderAlone DEF ReadBadLength, Running
  <2> QED
    BY <1>0, <1>6, <2>1, ToldDisConnect DEF ReadBadLength
<1>7. CASE ReadDeliver
  <2>1. stack # <<>> /\ Top = stack[1] /\ stack[1].fn = "Read" /\ Top.bev \in Bev /\ Below = <<>>
    BY <1>7, ReaderAlone DEF ReadDeliver, Running
  <2> DEFINE g == Fr("OnRecv", Top.bev)
  <2>2. PICK len \in PackLen(Top.bev) :
          stack' = Below \o <<[Fr("AfterRecv", Top.bev) EXCEPT !.n = HeadLen + len], g>>
    BY <1>7 DEF ReadDeliver
  <2>3. stack' = <<[Fr("AfterRecv", Top.bev) EXCEPT !.n = HeadLen + len], g>>
    BY <2>1, <2>2
  <2>4. g.fn = "OnRecv" /\ g.bev = Top.bev
    BY <2>1, FrTypes DEF UserFn
  <2> HIDE DEF g
  <2>5. stack'[Len(stack')] = g
    BY <2>3
  <2>6. \A fn : Starts(fn, b) => fn = "OnRecv" /\ b = Top.bev
    BY <2>4, <2>5 DEF Starts
  <2>7. ~ReconnectsInRecv => told[Top.bev] = "connected"
    BY <2>1 DEF RunInv
  <2> QED
    BY <2>6, <2>7 DEF Told
<1>8. CASE AfterRecvDrain
  <2>1. stack # <<>> /\ Top.bev \in Bev /\ Below = <<>>
    BY <1>8, ReaderAlone DEF AfterRecvDrain, Running
  <2>2. Fr("Read", Top.bev) \in Frame /\ Fr("Read", Top.bev).fn = "Read"
    BY <2>1, FrTypes DEF LibFn
  <2> QED
    BY <1>0, <1>8, <2>1, <2>2, ToldOther DEF AfterRecvDrain, Become
<1>9. CASE UserDisConnect \/ UserSendOverflow
  BY <1>0, <1>9, ToldDisConnect DEF UserDisConnect, UserSendOverflow
<1>10. CASE UserConnect
  <2>1. PICK a \in Bev : ConnectStarts(a) \/ ConnectFails(a)
    BY <1>10 DEF UserConnect, ConnectByAddr
  <2>2. CASE ConnectStarts(a)
    BY <2>2, ToldNone DEF ConnectStarts
  <2>3. CASE ConnectFails(a)
    <3> DEFINE f == Fr("Connect", a)
               g == Fr("OnError", a)
    <3>1. f \in Frame /\ g \in Frame /\ g.fn = "OnError"
      BY FrTypes DEF UserFn, LibFn
    <3>2. stack' = stack \o <<f, g>>
      BY <2>3 DEF ConnectFails
    <3> HIDE DEF f, g
    <3>3. \A fn : Starts(fn, b) => fn = "OnError"
      BY <1>0, <3>1, <3>2, OnlyTopOfTwo
    <3> QED
      BY <3>3 DEF Told
  <2> QED
    BY <2>1, <2>2, <2>3
<1>11. CASE UserDelete \/ UserSetRaw \/ UserSetMark
  BY <1>11, ToldNone DEF UserDelete, UserSetRaw, UserSetMark
<1>12. CASE ErrorReturn
  <2>1. stack # <<>> /\ (stack' = stack \/ DisConnect(Below))
    BY <1>12 DEF ErrorReturn, Running
  <2>2. Below \in Seq(Frame)
    BY <1>0, <2>1, FrontFacts DEF Below
  <2> QED
    BY <2>1, <2>2, ToldNone, ToldDisConnect
<1> QED
  BY <1>1, <1>2, <1>3, <1>4, <1>5, <1>6, <1>7, <1>8, <1>9, <1>10, <1>11, <1>12
  DEF Next, LoopEvent, Library, User

\* Whatever the program does, it hears of each connection at most once that it is
\* up and at most once that it is over, and never in the wrong order.
THEOREM ToldOnceCorrect == Spec => ToldOnce
<1>1. IInv /\ [Next]_vars =>
        [\A b \in Bev : /\ Starts("OnConnected", b) => told[b] = "nothing"
                        /\ Starts("OnDisconnected", b) => told[b] # "disconnected"]_vars
  BY ToldNext DEF Told
<1> QED
  BY <1>1, InvCorrect, PTL DEF Spec, ToldOnce

\* OnRecv runs only between OnConnected and OnDisconnected of its connection,
\* unless the program reconnects in OnRecv.
THEOREM RecvCorrect == Spec => RecvWhileConnected
<1>1. IInv /\ [Next]_vars => [~ReconnectsInRecv => RecvStep]_vars
  BY ToldNext DEF Told, RecvStep
<1> QED
  BY <1>1, InvCorrect, PTL DEF Spec, RecvWhileConnected

-----------------------------------------------------------------------------
(* Where messages begin. *)

Framing == ~ReconnectsInRecv /\ ChoosesRawFirst

\* The buffer of b begins where a message begins, or where the stream ends.
Begins(b, k)  == pos[b] = Units(SubSeq(stream[b], 1, k))
AtBoundary(b) == \E k \in 0..Len(stream[b]) : Begins(b, k)

\* No more is read than the peer sends; before it is connected nothing is.
BytesOk(b) ==
    /\ pos[b] + avail[b] <= Units(stream[b])
    /\ bev[b] \in {"none", "connecting"} => pos[b] = 0 /\ avail[b] = 0
BytesInv ==
    /\ \A b \in Bev : BytesOk(b)
    /\ buf # NoBev => bev[buf] \in {"connecting", "open", "down"}

\* What the bottom frame knows.  Nothing of a connection is read in its OnConnected.
BottomOk ==
    /\ stack[1].fn = "OnConnected" => rpl = 0 /\ (buf # NoBev => pos[buf] = 0 /\ avail[buf] = 0)
    /\ stack[1].fn = "Read" => raw = "no" /\ buf = stack[1].bev /\ bev[stack[1].bev] # "connecting"
    /\ stack[1].fn = "AfterRaw" => raw = "yes"
    /\ stack[1].fn = "AfterRecv" =>
         /\ raw = "no"
         /\ obj = "alive" /\ fd # 0 => buf = stack[1].bev /\ rpl # 0 /\ stack[1].n = HeadLen + rpl
BottomInv == Framing /\ stack # <<>> => BottomOk

\* A connection that is read in frames is at a boundary, and m_rev_pack_len is the
\* length of the message there.
HeadOk ==
    /\ raw = "no" /\ buf # NoBev => AtBoundary(buf)
    /\ rpl # 0 => /\ raw = "no" /\ buf # NoBev /\ bev[buf] # "connecting"
                  /\ \E k \in AtFront(buf) : rpl = stream[buf][k]
HeadInv == Framing => HeadOk

FramingInv == BytesInv /\ BottomInv /\ HeadInv

-----------------------------------------------------------------------------
(* The lengths of prefixes of a stream. *)

\* h[j] is what the first j messages take.
Sums(s, h) ==
    /\ h \in [0..Len(s) -> Nat] /\ h[0] = 0
    /\ \A j \in 1..Len(s) : h[j] = h[j - 1] + HeadLen + s[j]

LEMMA UnitsSums ==
    ASSUME NEW s \in Seq(Length)
    PROVE  \E h : Sums(s, h) /\ Units(s) = h[Len(s)]
<1> DEFINE D == DOMAIN s
           add(x, i) == x + HeadLen + s[i]
           J == [T \in SUBSET D |-> Nat]
           c == [T \in SUBSET D |-> Max(T)]
           F == [p \in D \X Nat |-> add(p[2], p[1])]
           it == CHOOSE f : f = [T \in SUBSET D |-> IF T = {} THEN 0 ELSE add(f[T \ {Max(T)}], Max(T))]
<1>0. /\ Len(s) \in Nat /\ D = 1..Len(s) /\ HeadLen \in Nat /\ IsFiniteSet(D)
      /\ \A i \in D : s[i] \in Nat
  <2>1. \A i \in DOMAIN s : s[i] \in Length
    BY LenProperties
  <2> QED
    BY <2>1, LenProperties, LenAssumption, FS_Interval DEF Length
<1>1. Units(s) = it[D]
  BY <1>0 DEF Units, FoldLeft, MapThenFoldSet
<1>2. \A T \in SUBSET D : T # {} => c[T] \in T /\ c[T] = Max(T)
  BY <1>0, MaxIsGreatest
<1>3. \A i \in D, x \in Nat : F[<<i, x>>] = add(x, i) /\ add(x, i) \in Nat
  BY <1>0
<1>4. \A T \in SUBSET D : J[T] = Nat
  OBVIOUS
<1> HIDE DEF add, J, c, F, it, D
<1>5. PICK g : FoldGraph(D, c, Nat, F, 0, g)
  <2>1. \A T \in SUBSET D : J[T] \subseteq Nat
    BY <1>4
  <2>2. 0 \in J[{}]
    BY <1>4
  <2>3. \A T \in SUBSET D : \A i \in D \ T : \A x \in J[T] : F[<<i, x>>] \in J[T \union {i}]
    <3> SUFFICES ASSUME NEW T \in SUBSET D, NEW i \in D \ T, NEW x \in J[T]
                 PROVE  F[<<i, x>>] \in J[T \union {i}]
      BY Zenon
    <3>1. x \in Nat /\ i \in D /\ T \union {i} \in SUBSET D
      BY <1>4
    <3> QED
      BY <1>3, <1>4, <3>1
  <2>4. FoldStep(D, c, Nat, J, F, 0)
    BY <1>2, <2>1, <2>2, <2>3, Zenon DEF FoldStep
  <2> QED
    BY <1>0, <2>4, FoldExists, Zenon
<1>6. g \in [SUBSET D -> Nat] /\ \A T \in SUBSET D : g[T] = IF T = {} THEN 0 ELSE F[<<c[T], g[T \ {c[T]}]>>]
  BY <1>5, Zenon DEF FoldGraph
<1>7. \A T \in SUBSET D : g[T] = IF T = {} THEN 0 ELSE add(g[T \ {Max(T)}], Max(T))
  <2> SUFFICES ASSUME NEW T \in SUBSET D, T # {} PROVE g[T] = add(g[T \ {Max(T)}], Max(T))
    BY <1>6
  <2>1. c[T] \in D /\ T \ {c[T]} \in SUBSET D /\ c[T] = Max(T)
    BY <1>2
  <2>2. g[T \ {c[T]}] \in Nat
    BY <1>6, <2>1
  <2>3. g[T] = F[<<c[T], g[T \ {c[T]}]>>]
    BY <1>6
  <2> QED
    BY <1>3, <2>1, <2>2, <2>3
<1>8. \A T \in SUBSET D : it[T] = IF T = {} THEN 0 ELSE add(it[T \ {Max(T)}], Max(T))
  <2> DEFINE R == [T \in SUBSET D |-> IF T = {} THEN 0 ELSE add(g[T \ {Max(T)}], Max(T))]
             Q(f) == f = [T \in SUBSET D |-> IF T = {} THEN 0 ELSE add(f[T \ {Max(T)}], Max(T))]
  <2>1. \A T \in SUBSET D : R[T] = g[T]
    BY <1>7
  <2>2. R = [T \in SUBSET D |-> R[T]] /\ g = [T \in SUBSET D |-> g[T]]
    BY <1>6
  <2> HIDE DEF R
  <2>3. g = R
    BY <2>1, <2>2
  <2>4. Q(g)
    BY <2>3 DEF R
  <2>5. it = CHOOSE f : Q(f)
    BY DEF it
  <2> HIDE DEF Q
  <2>6. Q(it)
    BY <2>4, <2>5, Zenon
  <2> QED
    BY <2>6 DEF Q
<1>9. \A T \in SUBSET D : it[T] \in Nat
  <2> DEFINE K == [T \in SUBSET D |-> {x \in {it[T]} : x \in Nat}]
  <2>1. it[{}] \in K[{}]
    <3>1. it[{}] = 0
      BY <1>8
    <3> QED
      BY <3>1
  <2>2. \A T \in SUBSET D : it[T] \in K[T] <=> it[T] \in Nat
    OBVIOUS
  <2> HIDE DEF K
  <2> SUFFICES ASSUME NEW S \in SUBSET D PROVE it[S] \in K[S]
    BY <2>2
  <2>3. IsFiniteSet(S)
    BY <1>0, FS_Subset
  <2>4. \A T \in SUBSET S : T # {} => c[T] \in T
    BY <1>2
  <2>5. ASSUME NEW T \in SUBSET S, T # {}, it[T \ {c[T]}] \in K[T \ {c[T]}]
        PROVE  it[T] \in K[T]
    <3>1. T \in SUBSET D /\ T \ {c[T]} \in SUBSET D /\ c[T] \in D /\ c[T] = Max(T)
      BY <1>2, <2>5
    <3>2. it[T \ {c[T]}] \in Nat
      BY <2>2, <2>5, <3>1
    <3>3. it[T] = add(it[T \ {c[T]}], c[T])
      BY <1>8, <2>5, <3>1
    <3>4. it[T] \in Nat
      BY <1>3, <3>1, <3>2, <3>3
    <3> QED
      BY <2>2, <3>1, <3>4
  <2> QED
    BY <2>1, <2>3, <2>4, <2>5, FoldInduct
<1> DEFINE h == [j \in 0..Len(s) |-> it[1..j]]
<1>10. ASSUME NEW j \in 1..Len(s)
       PROVE  it[1..j] = add(it[1..(j - 1)], j)
  <2>1. 1..j \in SUBSET D /\ 1..j # {} /\ j \in 1..j
    BY <1>0 DEF D
  <2>2. Max(1..j) \in 1..j /\ \A i \in 1..j : Max(1..j) >= i
    BY <1>0, <2>1, MaxIsGreatest DEF D
  <2>3. Max(1..j) = j
    BY <1>0, <2>1, <2>2
  <2>4. (1..j) \ {j} = 1..(j - 1)
    BY <1>0
  <2> QED
    BY <1>8, <2>1, <2>3, <2>4
<1>11. \A j \in 0..Len(s) : 1..j \in SUBSET D
  BY <1>0 DEF D
<1>12. h \in [0..Len(s) -> Nat]
  BY <1>9, <1>11
<1>13. h[0] = 0
  <2>1. 1..0 = {} /\ 0 \in 0..Len(s)
    BY <1>0
  <2> QED
    BY <1>8, <2>1
<1>14. \A j \in 1..Len(s) : h[j] = h[j - 1] + HeadLen + s[j]
  <2>1. \A j \in 1..Len(s) : j \in 0..Len(s) /\ j - 1 \in 0..Len(s)
    BY <1>0
  <2> QED
    BY <1>10, <2>1 DEF add
<1>15. Units(s) = h[Len(s)]
  BY <1>0, <1>1 DEF D
<1> HIDE DEF h
<1> QED
  BY <1>12, <1>13, <1>14, <1>15 DEF Sums

\* A prefix takes what the sum for it says.
LEMMA UnitsPrefix ==
    ASSUME NEW s \in Seq(Length), NEW h, Sums(s, h)
    PROVE  \A k \in 0..Len(s) : Units(SubSeq(s, 1, k)) = h[k]
<1> SUFFICES ASSUME NEW k \in 0..Len(s) PROVE Units(SubSeq(s, 1, k)) = h[k]
  OBVIOUS
<1> DEFINE u == SubSeq(s, 1, k)
<1>1. /\ Len(s) \in Nat /\ k \in Nat /\ k <= Len(s)
      /\ u \in Seq(Length) /\ Len(u) = k /\ \A j \in 1..k : u[j] = s[j]
  <2>1. Len(s) \in Nat /\ k \in Nat /\ k <= Len(s) /\ \A j \in 1..k : s[j] \in Length
    BY LenProperties
  <2>2. /\ u \in Seq(Length)
        /\ Len(u) = IF 1 <= k THEN k - 1 + 1 ELSE 0
        /\ \A j \in 1..(k - 1 + 1) : u[j] = s[1 + j - 1]
    BY <2>1, SubSeqProperties
  <2> QED
    BY <2>1, <2>2
<1> HIDE DEF u
<1>2. PICK g : Sums(u, g) /\ Units(u) = g[Len(u)]
  BY <1>1, UnitsSums
<1> DEFINE P == {j \in Nat : j <= k => g[j] = h[j]}
<1>3. 0 \in P
  BY <1>2 DEF Sums
<1>4. ASSUME NEW j \in P PROVE j + 1 \in P
  <2> SUFFICES ASSUME j + 1 <= k PROVE g[j + 1] = h[j + 1]
    OBVIOUS
  <2>1. j \in Nat /\ g[j] = h[j] /\ j + 1 \in 1..k /\ j + 1 \in 1..Len(s) /\ (j + 1) - 1 = j
    BY <1>1
  <2>2. g[j + 1] = g[j] + HeadLen + u[j + 1]
    BY <1>1, <1>2, <2>1 DEF Sums
  <2>3. h[j + 1] = h[j] + HeadLen + s[j + 1]
    BY <2>1 DEF Sums
  <2> QED
    BY <1>1, <2>1, <2>2, <2>3
<1>5. P \in SUBSET Nat
  OBVIOUS
<1> HIDE DEF P
<1>6. P = Nat
  BY <1>3, <1>4, <1>5, SetInduction
<1> QED
  BY <1>1, <1>2, <1>6 DEF P, u

\* What the framing needs: where the stream begins and ends, and one message more.
LEMMA UnitsFacts ==
    ASSUME NEW s \in Seq(Length)
    PROVE  /\ Len(s) \in Nat /\ DOMAIN s = 1..Len(s) /\ Units(s) \in Nat
           /\ Units(SubSeq(s, 1, 0)) = 0
           /\ Units(SubSeq(s, 1, Len(s))) = Units(s)
           /\ \A k \in 1..Len(s) :
                Units(SubSeq(s, 1, k)) = Units(SubSeq(s, 1, k - 1)) + HeadLen + s[k]
<1>0. Len(s) \in Nat /\ DOMAIN s = 1..Len(s)
  BY LenProperties
<1>1. PICK h : Sums(s, h) /\ Units(s) = h[Len(s)]
  BY UnitsSums
<1>2. \A k \in 0..Len(s) : Units(SubSeq(s, 1, k)) = h[k]
  BY <1>1, UnitsPrefix
<1>3. \A k \in 1..Len(s) : k \in 0..Len(s) /\ k - 1 \in 0..Len(s)
  BY <1>0
<1>4. 0 \in 0..Len(s) /\ Len(s) \in 0..Len(s)
  BY <1>0
<1> QED
  BY <1>0, <1>1, <1>2, <1>3, <1>4 DEF Sums

LEMMA StreamSeq ==
    ASSUME IInv, NEW b \in Bev
    PROVE  stream[b] \in Seq(Length) /\ pos[b] \in Nat /\ avail[b] \in Nat
<1>1. stream[b] \in Streams \cup {<<>>} /\ pos[b] \in Nat /\ avail[b] \in Nat
  BY DEF IInv, IoOk
<1>2. <<>> \in Seq(Length)
  BY EmptySeq
<1> QED
  BY <1>1, <1>2, StreamAssumption

LEMMA BufBev == ASSUME IInv, buf # NoBev PROVE buf \in Bev
  BY DEF IInv, ObjOk

LEMMA SameFront ==
    ASSUME UNCHANGED <<stream, pos>>, NEW b
    PROVE  AtFront(b)' = AtFront(b) /\ (AtBoundary(b)' <=> AtBoundary(b))
  BY DEF AtFront, AtBoundary, Begins

LEMMA FramingSameProg == ASSUME prog' = prog PROVE Framing' <=> Framing
  BY ProgSame DEF Framing, ChoosesRawFirst, Can

\* The bottom frame stays, or an event starts one that says nothing.
Bottom(fns) ==
    stack' # <<>> => \/ stack # <<>> /\ stack'[1] = stack[1] /\ stack[1].fn \notin fns
                     \/ stack'[1].fn \notin {"OnConnected", "Read", "AfterRaw", "AfterRecv"}

\* No byte is moved, and the connection stays.
LEMMA FramingSame ==
    ASSUME IInv, FramingInv, prog' = prog, UNCHANGED <<obj, buf, fd, rpl, raw, bev, stream, pos, avail>>,
           Bottom({})
    PROVE  FramingInv'
<1>1. BytesInv'
  BY DEF FramingInv, BytesInv, BytesOk
<1>2. BottomInv'
  <2> SUFFICES ASSUME Framing, stack' # <<>> PROVE BottomOk'
    BY FramingSameProg DEF BottomInv
  <2>1. CASE stack # <<>> /\ stack'[1] = stack[1]
    <3>1. BottomOk
      BY <2>1 DEF FramingInv, BottomInv
    <3> QED
      BY <2>1, <3>1 DEF BottomOk
  <2>2. CASE stack'[1].fn \notin {"OnConnected", "Read", "AfterRaw", "AfterRecv"}
    BY <2>2 DEF BottomOk
  <2> QED
    BY <2>1, <2>2 DEF Bottom
<1>3. HeadInv'
  <2>1. Framing => HeadOk
    BY DEF FramingInv, HeadInv
  <2>2. AtFront(buf)' = AtFront(buf) /\ (AtBoundary(buf)' <=> AtBoundary(buf))
    BY DEF AtFront, AtBoundary, Begins
  <2> QED
    BY <2>1, <2>2, FramingSameProg DEF HeadInv, HeadOk
<1> QED
  BY <1>1, <1>2, <1>3 DEF FramingInv

\* The connection is freed.
LEMMA FramingFreed ==
    ASSUME IInv, FramingInv, prog' = prog, Free, UNCHANGED <<raw, stream, pos, avail>>,
           Bottom({"Read"})
    PROVE  FramingInv'
<1>1. /\ buf' = NoBev /\ fd' = 0 /\ rpl' = 0
      /\ bev' = IF buf = NoBev THEN bev ELSE [bev EXCEPT ![buf] = "free"]
  BY DEF Free
<1>2. BytesInv'
  <2>1. \A b \in Bev : bev'[b] \in {bev[b], "free"}
    BY <1>1 DEF IInv, BevOk
  <2> QED
    BY <1>1, <2>1 DEF FramingInv, BytesInv, BytesOk
<1>3. BottomInv'
  <2> SUFFICES ASSUME Framing, stack' # <<>> PROVE BottomOk'
    BY FramingSameProg DEF BottomInv
  <2>1. CASE stack # <<>> /\ stack'[1] = stack[1] /\ stack[1].fn # "Read"
    <3>1. BottomOk
      BY <2>1 DEF FramingInv, BottomInv
    <3> QED
      BY <1>1, <2>1, <3>1 DEF BottomOk
  <2>2. CASE stack'[1].fn \notin {"OnConnected", "Read", "AfterRaw", "AfterRecv"}
    BY <2>2 DEF BottomOk
  <2> QED
    BY <2>1, <2>2 DEF Bottom
<1>4. HeadInv'
  BY <1>1 DEF HeadInv, HeadOk
<1> QED
  BY <1>2, <1>3, <1>4 DEF FramingInv

LEMMA FramingDisConnect ==
    ASSUME IInv, FramingInv, NEW frames, DisConnect(frames), UNCHANGED io, Bottom({"Read"})
    PROVE  FramingInv'
<1>1. UNCHANGED <<prog, raw, stream, pos, avail>>
  BY DEF DisConnect, con, io
<1>2. CASE UNCHANGED <<con, bev, told>>
  BY <1>1, <1>2, FramingSame DEF con, Bottom
<1>3. CASE Free
  BY <1>1, <1>3, FramingFreed
<1> QED
  BY <1>2, <1>3, DisConnectCases

LEMMA FramingInit == Init => FramingInv
<1> SUFFICES ASSUME Init PROVE FramingInv
  OBVIOUS
<1>1. Units(<<>>) = 0
  <2>1. <<>> \in Seq(Length) /\ SubSeq(<<>>, 1, 0) = <<>>
    BY EmptySeq
  <2> QED
    BY <2>1, UnitsFacts
<1>2. BytesInv
  BY <1>1 DEF Init, BytesInv, BytesOk
<1> QED
  BY <1>2 DEF Init, FramingInv, BottomInv, HeadInv, HeadOk

-----------------------------------------------------------------------------
(* Events. *)

LEMMA FramingConnected == ASSUME IInv, FramingInv, NEW b \in Bev, Connected(b) PROVE FramingInv'
<1>1. /\ bev[b] = "connecting" /\ bev' = [bev EXCEPT ![b] = "open"]
      /\ UNCHANGED <<prog, obj, buf, fd, rpl, raw, mark, stream, pos, avail>>
      /\ stack' = <<Fr("OnConnected", b)>>
  BY LoopPush DEF Connected, io
<1>2. stack'[1].fn = "OnConnected" /\ b # NoBev
  BY <1>1, FrTypes DEF UserFn, NoBev, Bev
<1>3. buf = b /\ pos[b] = 0 /\ avail[b] = 0
  BY <1>1 DEF IInv, BevInv, FramingInv, BytesInv, BytesOk
<1>4. bev \in [Bev -> {"none", "connecting", "open", "failed", "down", "free"}]
  BY DEF IInv, BevOk
<1>5. BytesInv'
  BY <1>1, <1>3, <1>4 DEF FramingInv, BytesInv, BytesOk
<1>6. Framing => rpl = 0
  BY <1>1, <1>3 DEF FramingInv, HeadInv, HeadOk
<1>7. BottomInv'
  BY <1>1, <1>2, <1>3, <1>6, FramingSameProg DEF BottomInv, BottomOk
<1>8. HeadInv'
  <2>1. AtBoundary(buf)' <=> AtBoundary(buf)
    BY <1>1 DEF AtBoundary, Begins
  <2> QED
    BY <1>1, <1>6, <2>1, FramingSameProg DEF FramingInv, HeadInv, HeadOk
<1> QED
  BY <1>5, <1>7, <1>8 DEF FramingInv

LEMMA FramingError == ASSUME IInv, FramingInv, NEW b \in Bev, ErrorEvent(b) PROVE FramingInv'
<1>1. /\ bev[b] \in {"connecting", "open", "failed"} /\ bev' = [bev EXCEPT ![b] = "down"]
      /\ UNCHANGED <<prog, obj, buf, fd, rpl, raw, mark, stream, pos, avail>>
      /\ stack = <<>> /\ (stack' = stack \/ stack' = <<Fr("OnError", b)>>)
  BY LoopPush DEF ErrorEvent, io, con, Idle
<1>2. stack' # <<>> => stack'[1].fn = "OnError"
  BY <1>1, FrTypes DEF UserFn
<1>3. bev \in [Bev -> {"none", "connecting", "open", "failed", "down", "free"}]
  BY DEF IInv, BevOk
<1>4. BytesInv'
  BY <1>1, <1>3, BufBev DEF FramingInv, BytesInv, BytesOk
<1>5. BottomInv'
  BY <1>2 DEF BottomInv, BottomOk
<1>6. HeadInv'
  <2>1. AtFront(buf)' = AtFront(buf) /\ (AtBoundary(buf)' <=> AtBoundary(buf))
    BY <1>1 DEF AtFront, AtBoundary, Begins
  <2>2. Framing => HeadOk
    BY DEF FramingInv, HeadInv
  <2>3. buf # NoBev /\ bev[buf] # "connecting" => bev'[buf] # "connecting"
    BY <1>1, <1>3, BufBev
  <2> QED
    BY <1>1, <2>1, <2>2, <2>3, FramingSameProg DEF HeadInv, HeadOk
<1> QED
  BY <1>4, <1>5, <1>6 DEF FramingInv

LEMMA FramingRead == ASSUME IInv, FramingInv, NEW b \in Bev, ReadEvent(b) PROVE FramingInv'
<1>1. /\ bev[b] = "open" /\ stack = <<>>
      /\ UNCHANGED <<prog, obj, buf, fd, rpl, raw, bev, mark, stream, pos>>
  BY DEF ReadEvent, con, Idle
<1>2. PICK n \in 1..ReadLimit(b) : avail' = [avail EXCEPT ![b] = @ + n]
  BY DEF ReadEvent
<1>3. n \in Nat /\ n <= Left(b)
  <2>1. n \in Int /\ 1 <= n /\ n <= ReadLimit(b)
    BY <1>2
  <2>2. stream[b] \in Seq(Length) /\ pos[b] \in Nat /\ avail[b] \in Nat /\ mark[b] \in Mark
    BY StreamSeq DEF IInv, IoOk
  <2>3. Units(stream[b]) \in Nat
    BY <2>2, UnitsFacts
  <2>4. Left(b) \in Int /\ mark[b].high \in Nat
    BY <2>2, <2>3 DEF Left, Mark
  <2>5. ReadLimit(b) <= Left(b)
    BY <2>2, <2>4 DEF ReadLimit, MinOf
  <2>6. ReadLimit(b) \in Int
    BY <2>2, <2>4 DEF ReadLimit, MinOf
  <2> QED
    BY <2>1, <2>4, <2>5, <2>6
<1>4. buf = b /\ b # NoBev
  BY <1>1 DEF IInv, BevInv, NoBev, Bev
<1>5. avail \in [Bev -> Nat] /\ avail'[b] = avail[b] + n
      /\ \A a \in Bev : a # b => avail'[a] = avail[a]
  BY <1>2 DEF IInv, IoOk
<1>6. BytesInv'
  <2>1. pos[b] + avail'[b] <= Units(stream[b])
    <3>1. Units(stream[b]) \in Nat /\ pos[b] \in Nat /\ avail[b] \in Nat
      BY StreamSeq, UnitsFacts
    <3> QED
      BY <1>3, <1>5, <3>1 DEF Left
  <2>2. \A a \in Bev : BytesOk(a)'
    <3> SUFFICES ASSUME NEW a \in Bev PROVE BytesOk(a)'
      OBVIOUS
    <3>1. BytesOk(a)
      BY DEF FramingInv, BytesInv
    <3> QED
      BY <1>1, <1>5, <2>1, <3>1 DEF BytesOk
  <2> QED
    BY <1>1, <2>2 DEF FramingInv, BytesInv
<1>7. \/ stack' = stack
      \/ stack' = <<Fr("AfterRaw", b), Fr("OnRawRecv", b)>> /\ raw = "yes"
      \/ stack' = <<Fr("Read", b)>> /\ raw = "no"
  <2>1. Triggers(b) \in BOOLEAN /\ raw \in {"yes", "no"}
    BY DEF Triggers, IInv, ObjOk
  <2> QED
    BY <2>1, LoopPush DEF ReadEvent
<1>8. BottomInv'
  <2>1. CASE stack' = stack
    BY <1>1, <2>1 DEF BottomInv
  <2>2. CASE stack' = <<Fr("AfterRaw", b), Fr("OnRawRecv", b)>> /\ raw = "yes"
    <3>1. stack'[1].fn = "AfterRaw"
      BY <2>2, FrTypes DEF LibFn
    <3> QED
      BY <1>1, <2>2, <3>1 DEF BottomInv, BottomOk
  <2>3. CASE stack' = <<Fr("Read", b)>> /\ raw = "no"
    <3>1. stack'[1].fn = "Read" /\ stack'[1].bev = b
      BY <2>3, FrTypes DEF LibFn
    <3> QED
      BY <1>1, <1>4, <2>3, <3>1 DEF BottomInv, BottomOk
  <2> QED
    BY <1>7, <2>1, <2>2, <2>3
<1>9. HeadInv'
  <2>1. AtFront(buf)' = AtFront(buf) /\ (AtBoundary(buf)' <=> AtBoundary(buf))
    BY <1>1 DEF AtFront, AtBoundary, Begins
  <2>2. Framing => HeadOk
    BY DEF FramingInv, HeadInv
  <2> QED
    BY <1>1, <2>1, <2>2, FramingSameProg DEF HeadInv, HeadOk
<1> QED
  BY <1>6, <1>8, <1>9 DEF FramingInv

-----------------------------------------------------------------------------
(* The read loop. *)

\* Raw reading drains what it likes: nothing else is read there.
LEMMA FramingAfterRaw == ASSUME IInv, FramingInv, AfterRaw PROVE FramingInv'
<1> DEFINE b == Top.bev
<1>1. /\ UNCHANGED <<prog, obj, buf, fd, rpl, raw, bev, mark, stream>> /\ Running("AfterRaw")
      /\ \E n \in 0..avail[b] : Drain(b, n)
  BY DEF AfterRaw, con
<1>2. stack # <<>> /\ Top = stack[1] /\ stack[1].fn = "AfterRaw" /\ b \in Bev /\ stack' = <<>>
  BY <1>1, ReaderAlone DEF Running, AfterRaw, Pop
<1> HIDE DEF b
<1>3. PICK n \in 0..avail[b] : Drain(b, n)
  BY <1>1
<1>4. avail[b] \in Nat /\ pos[b] \in Nat /\ n \in Nat /\ n <= avail[b]
  BY <1>2, StreamSeq
<1>5. /\ avail'[b] = avail[b] - n /\ pos'[b] = pos[b] + n
      /\ \A a \in Bev : a # b => avail'[a] = avail[a] /\ pos'[a] = pos[a]
  BY <1>2, <1>3 DEF Drain, IInv, IoOk
<1>6. BytesInv'
  <2> SUFFICES ASSUME NEW a \in Bev PROVE BytesOk(a)'
    BY <1>1 DEF FramingInv, BytesInv
  <2>1. BytesOk(a)
    BY DEF FramingInv, BytesInv
  <2>2. pos'[b] + avail'[b] = pos[b] + avail[b]
    BY <1>4, <1>5
  <2>3. avail[b] = 0 => n = 0
    BY <1>4
  <2> QED
    BY <1>1, <1>4, <1>5, <2>1, <2>2, <2>3 DEF BytesOk
<1>7. BottomInv'
  BY <1>2 DEF BottomInv
<1>8. HeadInv'
  <2>1. Framing => raw = "yes" /\ rpl = 0
    BY <1>2 DEF FramingInv, BottomInv, BottomOk, HeadInv, HeadOk
  <2> QED
    BY <1>1, <2>1, FramingSameProg DEF HeadInv, HeadOk
<1> QED
  BY <1>6, <1>7, <1>8 DEF FramingInv

\* What m_rev_pack_len becomes is the length of the message at the front.
LEMMA HeadRead ==
    ASSUME IInv, FramingInv, Framing, Running("Read"), avail[Top.bev] >= HeadLen,
           NEW len \in PackLen(Top.bev)
    PROVE  /\ Top = stack[1] /\ buf = Top.bev /\ buf # NoBev /\ raw = "no" /\ bev[buf] # "connecting"
           /\ \E k \in AtFront(buf) : len = stream[buf][k]
<1>1. stack # <<>> /\ Top = stack[1] /\ Top.bev \in Bev /\ stack[1].fn = "Read"
  BY ReaderAlone DEF Running
<1>2. raw = "no" /\ buf = Top.bev /\ bev[buf] # "connecting" /\ buf # NoBev
  BY <1>1 DEF FramingInv, BottomInv, BottomOk, Bev, NoBev
<1>3. CASE rpl # 0
  <2>1. len = rpl
    BY <1>3 DEF PackLen
  <2> QED
    BY <1>1, <1>2, <1>3, <2>1 DEF FramingInv, HeadInv, HeadOk
<1>4. CASE rpl = 0 /\ AtFront(buf) # {}
  <2>1. len \in {stream[buf][k] : k \in AtFront(buf)}
    BY <1>2, <1>4 DEF PackLen
  <2> QED
    BY <1>1, <1>2, <2>1
<1>5. CASE AtFront(buf) = {}
  <2>1. PICK k \in 0..Len(stream[buf]) : Begins(buf, k)
    BY <1>2 DEF FramingInv, HeadInv, HeadOk, AtBoundary
  <2> DEFINE s == stream[buf]
  <2>2. s \in Seq(Length) /\ pos[buf] \in Nat /\ avail[buf] \in Nat
    BY <1>1, <1>2, StreamSeq
  <2>3. Len(s) \in Nat /\ DOMAIN s = 1..Len(s) /\ Units(SubSeq(s, 1, Len(s))) = Units(s)
    BY <2>2, UnitsFacts
  <2>4. CASE k = Len(s)
    <3>1. pos[buf] = Units(s)
      BY <2>1, <2>3, <2>4 DEF Begins
    <3>2. pos[buf] + avail[buf] <= Units(s)
      BY <1>1, <1>2 DEF FramingInv, BytesInv, BytesOk
    <3>3. avail[buf] = 0 /\ HeadLen \in Nat /\ HeadLen # 0
      BY <2>2, <3>1, <3>2, LenAssumption
    <3> QED
      BY <1>2, <3>3
  <2>5. CASE k # Len(s)
    <3>1. k + 1 \in DOMAIN s /\ (k + 1) - 1 = k
      BY <2>1, <2>3, <2>5
    <3>2. k + 1 \in AtFront(buf)
      BY <2>1, <3>1 DEF AtFront, Begins
    <3> QED
      BY <1>5, <3>2
  <2> QED
    BY <2>4, <2>5
<1> QED
  BY <1>3, <1>4, <1>5

\* The head is read, nothing else moves.
LEMMA FramingHead ==
    ASSUME IInv, FramingInv, UNCHANGED <<prog, buf, raw, bev, stream, pos, avail>>,
           Framing => \/ rpl' = rpl
                      \/ /\ buf # NoBev /\ raw = "no" /\ bev[buf] # "connecting"
                         /\ \E k \in AtFront(buf) : rpl' = stream[buf][k],
           BottomInv'
    PROVE  FramingInv'
<1>1. BytesInv'
  BY DEF FramingInv, BytesInv, BytesOk
<1>2. HeadInv'
  <2>1. AtFront(buf)' = AtFront(buf) /\ (AtBoundary(buf)' <=> AtBoundary(buf))
    BY DEF AtFront, AtBoundary, Begins
  <2>2. Framing => HeadOk
    BY DEF FramingInv, HeadInv
  <2> QED
    BY <2>1, <2>2, FramingSameProg DEF HeadInv, HeadOk
<1> QED
  BY <1>1, <1>2 DEF FramingInv

LEMMA FramingReadReturn == ASSUME IInv, FramingInv, ReadReturn PROVE FramingInv'
<1>1. UNCHANGED <<prog, obj, buf, fd, raw, bev, mark, stream, pos, avail>> /\ Running("Read") /\ Pop
  BY DEF ReadReturn, io
<1>2. stack' = <<>>
  BY <1>1, ReaderAlone DEF Running, Pop
<1>3. rpl' = rpl \/ (avail[Top.bev] >= HeadLen /\ rpl' \in PackLen(Top.bev))
  BY DEF ReadReturn
<1> QED
  BY <1>1, <1>2, <1>3, HeadRead, FramingHead DEF BottomInv

LEMMA FramingDeliver == ASSUME IInv, FramingInv, ReadDeliver PROVE FramingInv'
<1>1. UNCHANGED <<prog, obj, buf, fd, raw, bev, mark, stream, pos, avail>> /\ Running("Read")
      /\ avail[Top.bev] >= HeadLen
  BY DEF ReadDeliver, io
<1>2. Top = stack[1] /\ Top.bev \in Bev /\ Below = <<>> /\ stack # <<>> /\ stack[1].fn = "Read"
  BY <1>1, ReaderAlone DEF Running
<1>3. PICK len \in PackLen(Top.bev) :
        /\ ~Bad(len) /\ rpl' = len
        /\ stack' = Below \o <<[Fr("AfterRecv", Top.bev) EXCEPT !.n = HeadLen + len],
                               Fr("OnRecv", Top.bev)>>
  BY DEF ReadDeliver
<1> DEFINE f == [Fr("AfterRecv", Top.bev) EXCEPT !.n = HeadLen + len]
<1>4. f.fn = "AfterRecv" /\ f.bev = Top.bev /\ f.n = HeadLen + len
  BY DEF Fr
<1>5. stack' = <<f, Fr("OnRecv", Top.bev)>>
  BY <1>2, <1>3
<1> HIDE DEF f
<1>6. stack'[1] = f
  BY <1>5
<1>7. rpl' # 0
  BY <1>3 DEF Bad
<1>8. BottomInv'
  BY <1>1, <1>2, <1>3, <1>4, <1>6, <1>7, FramingSameProg
  DEF FramingInv, BottomInv, BottomOk
<1> QED
  BY <1>1, <1>3, <1>8, HeadRead, FramingHead

\* A message is drained; the next one begins there.
LEMMA FramingDrain == ASSUME IInv, FramingInv, AfterRecvDrain PROVE FramingInv'
<1>1. /\ UNCHANGED <<prog, obj, buf, fd, raw, bev, mark, stream>> /\ Running("AfterRecv")
      /\ obj = "alive" /\ fd # 0 /\ rpl' = 0 /\ Drain(Top.bev, Top.n) /\ Become(Fr("Read", Top.bev))
  BY DEF AfterRecvDrain, IsWaitConnectReq
<1>2. /\ stack # <<>> /\ Top = stack[1] /\ Top.bev \in Bev /\ Below = <<>> /\ stack[1].fn = "AfterRecv"
      /\ Top.n \in Nat /\ Top.n <= avail[Top.bev]
  <2>1. stack # <<>> /\ Top = stack[1] /\ Top.bev \in Bev /\ Below = <<>> /\ stack[1].fn = "AfterRecv"
    BY <1>1, ReaderAlone DEF Running
  <2>2. Top.n \in 0..HeadLen + MaxLen /\ Top.n <= avail[Top.bev]
    BY <2>1, TopFacts DEF IInv, Frame, RunInv
  <2> QED
    BY <2>1, <2>2, LenAssumption
<1>b. PICK b \in Bev : b = Top.bev
  BY <1>2
<1>n. PICK n \in Nat : n = Top.n
  BY <1>2
<1>d. Drain(b, n) /\ n <= avail[b]
  BY <1>1, <1>2, <1>b, <1>n
<1>3. avail[b] \in Nat /\ pos[b] \in Nat /\ stream[b] \in Seq(Length)
  BY StreamSeq
<1>4. /\ avail'[b] = avail[b] - n /\ pos'[b] = pos[b] + n
      /\ \A a \in Bev : a # b => avail'[a] = avail[a] /\ pos'[a] = pos[a]
  BY <1>d DEF Drain, IInv, IoOk
<1>5. BytesInv'
  <2> SUFFICES ASSUME NEW a \in Bev PROVE BytesOk(a)'
    BY <1>1 DEF FramingInv, BytesInv
  <2>1. BytesOk(a)
    BY DEF FramingInv, BytesInv
  <2>2. pos'[b] + avail'[b] = pos[b] + avail[b]
    BY <1>3, <1>4
  <2>3. avail[b] = 0 => n = 0
    BY <1>3, <1>d
  <2> QED
    BY <1>1, <1>3, <1>4, <2>1, <2>2, <2>3 DEF BytesOk
<1>6. stack' = <<Fr("Read", b)>>
  BY <1>1, <1>2, <1>b DEF Become
<1>7. stack'[1].fn = "Read" /\ stack'[1].bev = b
  BY <1>2, <1>6, FrTypes DEF LibFn
<1>8. Framing => /\ raw = "no" /\ buf = b /\ rpl # 0 /\ n = HeadLen + rpl
                 /\ bev[b] # "connecting" /\ \E k \in AtFront(b) : rpl = stream[b][k]
  BY <1>1, <1>2, <1>b, <1>n DEF FramingInv, BottomInv, BottomOk, HeadInv, HeadOk
<1>9. BottomInv'
  BY <1>1, <1>7, <1>8, FramingSameProg DEF BottomInv, BottomOk
<1>10. HeadInv'
  <2> SUFFICES ASSUME Framing PROVE AtBoundary(b)'
    BY <1>1, <1>8, FramingSameProg DEF HeadInv, HeadOk
  <2>1. PICK k \in AtFront(b) : rpl = stream[b][k]
    BY <1>8
  <2>2. k \in DOMAIN stream[b] /\ Units(SubSeq(stream[b], 1, k - 1)) = pos[b]
    BY DEF AtFront
  <2>3. /\ DOMAIN stream[b] = 1..Len(stream[b]) /\ Len(stream[b]) \in Nat
        /\ Units(SubSeq(stream[b], 1, k)) = Units(SubSeq(stream[b], 1, k - 1)) + HeadLen + stream[b][k]
    BY <1>3, <2>2, UnitsFacts
  <2>4. pos'[b] = Units(SubSeq(stream[b], 1, k)) /\ k \in 0..Len(stream[b])
    <3>1. n = HeadLen + rpl /\ rpl \in Nat /\ HeadLen \in Nat
      BY <1>8, LenAssumption DEF IInv, Length
    <3>2. pos'[b] = pos[b] + HeadLen + rpl
      BY <1>3, <1>4, <3>1
    <3>3. pos'[b] = Units(SubSeq(stream[b], 1, k))
      BY <2>1, <2>2, <2>3, <3>2
    <3> QED
      BY <2>2, <2>3, <3>3
  <2> QED
    BY <1>1, <2>4 DEF AtBoundary, Begins
<1> QED
  BY <1>5, <1>9, <1>10 DEF FramingInv

LEMMA FramingLibrary == ASSUME IInv, FramingInv, Library PROVE FramingInv'
<1>1. CASE ConnectReturn
  <2>1. UNCHANGED <<con, bev, io, told>> /\ stack # <<>> /\ Pop
    BY <1>1 DEF ConnectReturn, Running
  <2>2. stack' # <<>> => stack'[1] = stack[1]
    BY <2>1, StackPop DEF con
  <2> QED
    BY <2>1, <2>2, FramingSame DEF con, io, Bottom
<1>2. CASE AfterRecvFreed
  BY <1>2, FramingSame DEF AfterRecvFreed, con, io, Bottom
<1>3. CASE AfterRecvGone
  <2>1. stack' = <<>>
    BY <1>3, ReaderAlone DEF AfterRecvGone, Running, Pop
  <2> QED
    BY <1>3, <2>1, FramingSame DEF AfterRecvGone, con, io, Bottom
<1>4. CASE ReadBadLength
  <2>1. stack # <<>> /\ Below = <<>>
    BY <1>4, ReaderAlone DEF ReadBadLength, Running
  <2>2. stack' = <<>> \/ stack' = <<Fr("OnDisconnected", buf)>>
    BY <1>4, <2>1 DEF ReadBadLength, DisConnect
  <2>3. stack' # <<>> => stack'[1].fn = "OnDisconnected"
    BY <2>2, FrTypes DEF UserFn, IInv, ObjOk
  <2> QED
    BY <1>4, <2>3, FramingDisConnect DEF ReadBadLength, Bottom
<1> QED
  BY <1>1, <1>2, <1>3, <1>4, FramingAfterRaw, FramingReadReturn, FramingDeliver, FramingDrain DEF Library

-----------------------------------------------------------------------------
(* User code. *)

LEMMA FramingUserDisConnect ==
    ASSUME IInv, FramingInv, UserDisConnect \/ UserSendOverflow
    PROVE  FramingInv'
<1>1. InUserCode /\ Closes(Top.fn) /\ DisConnect(stack) /\ UNCHANGED io
  BY DEF UserDisConnect, UserSendOverflow, Doing, Closes, Can
<1>2. stack # <<>> /\ stack[1].fn # "Read"
  BY <1>1, UserBelow
<1>3. stack' = stack \/ stack' = Append(stack, Fr("OnDisconnected", buf))
  BY <1>1 DEF DisConnect
<1>4. prog' = prog
  BY <1>1 DEF DisConnect, con
<1>5. stack'[1] = stack[1]
  <2>1. buf \in Bev \cup {NoBev}
    BY DEF IInv, ObjOk
  <2> QED
    BY <1>1, <1>3, <1>4, <2>1, StackPushDisc
<1> QED
  BY <1>1, <1>2, <1>5, FramingDisConnect DEF Bottom

\* A connection starts with no byte read; below is no read loop that framing has.
LEMMA FramingConnectStarts ==
    ASSUME IInv, FramingInv, Doing("Connect"), fd = 0, NEW b \in Bev, NewBev(b), ConnectStarts(b)
    PROVE  FramingInv'
<1>1. UNCHANGED <<prog, obj, rpl, raw, pos, avail, stack>> /\ obj = "alive"
  BY DEF ConnectStarts, Doing
<1>2. bev[b] = "none" /\ pos[b] = 0 /\ avail[b] = 0 /\ b # NoBev /\ b # buf
  <2>1. bev[b] = "none" /\ b # NoBev
    BY DEF NewBev, Bev, NoBev
  <2> QED
    BY <2>1 DEF FramingInv, BytesInv, BytesOk
<1>3. PICK s \in Streams : stream' = [stream EXCEPT ![b] = s]
  BY DEF ConnectStarts
<1>4. s \in Seq(Length) /\ stream'[b] = s /\ \A a \in Bev : a # b => stream'[a] = stream[a]
  BY <1>3, StreamAssumption DEF IInv, IoOk
<1>5. Units(s) \in Nat /\ Units(SubSeq(s, 1, 0)) = 0 /\ 0 \in 0..Len(s)
  BY <1>4, UnitsFacts
<1>6. \/ buf = NoBev /\ buf' = b /\ bev' = [bev EXCEPT ![b] = "connecting"]
      \/ buf # NoBev /\ bev' = [bev EXCEPT ![b] = "free"] /\ UNCHANGED <<buf, fd>>
  BY DEF ConnectStarts, SetSocketInfo
<1>7. /\ \A a \in Bev : a # b => bev'[a] = bev[a]
      /\ buf = NoBev => bev'[b] = "connecting"
      /\ buf # NoBev => bev'[b] = "free"
  BY <1>6 DEF IInv, BevOk
<1>8. BytesInv'
  <2>1. \A a \in Bev : BytesOk(a)'
    <3> SUFFICES ASSUME NEW a \in Bev PROVE BytesOk(a)'
      OBVIOUS
    <3>1. BytesOk(a)
      BY DEF FramingInv, BytesInv
    <3>2. CASE a = b
      <4>1. pos'[a] = 0 /\ avail'[a] = 0 /\ stream'[a] = s
        BY <1>1, <1>2, <1>4, <3>2
      <4> QED
        BY <1>5, <4>1 DEF BytesOk
    <3>3. CASE a # b
      BY <1>1, <1>4, <1>7, <3>1, <3>3 DEF BytesOk
    <3> QED
      BY <3>2, <3>3
  <2>2. buf' # NoBev => bev'[buf'] \in {"connecting", "open", "down"}
    BY <1>2, <1>6, <1>7, BufBev DEF FramingInv, BytesInv
  <2> QED
    BY <2>1, <2>2 DEF BytesInv
<1>9. stack # <<>> /\ stack[1].fn # "Read"
  BY UserBelow DEF Doing
<1>10. BottomInv'
  <2> SUFFICES ASSUME Framing, stack # <<>> PROVE BottomOk'
    BY <1>1, FramingSameProg DEF BottomInv
  <2>1. BottomOk
    BY DEF FramingInv, BottomInv
  <2>2. stack[1].fn # "AfterRecv"
    BY UnderRecv DEF Framing, ReconnectsInRecv
  <2>3. stack[1].fn = "OnConnected" => rpl' = 0 /\ (buf' # NoBev => pos'[buf'] = 0 /\ avail'[buf'] = 0)
    BY <1>1, <1>2, <1>6, <2>1 DEF BottomOk
  <2> QED
    BY <1>1, <1>9, <2>1, <2>2, <2>3 DEF BottomOk
<1>11. HeadInv'
  <2> SUFFICES ASSUME Framing PROVE HeadOk'
    BY <1>1, FramingSameProg DEF HeadInv
  <2>1. HeadOk
    BY DEF FramingInv, HeadInv
  <2>2. CASE buf = NoBev
    <3>1. rpl' = 0 /\ buf' = b
      BY <1>1, <1>6, <2>1, <2>2 DEF HeadOk
    <3>2. AtBoundary(b)'
      BY <1>1, <1>2, <1>4, <1>5 DEF AtBoundary, Begins
    <3> QED
      BY <3>1, <3>2 DEF HeadOk
  <2>3. CASE buf # NoBev
    <3>1. buf' = buf /\ stream'[buf] = stream[buf] /\ pos'[buf] = pos[buf] /\ bev'[buf] = bev[buf]
      BY <1>1, <1>2, <1>4, <1>6, <1>7, <2>3, BufBev
    <3>2. AtFront(buf)' = AtFront(buf) /\ (AtBoundary(buf)' <=> AtBoundary(buf))
      BY <3>1 DEF AtFront, AtBoundary, Begins
    <3> QED
      BY <1>1, <2>1, <3>1, <3>2 DEF HeadOk
  <2> QED
    BY <2>2, <2>3
<1> QED
  BY <1>8, <1>10, <1>11 DEF FramingInv

LEMMA FramingConnectFails ==
    ASSUME IInv, FramingInv, Doing("Connect"), NEW b \in Bev, NewBev(b), ConnectFails(b)
    PROVE  FramingInv'
<1>1. /\ UNCHANGED <<prog, obj, buf, fd, rpl, raw, stream, pos, avail>>
      /\ bev' = [bev EXCEPT ![b] = "failed"] /\ Fails
      /\ stack' = stack \o <<Fr("Connect", b), Fr("OnError", b)>>
  BY DEF ConnectFails, con, io, Fails
<1>2. stack # <<>> /\ stack'[1] = stack[1] /\ stack[1].fn # "Read"
  BY <1>1, StackPushFails, UserBelow DEF Doing
<1>3. \A a \in Bev : bev'[a] = bev[a] \/ bev'[a] = "failed"
  BY <1>1 DEF IInv, BevOk
<1>4. bev[b] = "none"
  BY DEF NewBev
<1>5. buf # NoBev => bev'[buf] = bev[buf]
  <2>1. buf # NoBev => buf # b
    BY <1>4 DEF FramingInv, BytesInv
  <2> QED
    BY <1>1, <2>1, BufBev DEF IInv, BevOk
<1>6. BytesInv'
  BY <1>1, <1>3, <1>5 DEF FramingInv, BytesInv, BytesOk
<1>7. BottomInv'
  <2> SUFFICES ASSUME Framing PROVE BottomOk'
    BY <1>1, FramingSameProg DEF BottomInv
  <2>1. BottomOk
    BY <1>2 DEF FramingInv, BottomInv
  <2> QED
    BY <1>1, <1>2, <2>1 DEF BottomOk
<1>8. HeadInv'
  <2>1. Framing => HeadOk
    BY DEF FramingInv, HeadInv
  <2>2. AtFront(buf)' = AtFront(buf) /\ (AtBoundary(buf)' <=> AtBoundary(buf))
    BY <1>1 DEF AtFront, AtBoundary, Begins
  <2> QED
    BY <1>1, <1>5, <2>1, <2>2, FramingSameProg DEF HeadInv, HeadOk
<1> QED
  BY <1>6, <1>7, <1>8 DEF FramingInv

\* Framed reading is chosen where nothing of the connection is read.
LEMMA FramingSetRaw == ASSUME IInv, FramingInv, UserSetRaw PROVE FramingInv'
<1>1. UNCHANGED <<prog, obj, buf, fd, rpl, bev, stream, pos, avail, stack>> /\ Doing("SetRaw")
  BY DEF UserSetRaw, io
<1>2. BytesInv'
  BY <1>1 DEF FramingInv, BytesInv, BytesOk
<1>3. Framing => stack # <<>> /\ stack[1].fn = "OnConnected"
  <2>1. stack # <<>> /\ Top.fn \in UserFn /\ Can(Top.fn, "SetRaw")
    BY <1>1 DEF Doing, InUserCode, Can
  <2>2. Framing => Top.fn = "OnConnected"
    BY <2>1 DEF Framing, ChoosesRawFirst
  <2>3. Top = stack[Len(stack)] /\ Len(stack) \in 1..Len(stack)
    BY <2>1, TopFacts DEF IInv
  <2>4. \A i \in 1..Len(stack) : stack[i].fn = "OnConnected" => i = 1
    BY DEF IInv, LoopInv, Base
  <2> QED
    BY <2>1, <2>2, <2>3, <2>4
<1>4. Framing => rpl = 0 /\ (buf # NoBev => pos[buf] = 0)
  BY <1>3 DEF FramingInv, BottomInv, BottomOk
<1>5. BottomInv'
  <2> SUFFICES ASSUME Framing PROVE BottomOk'
    BY <1>1, FramingSameProg DEF BottomInv
  <2>1. BottomOk /\ stack[1].fn = "OnConnected"
    BY <1>3 DEF FramingInv, BottomInv
  <2> QED
    BY <1>1, <2>1 DEF BottomOk
<1>6. HeadInv'
  <2> SUFFICES ASSUME Framing, buf # NoBev PROVE AtBoundary(buf)'
    BY <1>1, <1>4, FramingSameProg DEF HeadInv, HeadOk
  <2>1. stream[buf] \in Seq(Length) /\ pos[buf] = 0
    BY <1>4, BufBev, StreamSeq
  <2>2. Units(SubSeq(stream[buf], 1, 0)) = 0 /\ 0 \in 0..Len(stream[buf])
    BY <2>1, UnitsFacts
  <2> QED
    BY <1>1, <2>1, <2>2 DEF AtBoundary, Begins
<1> QED
  BY <1>2, <1>5, <1>6 DEF FramingInv

LEMMA FramingErrorReturn == ASSUME IInv, FramingInv, ErrorReturn PROVE FramingInv'
<1>1. Running("OnError") /\ UNCHANGED io /\ stack # <<>>
  BY DEF ErrorReturn, Running
<1>2. CASE obj = "freed"
  BY <1>1, <1>2, FramingSame DEF ErrorReturn, con, io, Bottom
<1>3. CASE obj # "freed"
  <2>1. DisConnect(Below)
    BY <1>3 DEF ErrorReturn
  <2>2. prog' = prog
    BY <2>1 DEF DisConnect, con
  <2>3. stack[1].fn # "Read"
    BY <1>1, UserBelow DEF Running, InUserCode, UserFn
  <2>4. CASE stack' = Below
    BY <1>1, <2>1, <2>2, <2>3, <2>4, StackPop, FramingDisConnect DEF Pop, Bottom
  <2>5. CASE stack' = Append(Below, Fr("OnDisconnected", buf))
    <3>1. buf \in Bev \cup {NoBev}
      BY DEF IInv, ObjOk
    <3>2. stack'[1] = stack[1] \/ stack'[1].fn = "OnDisconnected"
      BY <1>1, <2>2, <2>5, <3>1, StackErrorDisc DEF Become
    <3> QED
      BY <1>1, <2>1, <2>3, <3>2, FramingDisConnect DEF Bottom
  <2> QED
    BY <2>1, <2>4, <2>5 DEF DisConnect
<1> QED
  BY <1>2, <1>3

LEMMA FramingUser == ASSUME IInv, FramingInv, User PROVE FramingInv'
<1>1. CASE UserConnect
  <2>1. PICK b \in Bev : NewBev(b) /\ (ConnectStarts(b) \/ ConnectFails(b))
    BY <1>1 DEF UserConnect, ConnectByAddr
  <2>2. Doing("Connect") /\ fd = 0
    BY <1>1 DEF UserConnect, ConnectByAddr, IsWaitConnectReq
  <2> QED
    BY <2>1, <2>2, FramingConnectStarts, FramingConnectFails
<1>2. CASE UserDelete
  <2>1. Free /\ UNCHANGED <<prog, raw, io, stack>> /\ stack # <<>> /\ stack[1].fn # "Read"
    BY <1>2, UserBelow DEF UserDelete, Doing
  <2> QED
    BY <2>1, FramingFreed DEF io, Bottom
<1>3. CASE UserSetMark
  <2>1. UNCHANGED <<con, bev, stream, pos, avail, stack>>
    BY <1>3 DEF UserSetMark
  <2> QED
    BY <2>1, FramingSame DEF con, Bottom
<1>4. CASE UserReturn
  <2>1. UNCHANGED <<con, bev, io>> /\ stack # <<>> /\ Pop
    BY <1>4 DEF UserReturn, InUserCode
  <2>2. stack' # <<>> => stack'[1] = stack[1]
    BY <2>1, StackPop DEF con
  <2> QED
    BY <2>1, <2>2, FramingSame DEF con, io, Bottom
<1> QED
  BY <1>1, <1>2, <1>3, <1>4, FramingUserDisConnect, FramingSetRaw, FramingErrorReturn DEF User

LEMMA FramingNext == IInv /\ FramingInv /\ [Next]_vars => FramingInv'
<1> SUFFICES ASSUME IInv, FramingInv, [Next]_vars PROVE FramingInv'
  OBVIOUS
<1>1. CASE \E b \in Bev : LoopEvent(b)
  BY <1>1, FramingConnected, FramingError, FramingRead DEF LoopEvent
<1>2. CASE ProgramRuns
  <2>1. UNCHANGED <<con, bev, io>> /\ stack' = <<Fr("Program", NoBev)>>
    BY <1>2, LoopPush DEF ProgramRuns
  <2>2. stack'[1].fn = "Program"
    BY <2>1, FrTypes DEF UserFn
  <2> QED
    BY <2>1, <2>2, FramingSame DEF con, io, Bottom
<1>3. CASE UNCHANGED vars
  BY <1>3, FramingSame DEF vars, Bottom
<1> QED
  BY <1>1, <1>2, <1>3, FramingLibrary, FramingUser DEF Next

\* The length kept in m_rev_pack_len is that of the message at the front of the
\* current connection's buffer, which is read in frames, if the program neither
\* reconnects in OnRecv nor changes how it reads after OnConnected.
THEOREM FramingCorrect == Spec => []FramingOwn
<1>1. FramingInv => FramingOwn
  BY DEF FramingInv, HeadInv, HeadOk, Framing, FramingOwn
<1>2. Init => IInv /\ FramingInv
  BY InitInv, FramingInit
<1>3. IInv /\ FramingInv /\ [Next]_vars => (IInv /\ FramingInv)'
  BY NextKeeps, FramingNext
<1> QED
  BY <1>1, <1>2, <1>3, PTL DEF Spec
=============================================================================
