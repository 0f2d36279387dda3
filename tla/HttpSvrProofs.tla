---------------------------- MODULE HttpSvrProofs ----------------------------
(***************************************************************************)
(* Proofs about HttpSvr, for any connections, any streams of requests and  *)
(* any program of RevRequest.                                              *)
(***************************************************************************)
EXTENDS HttpSvr, SequenceTheorems, TLAPS

-----------------------------------------------------------------------------
(* The invariants. *)

ReadStates == {"firstline", "headers", "body", "trailer"}

\* The one frame that may run, and the connection it runs for.
Frame(c)  == calls = <<<<"read", c>>>> \/ calls = <<<<"RevRequest", c>>>>
FrameOk   == Idle \/ \E c \in Conns : Frame(c)
Framed(c) == ~Idle /\ Con = c

\* evhttp_read_cb runs for a connection that reads; RevRequest for one that
\* writes, and the request presented is the one the connection works on until it
\* is answered.
CallsInv ==
    /\ FrameOk
    /\ Running("read") =>
         svr = "alive" /\ readcb[Con] = "yes" /\ state[Con] \in ReadStates
    /\ Running("RevRequest") /\ svr = "alive" =>
         /\ state[Con] = "writing" /\ curReq \in {NoReq, <<Con, nth[Con]>>}
         /\ curReq = NoReq => readcb[Con] = "no"
    /\ svr = "alive" /\ ~Running("RevRequest") => curReq = NoReq

\* The read callback is set only while a request is being read, and a deferred
\* one is scheduled only for a connection that lives and reads.
ReaderOk(c) ==
    /\ Live(c) => nth[c] > 0
    /\ Live(c) /\ readcb[c] = "yes" /\ ~Framed(c) => state[c] \in ReadStates
    /\ more[c] = "yes" => Live(c) /\ readcb[c] = "yes" /\ ~Framed(c)
ReaderInv == \A c \in Conns : ReaderOk(c)

\* Only a program that deletes the server in RevRequest gets into trouble: the
\* others delete it when no callback runs, and then none runs any more.
DeleteInv ==
    /\ svr = "freed" => \A c \in Conns : state[c] = "freed"
    /\ svr = "freed" /\ Running("RevRequest") => "Delete" \in does
    /\ trouble = "corrupt" => "Delete" \in does

\* TypeOK in parts.
ServerOk ==
    /\ svr \in {"alive", "freed"} /\ does \in SUBSET Deeds
    /\ curReq = NoReq \/ curReq \in Conns \X (Nat \ {0})
    /\ trouble \in {"none", "corrupt"}
ConOk ==
    /\ state \in [Conns -> {"none", "firstline", "headers", "body", "trailer", "writing", "freed"}]
    /\ nth \in [Conns -> Nat]
    /\ read \in Flag /\ readcb \in Flag /\ write \in Flag /\ more \in Flag
    /\ cb \in [Conns -> {"null", "continue", "done"}]
    /\ closing \in Flag /\ userdone \in Flag
OrderOk(c) == pos[c] <= arrived[c] /\ arrived[c] <= sent[c]
InputOk ==
    /\ DOMAIN stream = Conns /\ \A c \in Conns : stream[c] \in Streams[c] \cup {<<>>}
    /\ sent \in [Conns -> Nat] /\ arrived \in [Conns -> Nat] /\ pos \in [Conns -> Nat]
    /\ eof \in Flag
    /\ \A c \in Conns : OrderOk(c)
OutputOk == out \in [Conns -> Seq(Nat)] /\ got \in [Conns -> Seq(Nat)]

IInv == ServerOk /\ ConOk /\ InputOk /\ OutputOk /\ CallsInv /\ ReaderInv /\ DeleteInv

\* The peer has received the answers to the first n requests, in their order.
InOrder(s, n) ==
    /\ {s[i] : i \in 1..Len(s)} \ {Continue} = 1..n
    /\ \A j \in 1..Len(s) :
         s[j] # Continue => {s[i] : i \in 1..(j - 1)} \ {Continue} = 1..(s[j] - 1)

OnlyContinue(s) == \A i \in 1..Len(s) : s[i] = Continue
EndsWith(s, n)  == /\ s # <<>> /\ s[Len(s)] = n
                   /\ \A i \in 1..(Len(s) - 1) : s[i] = Continue

\* While a request is read, nothing but status lines 100 is on its way; once it
\* is answered, its answer is the last of the output.
TurnOk(c) ==
    /\ \E n \in Nat : InOrder(got[c], n)
    /\ state[c] = "none" => got[c] = <<>> /\ out[c] = <<>> /\ nth[c] = 0
    /\ Live(c) => InOrder(got[c], nth[c] - 1)
    /\ Live(c) /\ readcb[c] = "yes" =>
         OnlyContinue(out[c]) /\ (out[c] # <<>> => cb[c] = "continue")
    /\ Live(c) /\ readcb[c] = "no" => EndsWith(out[c], nth[c]) /\ cb[c] = "done"
PresentedInv == svr = "alive" /\ curReq # NoReq => readcb[curReq[1]] = "yes"
TurnInv == (\A c \in Conns : TurnOk(c)) /\ PresentedInv

TurnsInv == "Reply" \notin does => TurnInv

-----------------------------------------------------------------------------
(* The frame of the running callback. *)

LEMMA OnlyOne ==
    ASSUME NEW f
    PROVE  Head(<<f>>) = f /\ Tail(<<f>>) = <<>> /\ <<f>> # <<>>
<1>1. /\ <<f>> \in Seq({f}) /\ Len(<<f>>) = 1 /\ <<f>> # <<>> /\ Head(<<f>>) = f
  OBVIOUS
<1>2. Tail(<<f>>) \in Seq({f}) /\ Len(Tail(<<f>>)) = 0
  BY <1>1, HeadTailProperties
<1> QED
  BY <1>1, <1>2, EmptySeq

LEMMA FrameFacts ==
    ASSUME FrameOk, ~Idle
    PROVE  /\ Con \in Conns /\ Tail(calls) = <<>>
           /\ \/ Running("read") /\ ~Running("RevRequest") /\ calls = <<<<"read", Con>>>>
              \/ Running("RevRequest") /\ ~Running("read") /\ calls = <<<<"RevRequest", Con>>>>
<1>1. PICK c \in Conns : Frame(c)
  BY DEF FrameOk
<1>2. ASSUME NEW fn, calls = <<<<fn, c>>>>
      PROVE  /\ Con = c /\ Tail(calls) = <<>>
             /\ \A f : Running(f) <=> f = fn
  <2>1. Top = <<fn, c>> /\ Tail(calls) = <<>> /\ calls # <<>>
    BY <1>2, OnlyOne DEF Top
  <2>2. Top[1] = fn /\ Con = c
    BY <2>1 DEF Con
  <2> QED
    BY <2>1, <2>2 DEF Running
<1>3. "read" # "RevRequest"
  OBVIOUS
<1> QED
  BY <1>1, <1>2, <1>3 DEF Frame

LEMMA CallsTypes ==
    ASSUME FrameOk PROVE calls = <<>> \/ calls \in Seq({"read", "RevRequest"} \X Conns)
  BY DEF FrameOk, Frame, Idle

LEMMA SameCalls ==
    ASSUME calls' = calls
    PROVE  /\ FrameOk' <=> FrameOk
           /\ Con' = Con /\ (Idle' <=> Idle)
           /\ \A fn : Running(fn)' <=> Running(fn)
           /\ \A c : Framed(c)' <=> Framed(c)
  BY DEF FrameOk, Frame, Con, Top, Idle, Running, Framed

LEMMA NoCalls ==
    ASSUME calls' = <<>>
    PROVE  /\ FrameOk' /\ Idle'
           /\ \A fn : ~Running(fn)'
           /\ \A c : ~Framed(c)'
  BY DEF FrameOk, Idle, Running, Framed

LEMMA OneCall ==
    ASSUME NEW c \in Conns, NEW fn \in {"read", "RevRequest"}, calls' = <<<<fn, c>>>>
    PROVE  /\ FrameOk' /\ ~Idle' /\ Con' = c
           /\ \A f : Running(f)' <=> f = fn
           /\ \A d : Framed(d)' <=> d = c
<1>1. calls' # <<>> /\ Head(calls') = <<fn, c>>
  OBVIOUS
<1>2. FrameOk'
  BY DEF FrameOk, Frame
<1> QED
  BY <1>1, <1>2 DEF Idle, Running, Framed, Con, Top

-----------------------------------------------------------------------------
(* What the operators of the library do. *)

LEMMA AppendNat ==
    ASSUME NEW s \in Seq(Nat), NEW n \in Nat
    PROVE  /\ Append(s, n) \in Seq(Nat) /\ Append(s, n) # <<>>
           /\ Len(s) \in Nat /\ Len(Append(s, n)) = Len(s) + 1
           /\ Append(s, n)[Len(s) + 1] = n
           /\ \A i \in 1..Len(s) : Append(s, n)[i] = s[i]
  OBVIOUS

LEMMA SendTypes ==
    ASSUME ConOk, OutputOk, NEW c \in Conns, Send(c)
    PROVE  /\ userdone' \in Flag /\ readcb' \in Flag /\ write' \in Flag
           /\ cb' \in [Conns -> {"null", "continue", "done"}]
           /\ out' \in [Conns -> Seq(Nat)]
<1>1. Append(out[c], nth[c]) \in Seq(Nat)
  BY AppendNat DEF ConOk, OutputOk
<1> QED
  BY <1>1 DEF ConOk, OutputOk, Send, Flag

LEMMA NewRequestTypes ==
    ASSUME ConOk, NEW c \in Conns, NewRequest(c)
    PROVE  /\ nth' \in [Conns -> Nat] /\ closing' \in Flag /\ userdone' \in Flag
           /\ read' \in Flag /\ readcb' \in Flag /\ write' \in Flag /\ more' \in Flag
           /\ state' \in [Conns -> {"none", "firstline", "headers", "body", "trailer",
                                    "writing", "freed"}]
<1>1. /\ nth' \in [Conns -> Nat] /\ closing' \in Flag /\ userdone' \in Flag
  BY DEF ConOk, OutputOk, NewRequest, Flag
<1>2. /\ read' \in Flag /\ readcb' \in Flag /\ write' \in Flag /\ more' \in Flag
  BY DEF ConOk, OutputOk, NewRequest, StartRead, Flag
<1>3. state' \in [Conns -> {"none", "firstline", "headers", "body", "trailer", "writing", "freed"}]
  BY DEF ConOk, OutputOk, NewRequest, StartRead, Enter
<1> QED
  BY <1>1, <1>2, <1>3

LEMMA FreeConTypes ==
    ASSUME ConOk, OutputOk, NEW c \in Conns, FreeCon(c)
    PROVE  /\ more' \in Flag /\ out' \in [Conns -> Seq(Nat)]
           /\ state' \in [Conns -> {"none", "firstline", "headers", "body", "trailer",
                                    "writing", "freed"}]
<1>1. <<>> \in Seq(Nat)
  OBVIOUS
<1> QED
  BY <1>1 DEF ConOk, OutputOk, FreeCon, Flag, Enter

LEMMA IInvTypes == IInv => TypeOK
  BY CallsTypes DEF IInv, ServerOk, ConOk, InputOk, OutputOk, OrderOk, CallsInv, TypeOK

\* A step that touches one connection keeps what the others have.
LEMMA ReaderStep ==
    ASSUME ReaderInv, NEW c \in Conns, ReaderOk(c)',
           \A d \in Conns \ {c} :
               /\ state'[d] = state[d] /\ nth'[d] = nth[d]
               /\ readcb'[d] = readcb[d] /\ more'[d] = more[d]
               /\ Framed(d)' <=> Framed(d)
    PROVE  ReaderInv'
  BY DEF ReaderInv, ReaderOk, Live

-----------------------------------------------------------------------------
(* Steps. *)

LEMMA AcceptInv ==
    ASSUME IInv, NEW c \in Conns, NEW s \in Streams[c], Accept(c, s)
    PROVE  IInv'
<1>0. TRUE
  BY DEF Accept, NewRequest, StartRead
<1>1. Idle => (\A fn : ~Running(fn)) /\ \A d \in Conns : ~Framed(d)
  BY DEF Framed, Running, Idle
<1>2. c \in Conns
  OBVIOUS
<1>3. /\ FrameOk' /\ Con' = Con /\ (Idle' <=> Idle) /\ (\A fn : Running(fn)' <=> Running(fn))
      /\ \A d : Framed(d)' <=> Framed(d)
  BY SameCalls DEF IInv, CallsInv, Accept, NewRequest, StartRead
<1>4. ServerOk'
  BY <1>0, <1>1, <1>2 DEF IInv, ServerOk, CallsInv, ReaderInv, ReaderOk, ConOk, Live, Accept,
     NewRequest, StartRead, server
<1>5. ConOk'
  BY <1>1, <1>2, SendTypes, FreeConTypes, NewRequestTypes DEF IInv, ConOk, Flag, Enter, Accept,
     NewRequest, StartRead
<1>6. InputOk'
  BY <1>0, <1>1, <1>2 DEF IInv, InputOk, OrderOk, Flag, Accept, NewRequest, StartRead
<1>7. OutputOk'
  BY <1>1, <1>2, SendTypes, FreeConTypes, NewRequestTypes DEF IInv, OutputOk, Accept,
     NewRequest, StartRead, output
<1>8. CallsInv'
  BY <1>0, <1>1, <1>2, <1>3 DEF IInv, CallsInv, ReaderInv, ReaderOk, ConOk, Flag, Live,
     ReadStates, Enter, Accept, NewRequest, StartRead, server
<1>9. ReaderInv'
  <2>1. ReaderOk(c)'
    BY <1>0, <1>1, <1>2, <1>3 DEF IInv, CallsInv, ReaderInv, ReaderOk, ConOk, Flag, Live,
       ReadStates, Enter, Accept, NewRequest, StartRead
  <2> QED
    BY <1>0, <1>1, <1>2, <1>3, <2>1, ReaderStep DEF IInv, ConOk, Flag, Enter, Accept,
       NewRequest, StartRead
<1>10. DeleteInv'
  BY <1>0, <1>1, <1>2, <1>3 DEF IInv, DeleteInv, ReaderInv, ReaderOk, Live, CallsInv, ConOk,
     Enter, Accept, NewRequest, StartRead, server
<1> QED
  BY <1>4, <1>5, <1>6, <1>7, <1>8, <1>9, <1>10 DEF IInv

LEMMA PeerSendInv ==
    ASSUME IInv, NEW c \in Conns, PeerSend(c)
    PROVE  IInv'
<1>0. TRUE
  BY DEF PeerSend
<1>1. Idle => (\A fn : ~Running(fn)) /\ \A d \in Conns : ~Framed(d)
  BY DEF Framed, Running, Idle
<1>2. c \in Conns
  OBVIOUS
<1>3. /\ FrameOk' /\ Con' = Con /\ (Idle' <=> Idle) /\ (\A fn : Running(fn)' <=> Running(fn))
      /\ \A d : Framed(d)' <=> Framed(d)
  BY SameCalls DEF IInv, CallsInv, PeerSend
<1>4. ServerOk'
  BY <1>0, <1>1, <1>2 DEF IInv, ServerOk, CallsInv, ReaderInv, ReaderOk, ConOk, Live, PeerSend,
     server
<1>5. ConOk'
  BY <1>1, <1>2, SendTypes, FreeConTypes, NewRequestTypes DEF IInv, ConOk, Flag, Enter,
     PeerSend, bev, request
<1>6. InputOk'
  BY <1>0, <1>1, <1>2 DEF IInv, InputOk, OrderOk, Flag, PeerSend
<1>7. OutputOk'
  BY <1>1, <1>2, SendTypes, FreeConTypes, NewRequestTypes DEF IInv, OutputOk, PeerSend, output
<1>8. CallsInv'
  BY <1>0, <1>1, <1>2, <1>3 DEF IInv, CallsInv, ReaderInv, ReaderOk, ConOk, Flag, Live,
     ReadStates, Enter, PeerSend, server, bev, request
<1>9. ReaderInv'
  <2>1. ReaderOk(c)'
    BY <1>0, <1>1, <1>2, <1>3 DEF IInv, CallsInv, ReaderInv, ReaderOk, ConOk, Flag, Live,
       ReadStates, Enter, PeerSend, bev, request
  <2> QED
    BY <1>0, <1>1, <1>2, <1>3, <2>1, ReaderStep DEF IInv, ConOk, Flag, Enter, PeerSend, bev,
       request
<1>10. DeleteInv'
  BY <1>0, <1>1, <1>2, <1>3 DEF IInv, DeleteInv, ReaderInv, ReaderOk, Live, CallsInv, ConOk,
     Enter, PeerSend, server
<1> QED
  BY <1>4, <1>5, <1>6, <1>7, <1>8, <1>9, <1>10 DEF IInv

LEMMA PeerClosesInv ==
    ASSUME IInv, NEW c \in Conns, PeerCloses(c)
    PROVE  IInv'
<1>0. TRUE
  BY DEF PeerCloses
<1>1. Idle => (\A fn : ~Running(fn)) /\ \A d \in Conns : ~Framed(d)
  BY DEF Framed, Running, Idle
<1>2. c \in Conns
  OBVIOUS
<1>3. /\ FrameOk' /\ Con' = Con /\ (Idle' <=> Idle) /\ (\A fn : Running(fn)' <=> Running(fn))
      /\ \A d : Framed(d)' <=> Framed(d)
  BY SameCalls DEF IInv, CallsInv, PeerCloses
<1>4. ServerOk'
  BY <1>0, <1>1, <1>2 DEF IInv, ServerOk, CallsInv, ReaderInv, ReaderOk, ConOk, Live,
     PeerCloses, server
<1>5. ConOk'
  BY <1>1, <1>2, SendTypes, FreeConTypes, NewRequestTypes DEF IInv, ConOk, Flag, Enter,
     PeerCloses, bev, request
<1>6. InputOk'
  BY <1>0, <1>1, <1>2 DEF IInv, InputOk, OrderOk, Flag, PeerCloses
<1>7. OutputOk'
  BY <1>1, <1>2, SendTypes, FreeConTypes, NewRequestTypes DEF IInv, OutputOk, PeerCloses, output
<1>8. CallsInv'
  BY <1>0, <1>1, <1>2, <1>3 DEF IInv, CallsInv, ReaderInv, ReaderOk, ConOk, Flag, Live,
     ReadStates, Enter, PeerCloses, server, bev, request
<1>9. ReaderInv'
  <2>1. ReaderOk(c)'
    BY <1>0, <1>1, <1>2, <1>3 DEF IInv, CallsInv, ReaderInv, ReaderOk, ConOk, Flag, Live,
       ReadStates, Enter, PeerCloses, bev, request
  <2> QED
    BY <1>0, <1>1, <1>2, <1>3, <2>1, ReaderStep DEF IInv, ConOk, Flag, Enter, PeerCloses, bev,
       request
<1>10. DeleteInv'
  BY <1>0, <1>1, <1>2, <1>3 DEF IInv, DeleteInv, ReaderInv, ReaderOk, Live, CallsInv, ConOk,
     Enter, PeerCloses, server
<1> QED
  BY <1>4, <1>5, <1>6, <1>7, <1>8, <1>9, <1>10 DEF IInv

LEMMA ErrorEventInv ==
    ASSUME IInv, NEW c \in Conns, ErrorEvent(c)
    PROVE  IInv'
<1>0. Idle
  BY DEF ErrorEvent, FreeCon
<1>1. Idle => (\A fn : ~Running(fn)) /\ \A d \in Conns : ~Framed(d)
  BY DEF Framed, Running, Idle
<1>2. c \in Conns
  OBVIOUS
<1>3. /\ FrameOk' /\ Con' = Con /\ (Idle' <=> Idle) /\ (\A fn : Running(fn)' <=> Running(fn))
      /\ \A d : Framed(d)' <=> Framed(d)
  BY SameCalls DEF IInv, CallsInv, ErrorEvent, FreeCon
<1>4. ServerOk'
  BY <1>0, <1>1, <1>2 DEF IInv, ServerOk, CallsInv, ReaderInv, ReaderOk, ConOk, Live,
     ErrorEvent, FreeCon, server
<1>5. ConOk'
  BY <1>1, <1>2, SendTypes, FreeConTypes, NewRequestTypes DEF IInv, ConOk, Flag, Enter,
     ErrorEvent, FreeCon, bev, request
<1>6. InputOk'
  BY <1>0, <1>1, <1>2 DEF IInv, InputOk, OrderOk, Flag, ErrorEvent, FreeCon, input
<1>7. OutputOk'
  BY <1>1, <1>2, SendTypes, FreeConTypes, NewRequestTypes DEF IInv, OutputOk, ErrorEvent, FreeCon
<1>8. CallsInv'
  <2>1. ~Running("read") /\ ~Running("RevRequest")
    BY <1>0, <1>1
  <2>2. ~Running("read")' /\ ~Running("RevRequest")'
    BY <1>3, <2>1
  <2>3. svr' = svr /\ curReq' = curReq
    BY DEF ErrorEvent, server
  <2> QED
    BY <1>3, <2>1, <2>2, <2>3 DEF IInv, CallsInv
<1>9. ReaderInv'
  <2>1. ReaderOk(c)'
    BY <1>0, <1>1, <1>2, <1>3 DEF IInv, CallsInv, ReaderInv, ReaderOk, ConOk, Flag, Live,
       ReadStates, Enter, ErrorEvent, FreeCon, bev, request
  <2> QED
    BY <1>0, <1>1, <1>2, <1>3, <2>1, ReaderStep DEF IInv, ConOk, Flag, Enter, ErrorEvent,
       FreeCon, bev, request
<1>10. DeleteInv'
  BY <1>0, <1>1, <1>2, <1>3 DEF IInv, DeleteInv, ReaderInv, ReaderOk, Live, CallsInv, ConOk,
     Enter, ErrorEvent, FreeCon, server
<1> QED
  BY <1>4, <1>5, <1>6, <1>7, <1>8, <1>9, <1>10 DEF IInv

LEMMA DeferredReadInv ==
    ASSUME IInv, NEW c \in Conns, DeferredRead(c)
    PROVE  IInv'
<1>0. more[c] = "yes" /\ Live(c)
  BY DEF DeferredRead, ReadCb, IInv, ReaderInv, ReaderOk
<1>1. Idle => (\A fn : ~Running(fn)) /\ \A d \in Conns : ~Framed(d)
  BY DEF Framed, Running, Idle
<1>2. c \in Conns
  OBVIOUS
<1>3. FrameOk' /\ ~Idle' /\ Con' = c /\ (\A f : Running(f)' <=> f = "read")
      /\ \A d : Framed(d)' <=> d = c
  BY <1>0, <1>1, <1>2, OneCall DEF DeferredRead, ReadCb
<1>4. ServerOk'
  BY <1>0, <1>1, <1>2 DEF IInv, ServerOk, CallsInv, ReaderInv, ReaderOk, ConOk, Live,
     DeferredRead, ReadCb, server
<1>5. ConOk'
  BY <1>1, <1>2, SendTypes, FreeConTypes, NewRequestTypes DEF IInv, ConOk, Flag, Enter,
     DeferredRead, ReadCb, bev, request
<1>6. InputOk'
  BY <1>0, <1>1, <1>2 DEF IInv, InputOk, OrderOk, Flag, DeferredRead, ReadCb, input
<1>7. OutputOk'
  BY <1>1, <1>2, SendTypes, FreeConTypes, NewRequestTypes DEF IInv, OutputOk, DeferredRead,
     ReadCb, output
<1>8. CallsInv'
  <2>1. svr = "alive" /\ state[c] \in ReadStates /\ readcb[c] = "yes" /\ curReq = NoReq
    BY <1>0, <1>1 DEF DeferredRead, IInv, CallsInv, ReaderInv, ReaderOk, ServerOk, DeleteInv, Live
  <2>2. UNCHANGED <<svr, state, readcb, curReq>>
    BY DEF DeferredRead, server, bev
  <2>3. Running("read")' /\ ~Running("RevRequest")'
    BY <1>3
  <2> QED
    BY <1>3, <2>1, <2>2, <2>3 DEF CallsInv
<1>9. ReaderInv'
  <2>1. ReaderOk(c)'
    BY <1>0, <1>1, <1>2, <1>3 DEF IInv, CallsInv, ReaderInv, ReaderOk, ConOk, Flag, Live,
       ReadStates, Enter, DeferredRead, ReadCb, bev, request
  <2> QED
    BY <1>0, <1>1, <1>2, <1>3, <2>1, ReaderStep DEF IInv, ConOk, Flag, Enter, DeferredRead,
       ReadCb, bev, request
<1>10. DeleteInv'
  BY <1>0, <1>1, <1>2, <1>3 DEF IInv, DeleteInv, ReaderInv, ReaderOk, Live, CallsInv, ConOk,
     Enter, DeferredRead, ReadCb, server
<1> QED
  BY <1>4, <1>5, <1>6, <1>7, <1>8, <1>9, <1>10 DEF IInv

LEMMA ReadFirstLineInv ==
    ASSUME IInv, ReadFirstLine
    PROVE  IInv'
<1>0. Running("read") /\ ~Running("RevRequest")
  BY FrameFacts DEF ReadFirstLine, Takes, HasPart, IInv, CallsInv, Reading, Running, Idle
<1>1. /\ Con \in Conns /\ Framed(Con) /\ \A d \in Conns \ {Con} : ~Framed(d)
      /\ ~Idle /\ Tail(calls) = <<>>
  BY <1>0, FrameFacts DEF IInv, CallsInv, Running, Idle, Framed
<1>2. PICK c \in Conns : c = Con
  BY <1>1
<1>3. /\ FrameOk' /\ Con' = Con /\ (Idle' <=> Idle) /\ (\A fn : Running(fn)' <=> Running(fn))
      /\ \A d : Framed(d)' <=> Framed(d)
  BY SameCalls DEF IInv, CallsInv, ReadFirstLine, Takes, HasPart
<1>4. ServerOk'
  BY <1>0, <1>1, <1>2 DEF IInv, ServerOk, CallsInv, ReaderInv, ReaderOk, ConOk, Live,
     ReadFirstLine, Takes, HasPart, server
<1>5. ConOk'
  BY <1>1, <1>2, SendTypes, FreeConTypes, NewRequestTypes DEF IInv, ConOk, Flag, Enter,
     ReadFirstLine, Takes, HasPart, bev, request
<1>6. InputOk'
  BY <1>0, <1>1, <1>2 DEF IInv, InputOk, OrderOk, Flag, ReadFirstLine, Takes, HasPart
<1>7. OutputOk'
  BY <1>1, <1>2, SendTypes, FreeConTypes, NewRequestTypes DEF IInv, OutputOk, ReadFirstLine,
     Takes, HasPart, output
<1>8. CallsInv'
  BY <1>0, <1>1, <1>2, <1>3 DEF IInv, CallsInv, ReaderInv, ReaderOk, ConOk, Flag, Live,
     ReadStates, Enter, ReadFirstLine, Takes, HasPart, server, bev, request
<1>9. ReaderInv'
  <2>1. ReaderOk(c)'
    BY <1>0, <1>1, <1>2, <1>3 DEF IInv, CallsInv, ReaderInv, ReaderOk, ConOk, Flag, Live,
       ReadStates, Enter, ReadFirstLine, Takes, HasPart, bev, request
  <2> QED
    BY <1>0, <1>1, <1>2, <1>3, <2>1, ReaderStep DEF IInv, ConOk, Flag, Enter, ReadFirstLine,
       Takes, HasPart, bev, request
<1>10. DeleteInv'
  BY <1>0, <1>1, <1>2, <1>3 DEF IInv, DeleteInv, ReaderInv, ReaderOk, Live, CallsInv, ConOk,
     Enter, ReadFirstLine, Takes, HasPart, server
<1> QED
  BY <1>4, <1>5, <1>6, <1>7, <1>8, <1>9, <1>10 DEF IInv

LEMMA ReadMoreInv ==
    ASSUME IInv, ReadMore
    PROVE  IInv'
<1>0. Running("read") /\ ~Running("RevRequest")
  BY FrameFacts DEF ReadMore, IInv, CallsInv, Reading, Running, Idle
<1>1. /\ Con \in Conns /\ Framed(Con) /\ \A d \in Conns \ {Con} : ~Framed(d)
      /\ ~Idle /\ Tail(calls) = <<>>
  BY <1>0, FrameFacts DEF IInv, CallsInv, Running, Idle, Framed
<1>2. PICK c \in Conns : c = Con
  BY <1>1
<1>3. FrameOk' /\ Idle' /\ (\A fn : ~Running(fn)') /\ \A d : ~Framed(d)'
  BY <1>1, NoCalls DEF ReadMore, Return
<1>4. ServerOk'
  BY <1>0, <1>1, <1>2 DEF IInv, ServerOk, CallsInv, ReaderInv, ReaderOk, ConOk, Live, ReadMore,
     server
<1>5. ConOk'
  BY <1>1, <1>2, SendTypes, FreeConTypes, NewRequestTypes DEF IInv, ConOk, Flag, Enter,
     ReadMore, bev, request
<1>6. InputOk'
  BY <1>0, <1>1, <1>2 DEF IInv, InputOk, OrderOk, Flag, ReadMore, input
<1>7. OutputOk'
  BY <1>1, <1>2, SendTypes, FreeConTypes, NewRequestTypes DEF IInv, OutputOk, ReadMore, output
<1>8. CallsInv'
  BY <1>0, <1>1, <1>2, <1>3 DEF IInv, CallsInv, ReaderInv, ReaderOk, ConOk, Flag, Live,
     ReadStates, Enter, ReadMore, server, bev, request
<1>9. ReaderInv'
  <2>1. ReaderOk(c)'
    BY <1>0, <1>1, <1>2, <1>3 DEF IInv, CallsInv, ReaderInv, ReaderOk, ConOk, Flag, Live,
       ReadStates, Enter, ReadMore, bev, request
  <2> QED
    BY <1>0, <1>1, <1>2, <1>3, <2>1, ReaderStep DEF IInv, ConOk, Flag, Enter, ReadMore, bev,
       request
<1>10. DeleteInv'
  BY <1>0, <1>1, <1>2, <1>3 DEF IInv, DeleteInv, ReaderInv, ReaderOk, Live, CallsInv, ConOk,
     Enter, ReadMore, server
<1> QED
  BY <1>4, <1>5, <1>6, <1>7, <1>8, <1>9, <1>10 DEF IInv

LEMMA ReadBadInv ==
    ASSUME IInv, ReadBad
    PROVE  IInv'
<1>0. Running("read") /\ ~Running("RevRequest")
  BY FrameFacts DEF ReadBad, Fail, Send, Takes, HasPart, IInv, CallsInv, Reading, Running, Idle
<1>1. /\ Con \in Conns /\ Framed(Con) /\ \A d \in Conns \ {Con} : ~Framed(d)
      /\ ~Idle /\ Tail(calls) = <<>>
  BY <1>0, FrameFacts DEF IInv, CallsInv, Running, Idle, Framed
<1>2. PICK c \in Conns : c = Con
  BY <1>1
<1>3. FrameOk' /\ Idle' /\ (\A fn : ~Running(fn)') /\ \A d : ~Framed(d)'
  BY <1>1, NoCalls DEF ReadBad, Fail, Send, Takes, HasPart, Return
<1>4. ServerOk'
  BY <1>0, <1>1, <1>2 DEF IInv, ServerOk, CallsInv, ReaderInv, ReaderOk, ConOk, Live, ReadBad,
     Fail, Send, Takes, HasPart, server
<1>5. ConOk'
  BY <1>1, <1>2, SendTypes, FreeConTypes, NewRequestTypes DEF IInv, ConOk, Flag, Enter, ReadBad,
     Fail, Send, Takes, HasPart
<1>6. InputOk'
  <2>1. /\ pos[c] < arrived[c] /\ pos' = [pos EXCEPT ![c] = @ + 1]
        /\ UNCHANGED <<stream, sent, arrived, eof>>
    BY <1>2 DEF ReadBad, Takes, HasPart
  <2> QED
    BY <1>2, <2>1 DEF IInv, InputOk, OrderOk, Flag
<1>7. OutputOk'
  BY <1>1, <1>2, SendTypes, FreeConTypes, NewRequestTypes DEF IInv, OutputOk, ReadBad, Fail,
     Send, Takes, HasPart
<1>8. CallsInv'
  BY <1>0, <1>1, <1>2, <1>3 DEF IInv, CallsInv, ReaderInv, ReaderOk, ConOk, Flag, Live,
     ReadStates, Enter, ReadBad, Fail, Send, Takes, HasPart, server
<1>9. ReaderInv'
  <2>1. ReaderOk(c)'
    BY <1>0, <1>1, <1>2, <1>3 DEF IInv, CallsInv, ReaderInv, ReaderOk, ConOk, Flag, Live,
       ReadStates, Enter, ReadBad, Fail, Send, Takes, HasPart
  <2> QED
    BY <1>0, <1>1, <1>2, <1>3, <2>1, ReaderStep DEF IInv, ConOk, Flag, Enter, ReadBad, Fail,
       Send, Takes, HasPart
<1>10. DeleteInv'
  BY <1>0, <1>1, <1>2, <1>3 DEF IInv, DeleteInv, ReaderInv, ReaderOk, Live, CallsInv, ConOk,
     Enter, ReadBad, Fail, Send, Takes, HasPart, server
<1> QED
  BY <1>4, <1>5, <1>6, <1>7, <1>8, <1>9, <1>10 DEF IInv

LEMMA ReadHeadersBodyInv ==
    ASSUME IInv, ReadHeadersBody
    PROVE  IInv'
<1>0. Running("read") /\ ~Running("RevRequest")
  BY FrameFacts DEF ReadHeadersBody, Takes, HasPart, IInv, CallsInv, Reading, Running, Idle
<1>1. /\ Con \in Conns /\ Framed(Con) /\ \A d \in Conns \ {Con} : ~Framed(d)
      /\ ~Idle /\ Tail(calls) = <<>>
  BY <1>0, FrameFacts DEF IInv, CallsInv, Running, Idle, Framed
<1>2. PICK c \in Conns : c = Con
  BY <1>1
<1>3. /\ FrameOk' /\ Con' = Con /\ (Idle' <=> Idle) /\ (\A fn : Running(fn)' <=> Running(fn))
      /\ \A d : Framed(d)' <=> Framed(d)
  BY SameCalls DEF IInv, CallsInv, ReadHeadersBody, Takes, HasPart
<1>4. ServerOk'
  BY <1>0, <1>1, <1>2 DEF IInv, ServerOk, CallsInv, ReaderInv, ReaderOk, ConOk, Live,
     ReadHeadersBody, Takes, HasPart, server
<1>5. ConOk'
  <2>1. \/ UNCHANGED <<write, cb>>
        \/ write' = [write EXCEPT ![c] = "yes"] /\ cb' = [cb EXCEPT ![c] = "continue"]
    BY <1>2 DEF ReadHeadersBody
  <2>2. write' \in Flag /\ cb' \in [Conns -> {"null", "continue", "done"}]
    BY <2>1 DEF IInv, ConOk, Flag
  <2>3. UNCHANGED <<request, read, readcb, more>> /\ state' = [state EXCEPT ![c] = "body"]
    BY <1>2 DEF ReadHeadersBody, Enter
  <2> QED
    BY <2>2, <2>3 DEF IInv, ConOk, Flag, request
<1>6. InputOk'
  BY <1>0, <1>1, <1>2 DEF IInv, InputOk, OrderOk, Flag, ReadHeadersBody, Takes, HasPart
<1>7. OutputOk'
  <2>1. Append(out[c], Continue) \in Seq(Nat)
    BY <1>2, AppendNat DEF IInv, OutputOk, Continue
  <2> QED
    BY <1>2, <2>1 DEF IInv, OutputOk, ReadHeadersBody, output
<1>8. CallsInv'
  BY <1>0, <1>1, <1>2, <1>3 DEF IInv, CallsInv, ReaderInv, ReaderOk, ConOk, Flag, Live,
     ReadStates, Enter, ReadHeadersBody, Takes, HasPart, server, request
<1>9. ReaderInv'
  <2>1. ReaderOk(c)'
    BY <1>0, <1>1, <1>2, <1>3 DEF IInv, CallsInv, ReaderInv, ReaderOk, ConOk, Flag, Live,
       ReadStates, Enter, ReadHeadersBody, Takes, HasPart, request
  <2> QED
    BY <1>0, <1>1, <1>2, <1>3, <2>1, ReaderStep DEF IInv, ConOk, Flag, Enter, ReadHeadersBody,
       Takes, HasPart, request
<1>10. DeleteInv'
  BY <1>0, <1>1, <1>2, <1>3 DEF IInv, DeleteInv, ReaderInv, ReaderOk, Live, CallsInv, ConOk,
     Enter, ReadHeadersBody, Takes, HasPart, server
<1> QED
  BY <1>4, <1>5, <1>6, <1>7, <1>8, <1>9, <1>10 DEF IInv

LEMMA ReadLastChunkInv ==
    ASSUME IInv, ReadLastChunk
    PROVE  IInv'
<1>0. Running("read") /\ ~Running("RevRequest")
  BY FrameFacts DEF ReadLastChunk, Takes, HasPart, IInv, CallsInv, Reading, Running, Idle
<1>1. /\ Con \in Conns /\ Framed(Con) /\ \A d \in Conns \ {Con} : ~Framed(d)
      /\ ~Idle /\ Tail(calls) = <<>>
  BY <1>0, FrameFacts DEF IInv, CallsInv, Running, Idle, Framed
<1>2. PICK c \in Conns : c = Con
  BY <1>1
<1>3. /\ FrameOk' /\ Con' = Con /\ (Idle' <=> Idle) /\ (\A fn : Running(fn)' <=> Running(fn))
      /\ \A d : Framed(d)' <=> Framed(d)
  BY SameCalls DEF IInv, CallsInv, ReadLastChunk, Takes, HasPart
<1>4. ServerOk'
  BY <1>0, <1>1, <1>2 DEF IInv, ServerOk, CallsInv, ReaderInv, ReaderOk, ConOk, Live,
     ReadLastChunk, Takes, HasPart, server
<1>5. ConOk'
  BY <1>1, <1>2, SendTypes, FreeConTypes, NewRequestTypes DEF IInv, ConOk, Flag, Enter,
     ReadLastChunk, Takes, HasPart, bev, request
<1>6. InputOk'
  BY <1>0, <1>1, <1>2 DEF IInv, InputOk, OrderOk, Flag, ReadLastChunk, Takes, HasPart
<1>7. OutputOk'
  BY <1>1, <1>2, SendTypes, FreeConTypes, NewRequestTypes DEF IInv, OutputOk, ReadLastChunk,
     Takes, HasPart, output
<1>8. CallsInv'
  BY <1>0, <1>1, <1>2, <1>3 DEF IInv, CallsInv, ReaderInv, ReaderOk, ConOk, Flag, Live,
     ReadStates, Enter, ReadLastChunk, Takes, HasPart, server, bev, request
<1>9. ReaderInv'
  <2>1. ReaderOk(c)'
    BY <1>0, <1>1, <1>2, <1>3 DEF IInv, CallsInv, ReaderInv, ReaderOk, ConOk, Flag, Live,
       ReadStates, Enter, ReadLastChunk, Takes, HasPart, bev, request
  <2> QED
    BY <1>0, <1>1, <1>2, <1>3, <2>1, ReaderStep DEF IInv, ConOk, Flag, Enter, ReadLastChunk,
       Takes, HasPart, bev, request
<1>10. DeleteInv'
  BY <1>0, <1>1, <1>2, <1>3 DEF IInv, DeleteInv, ReaderInv, ReaderOk, Live, CallsInv, ConOk,
     Enter, ReadLastChunk, Takes, HasPart, server
<1> QED
  BY <1>4, <1>5, <1>6, <1>7, <1>8, <1>9, <1>10 DEF IInv

LEMMA ReadHeadersExpectInv ==
    ASSUME IInv, ReadHeadersExpect
    PROVE  IInv'
<1>0. Running("read") /\ ~Running("RevRequest")
  BY FrameFacts DEF ReadHeadersExpect, SendError, Send, Takes, HasPart, IInv, CallsInv, Reading,
     Running, Idle
<1>1. /\ Con \in Conns /\ Framed(Con) /\ \A d \in Conns \ {Con} : ~Framed(d)
      /\ ~Idle /\ Tail(calls) = <<>>
  BY <1>0, FrameFacts DEF IInv, CallsInv, Running, Idle, Framed
<1>2. PICK c \in Conns : c = Con
  BY <1>1
<1>3. FrameOk' /\ Idle' /\ (\A fn : ~Running(fn)') /\ \A d : ~Framed(d)'
  BY <1>1, NoCalls DEF ReadHeadersExpect, SendError, Send, Takes, HasPart, Return
<1>4. ServerOk'
  BY <1>0, <1>1, <1>2 DEF IInv, ServerOk, CallsInv, ReaderInv, ReaderOk, ConOk, Live,
     ReadHeadersExpect, SendError, Send, Takes, HasPart, server
<1>5. ConOk'
  BY <1>1, <1>2, SendTypes, FreeConTypes, NewRequestTypes DEF IInv, ConOk, Flag, Enter,
     ReadHeadersExpect, SendError, Send, Takes, HasPart
<1>6. InputOk'
  BY <1>0, <1>1, <1>2 DEF IInv, InputOk, OrderOk, Flag, ReadHeadersExpect, SendError, Send,
     Takes, HasPart
<1>7. OutputOk'
  BY <1>1, <1>2, SendTypes, FreeConTypes, NewRequestTypes DEF IInv, OutputOk, ReadHeadersExpect,
     SendError, Send, Takes, HasPart
<1>8. CallsInv'
  BY <1>0, <1>1, <1>2, <1>3 DEF IInv, CallsInv, ReaderInv, ReaderOk, ConOk, Flag, Live,
     ReadStates, Enter, ReadHeadersExpect, SendError, Send, Takes, HasPart, server
<1>9. ReaderInv'
  <2>1. Framed(c) /\ state'[c] \in {"body", "writing"} /\ nth' = nth /\ more' = more /\ readcb'[c] = "no"
    BY <1>0, <1>1, <1>2 DEF ReadHeadersExpect, SendError, Send, Enter, IInv, ConOk, Flag
  <2>2. nth[c] > 0 /\ more[c] # "yes"
    BY <1>0, <1>1, <1>2 DEF IInv, CallsInv, ReaderInv, ReaderOk, Live, ReadStates
  <2>3. ReaderOk(c)'
    BY <2>1, <2>2 DEF ReaderOk
  <2>4. \A d \in Conns \ {c} : state'[d] = state[d] /\ readcb'[d] = readcb[d]
    BY <1>2 DEF ReadHeadersExpect, SendError, Send, Enter, IInv, ConOk, Flag
  <2> QED
    BY <1>1, <1>2, <1>3, <2>1, <2>3, <2>4, ReaderStep DEF IInv
<1>10. DeleteInv'
  BY <1>0, <1>1, <1>2, <1>3 DEF IInv, DeleteInv, ReaderInv, ReaderOk, Live, CallsInv, ConOk,
     Enter, ReadHeadersExpect, SendError, Send, Takes, HasPart, server
<1> QED
  BY <1>4, <1>5, <1>6, <1>7, <1>8, <1>9, <1>10 DEF IInv

LEMMA ReadRefusedInv ==
    ASSUME IInv, ReadRefused
    PROVE  IInv'
<1>0. Running("read") /\ ~Running("RevRequest")
  BY FrameFacts DEF ReadRefused, SendError, Send, Takes, HasPart, IInv, CallsInv, Reading,
     Running, Idle
<1>1. /\ Con \in Conns /\ Framed(Con) /\ \A d \in Conns \ {Con} : ~Framed(d)
      /\ ~Idle /\ Tail(calls) = <<>>
  BY <1>0, FrameFacts DEF IInv, CallsInv, Running, Idle, Framed
<1>2. PICK c \in Conns : c = Con
  BY <1>1
<1>3. FrameOk' /\ Idle' /\ (\A fn : ~Running(fn)') /\ \A d : ~Framed(d)'
  BY <1>1, NoCalls DEF ReadRefused, SendError, Send, Takes, HasPart, Return
<1>4. ServerOk'
  BY <1>0, <1>1, <1>2 DEF IInv, ServerOk, CallsInv, ReaderInv, ReaderOk, ConOk, Live,
     ReadRefused, SendError, Send, Takes, HasPart, server
<1>5. ConOk'
  BY <1>1, <1>2, SendTypes, FreeConTypes, NewRequestTypes DEF IInv, ConOk, Flag, Enter,
     ReadRefused, SendError, Send, Takes, HasPart
<1>6. InputOk'
  BY <1>0, <1>1, <1>2 DEF IInv, InputOk, OrderOk, Flag, ReadRefused, SendError, Send, Takes,
     HasPart
<1>7. OutputOk'
  BY <1>1, <1>2, SendTypes, FreeConTypes, NewRequestTypes DEF IInv, OutputOk, ReadRefused,
     SendError, Send, Takes, HasPart
<1>8. CallsInv'
  BY <1>0, <1>1, <1>2, <1>3 DEF IInv, CallsInv, ReaderInv, ReaderOk, ConOk, Flag, Live,
     ReadStates, Enter, ReadRefused, SendError, Send, Takes, HasPart, server
<1>9. ReaderInv'
  <2>1. Framed(c) /\ state'[c] \in {"body", "writing"} /\ nth' = nth /\ more' = more /\ readcb'[c] = "no"
    BY <1>0, <1>1, <1>2 DEF ReadRefused, SendError, Send, Enter, IInv, ConOk, Flag
  <2>2. nth[c] > 0 /\ more[c] # "yes"
    BY <1>0, <1>1, <1>2 DEF IInv, CallsInv, ReaderInv, ReaderOk, Live, ReadStates
  <2>3. ReaderOk(c)'
    BY <2>1, <2>2 DEF ReaderOk
  <2>4. \A d \in Conns \ {c} : state'[d] = state[d] /\ readcb'[d] = readcb[d]
    BY <1>2 DEF ReadRefused, SendError, Send, Enter, IInv, ConOk, Flag
  <2> QED
    BY <1>1, <1>2, <1>3, <2>1, <2>3, <2>4, ReaderStep DEF IInv
<1>10. DeleteInv'
  BY <1>0, <1>1, <1>2, <1>3 DEF IInv, DeleteInv, ReaderInv, ReaderOk, Live, CallsInv, ConOk,
     Enter, ReadRefused, SendError, Send, Takes, HasPart, server
<1> QED
  BY <1>4, <1>5, <1>6, <1>7, <1>8, <1>9, <1>10 DEF IInv

LEMMA RevReturnFreedInv ==
    ASSUME IInv, RevReturnFreed
    PROVE  IInv'
<1>0. Running("RevRequest") /\ ~Running("read")
  BY FrameFacts DEF RevReturnFreed, IInv, CallsInv, Reading, Running, Idle
<1>1. /\ Con \in Conns /\ Framed(Con) /\ \A d \in Conns \ {Con} : ~Framed(d)
      /\ ~Idle /\ Tail(calls) = <<>>
  BY <1>0, FrameFacts DEF IInv, CallsInv, Running, Idle, Framed
<1>2. PICK c \in Conns : c = Con
  BY <1>1
<1>3. /\ FrameOk' /\ Con' = Con /\ (Idle' <=> Idle) /\ (\A fn : Running(fn)' <=> Running(fn))
      /\ \A d : Framed(d)' <=> Framed(d)
  BY SameCalls DEF IInv, CallsInv, RevReturnFreed
<1>4. ServerOk'
  BY <1>0, <1>1, <1>2 DEF IInv, ServerOk, CallsInv, ReaderInv, ReaderOk, ConOk, Live,
     RevReturnFreed, server
<1>5. ConOk'
  BY <1>1, <1>2, SendTypes, FreeConTypes, NewRequestTypes DEF IInv, ConOk, Flag, Enter,
     RevReturnFreed, bev, request
<1>6. InputOk'
  BY <1>0, <1>1, <1>2 DEF IInv, InputOk, OrderOk, Flag, RevReturnFreed, input
<1>7. OutputOk'
  BY <1>1, <1>2, SendTypes, FreeConTypes, NewRequestTypes DEF IInv, OutputOk, RevReturnFreed,
     output
<1>8. CallsInv'
  BY <1>0, <1>1, <1>2, <1>3 DEF IInv, CallsInv, ReaderInv, ReaderOk, ConOk, Flag, Live,
     ReadStates, Enter, RevReturnFreed, server, bev, request
<1>9. ReaderInv'
  <2>1. ReaderOk(c)'
    BY <1>0, <1>1, <1>2, <1>3 DEF IInv, CallsInv, ReaderInv, ReaderOk, ConOk, Flag, Live,
       ReadStates, Enter, RevReturnFreed, bev, request
  <2> QED
    BY <1>0, <1>1, <1>2, <1>3, <2>1, ReaderStep DEF IInv, ConOk, Flag, Enter, RevReturnFreed,
       bev, request
<1>10. DeleteInv'
  BY <1>0, <1>1, <1>2, <1>3 DEF IInv, DeleteInv, ReaderInv, ReaderOk, Live, CallsInv, ConOk,
     Enter, RevReturnFreed, server
<1> QED
  BY <1>4, <1>5, <1>6, <1>7, <1>8, <1>9, <1>10 DEF IInv

LEMMA UserReplyInv ==
    ASSUME IInv, UserReply
    PROVE  IInv'
<1>0. /\ Running("RevRequest") /\ ~Running("read") /\ svr = "alive"
      /\ curReq \in {NoReq, <<Con, nth[Con]>>}
  BY FrameFacts DEF UserReply, Doing, SendReply, Send, IInv, CallsInv, Reading, Running, Idle
<1>1. /\ Con \in Conns /\ Framed(Con) /\ \A d \in Conns \ {Con} : ~Framed(d)
      /\ ~Idle /\ Tail(calls) = <<>>
  BY <1>0, FrameFacts DEF IInv, CallsInv, Running, Idle, Framed
<1>2. PICK c \in Conns : c = Con
  BY <1>1
<1>3. /\ FrameOk' /\ Con' = Con /\ (Idle' <=> Idle) /\ (\A fn : Running(fn)' <=> Running(fn))
      /\ \A d : Framed(d)' <=> Framed(d)
  BY SameCalls DEF IInv, CallsInv, UserReply, Doing, SendReply, Send
<1>4. ServerOk'
  BY <1>0, <1>1, <1>2 DEF IInv, ServerOk, CallsInv, ReaderInv, ReaderOk, ConOk, Live, UserReply,
     Doing, SendReply, Send, server
<1>5. ConOk'
  BY <1>1, <1>2, SendTypes, FreeConTypes, NewRequestTypes DEF IInv, ConOk, Flag, Enter,
     UserReply, Doing, SendReply, Send
<1>6. InputOk'
  BY <1>0, <1>1, <1>2 DEF IInv, InputOk, OrderOk, Flag, UserReply, Doing, SendReply, Send, input
<1>7. OutputOk'
  BY <1>1, <1>2, SendTypes, FreeConTypes, NewRequestTypes DEF IInv, OutputOk, UserReply, Doing,
     SendReply, Send
<1>8. CallsInv'
  BY <1>0, <1>1, <1>2, <1>3 DEF IInv, CallsInv, ReaderInv, ReaderOk, ConOk, Flag, Live,
     ReadStates, Enter, UserReply, Doing, SendReply, Send, server
<1>9. ReaderInv'
  <2>1. ReaderOk(c)'
    BY <1>0, <1>1, <1>2, <1>3 DEF IInv, CallsInv, ReaderInv, ReaderOk, ConOk, Flag, Live,
       ReadStates, Enter, UserReply, Doing, SendReply, Send
  <2> QED
    BY <1>0, <1>1, <1>2, <1>3, <2>1, ReaderStep DEF IInv, ConOk, Flag, Enter, UserReply, Doing,
       SendReply, Send
<1>10. DeleteInv'
  BY <1>0, <1>1, <1>2, <1>3 DEF IInv, DeleteInv, ReaderInv, ReaderOk, Live, CallsInv, ConOk,
     Enter, UserReply, Doing, SendReply, Send, server
<1> QED
  BY <1>4, <1>5, <1>6, <1>7, <1>8, <1>9, <1>10 DEF IInv

LEMMA RevRequestCBInv ==
    ASSUME IInv, RevRequestCB
    PROVE  IInv'
<1>0. Running("read") /\ ~Running("RevRequest") /\ curReq = NoReq /\ svr = "alive"
  BY FrameFacts DEF RevRequestCB, Completed, IInv, CallsInv, Reading, Running, Idle
<1>1. /\ Con \in Conns /\ Framed(Con) /\ \A d \in Conns \ {Con} : ~Framed(d)
      /\ ~Idle /\ Tail(calls) = <<>>
  BY <1>0, FrameFacts DEF IInv, CallsInv, Running, Idle, Framed
<1>2. PICK c \in Conns : c = Con
  BY <1>1
<1>3. FrameOk' /\ ~Idle' /\ Con' = c /\ (\A f : Running(f)' <=> f = "RevRequest")
      /\ \A d : Framed(d)' <=> d = c
  BY <1>0, <1>1, <1>2, OneCall DEF RevRequestCB, Completed
<1>4. ServerOk'
  <2>1. curReq' = <<c, nth[c]>> /\ UNCHANGED <<svr, does, trouble>>
    BY <1>0, <1>2 DEF RevRequestCB
  <2>2. nth[c] \in Nat \ {0}
    BY <1>0, <1>2 DEF IInv, CallsInv, ReaderInv, ReaderOk, ConOk, Live, ReadStates
  <2> QED
    BY <1>2, <2>1, <2>2 DEF IInv, ServerOk
<1>5. ConOk'
  <2>1. read' \in Flag
    BY <1>2 DEF RevRequestCB, Completed, IInv, ConOk, Flag
  <2> QED
    BY <1>2, <2>1 DEF RevRequestCB, Enter, IInv, ConOk, Flag
<1>6. InputOk'
  <2>1. /\ pos[c] < arrived[c] /\ pos' = [pos EXCEPT ![c] = @ + 1]
        /\ UNCHANGED <<stream, sent, arrived, eof>>
    BY <1>2 DEF RevRequestCB, Completed, Takes, HasPart
  <2> QED
    BY <1>2, <2>1 DEF IInv, InputOk, OrderOk, Flag
<1>7. OutputOk'
  BY <1>1, <1>2, SendTypes, FreeConTypes, NewRequestTypes DEF IInv, OutputOk, RevRequestCB,
     Completed, output
<1>8. CallsInv'
  <2>1. /\ curReq' = <<c, nth[c]>> /\ UNCHANGED <<svr, nth, readcb>>
        /\ state' = [state EXCEPT ![c] = "writing"]
    BY <1>0, <1>2 DEF RevRequestCB, Enter
  <2>2. ~Running("read")' /\ Running("RevRequest")' /\ readcb[c] = "yes"
    BY <1>0, <1>2, <1>3 DEF IInv, CallsInv
  <2>3. state'[c] = "writing" /\ curReq' # NoReq
    BY <1>2, <2>1 DEF IInv, ConOk, NoReq
  <2> QED
    BY <1>3, <2>1, <2>2, <2>3 DEF CallsInv
<1>9. ReaderInv'
  <2>1. ReaderOk(c)'
    BY <1>0, <1>1, <1>2, <1>3 DEF IInv, CallsInv, ReaderInv, ReaderOk, ConOk, Flag, Live,
       ReadStates, Enter, RevRequestCB, Completed
  <2> QED
    BY <1>0, <1>1, <1>2, <1>3, <2>1, ReaderStep DEF IInv, ConOk, Flag, Enter, RevRequestCB,
       Completed
<1>10. DeleteInv'
  BY <1>0, <1>1, <1>2, <1>3 DEF IInv, DeleteInv, ReaderInv, ReaderOk, Live, CallsInv, ConOk,
     Enter, RevRequestCB, Completed
<1> QED
  BY <1>4, <1>5, <1>6, <1>7, <1>8, <1>9, <1>10 DEF IInv

LEMMA UserSendInv ==
    ASSUME IInv, UserSend
    PROVE  IInv'
<1>0. /\ Running("RevRequest") /\ ~Running("read") /\ svr = "alive"
      /\ curReq \in {NoReq, <<Con, nth[Con]>>}
  BY FrameFacts DEF UserSend, Doing, SendReply, SendError, Send, IInv, CallsInv, Reading,
     Running, Idle
<1>1. /\ Con \in Conns /\ Framed(Con) /\ \A d \in Conns \ {Con} : ~Framed(d)
      /\ ~Idle /\ Tail(calls) = <<>>
  BY <1>0, FrameFacts DEF IInv, CallsInv, Running, Idle, Framed
<1>2. PICK c \in Conns : c = Con
  BY <1>1
<1>3. /\ FrameOk' /\ Con' = Con /\ (Idle' <=> Idle) /\ (\A fn : Running(fn)' <=> Running(fn))
      /\ \A d : Framed(d)' <=> Framed(d)
  BY SameCalls DEF IInv, CallsInv, UserSend, Doing, SendReply, SendError, Send
<1>4. ServerOk'
  BY <1>0, <1>1, <1>2 DEF IInv, ServerOk, CallsInv, ReaderInv, ReaderOk, ConOk, Live, UserSend,
     Doing, SendReply, SendError, Send
<1>5. ConOk'
  <2>1. \/ Send(c)
        \/ UNCHANGED <<userdone, cb, readcb, write, out>>
    BY <1>0, <1>1, <1>2 DEF NoReq, UserSend, SendReply, SendError, bev, request
  <2>2. closing' \in Flag /\ read' = read
    BY <1>0, <1>2 DEF IInv, ConOk, Flag, UserSend, SendReply, SendError, bev, request
  <2>3. UNCHANGED <<state, nth, more>>
    BY DEF UserSend, SendReply, SendError, bev, request
  <2> QED
    BY <1>2, <2>1, <2>2, <2>3, SendTypes DEF IInv, ConOk
<1>6. InputOk'
  BY <1>0, <1>1, <1>2 DEF IInv, InputOk, OrderOk, Flag, UserSend, Doing, SendReply, SendError,
     Send, input
<1>7. OutputOk'
  <2>1. Send(c) \/ UNCHANGED out
    BY <1>0, <1>1, <1>2 DEF NoReq, UserSend, SendReply, SendError, bev, request
  <2>2. got' = got
    BY DEF UserSend, SendReply, SendError, bev, request
  <2> QED
    BY <1>2, <2>1, <2>2, SendTypes DEF IInv, OutputOk
<1>8. CallsInv'
  BY <1>0, <1>1, <1>2, <1>3 DEF IInv, CallsInv, ReaderInv, ReaderOk, ConOk, Flag, Live,
     ReadStates, Enter, UserSend, Doing, SendReply, SendError, Send
<1>9. ReaderInv'
  <2>1. \/ Send(c)
        \/ curReq = NoReq /\ UNCHANGED <<userdone, cb, readcb, write, out>>
    BY <1>0, <1>1, <1>2 DEF NoReq, UserSend, SendReply, SendError, bev, request
  <2>2. UNCHANGED <<state, nth, more>>
    BY DEF UserSend, SendReply, SendError, bev, request
  <2>4. readcb'[c] = "no"
    BY <1>0, <1>2, <2>1 DEF IInv, CallsInv, ConOk, Flag, Send
  <2>5. nth[c] > 0 /\ more[c] # "yes"
    BY <1>0, <1>1, <1>2 DEF IInv, CallsInv, ReaderInv, ReaderOk, Live
  <2>3. ReaderOk(c)'
    BY <1>3, <2>2, <2>4, <2>5 DEF ReaderOk
  <2> QED
    BY <1>0, <1>1, <1>2, <1>3, <2>1, <2>2, <2>3, ReaderStep DEF IInv, ConOk, Flag, Send
<1>10. DeleteInv'
  BY <1>0, <1>1, <1>2, <1>3 DEF IInv, DeleteInv, ReaderInv, ReaderOk, Live, CallsInv, ConOk,
     Enter, UserSend, Doing, SendReply, SendError, Send
<1> QED
  BY <1>4, <1>5, <1>6, <1>7, <1>8, <1>9, <1>10 DEF IInv

LEMMA RevReturnInv ==
    ASSUME IInv, RevReturn
    PROVE  IInv'
<1>0. /\ Running("RevRequest") /\ ~Running("read") /\ svr = "alive"
      /\ curReq \in {NoReq, <<Con, nth[Con]>>}
  BY FrameFacts DEF RevReturn, SendError, Send, IInv, CallsInv, Reading, Running, Idle
<1>1. /\ Con \in Conns /\ Framed(Con) /\ \A d \in Conns \ {Con} : ~Framed(d)
      /\ ~Idle /\ Tail(calls) = <<>>
  BY <1>0, FrameFacts DEF IInv, CallsInv, Running, Idle, Framed
<1>2. PICK c \in Conns : c = Con
  BY <1>1
<1>3. FrameOk' /\ Idle' /\ (\A fn : ~Running(fn)') /\ \A d : ~Framed(d)'
  BY <1>1, NoCalls DEF RevReturn, SendError, Send, Return
<1>4. ServerOk'
  BY <1>0, <1>1, <1>2 DEF IInv, ServerOk, CallsInv, ReaderInv, ReaderOk, ConOk, Live, RevReturn,
     SendError, Send
<1>5. ConOk'
  <2>1. \/ Send(c)
        \/ UNCHANGED <<userdone, cb, readcb, write, out>>
    BY <1>0, <1>1, <1>2 DEF NoReq, RevReturn, SendError, bev, request
  <2>2. closing' \in Flag /\ read' = read
    BY <1>0, <1>2 DEF IInv, ConOk, Flag, RevReturn, SendError, bev, request
  <2>3. UNCHANGED <<state, nth, more>>
    BY DEF RevReturn, SendError, bev, request
  <2> QED
    BY <1>2, <2>1, <2>2, <2>3, SendTypes DEF IInv, ConOk
<1>6. InputOk'
  BY <1>0, <1>1, <1>2 DEF IInv, InputOk, OrderOk, Flag, RevReturn, SendError, Send, input
<1>7. OutputOk'
  <2>1. Send(c) \/ UNCHANGED out
    BY <1>0, <1>1, <1>2 DEF NoReq, RevReturn, SendError, bev, request
  <2>2. got' = got
    BY DEF RevReturn, SendError, bev, request
  <2> QED
    BY <1>2, <2>1, <2>2, SendTypes DEF IInv, OutputOk
<1>8. CallsInv'
  BY <1>0, <1>1, <1>2, <1>3 DEF IInv, CallsInv, ReaderInv, ReaderOk, ConOk, Flag, Live,
     ReadStates, Enter, RevReturn, SendError, Send, bev
<1>9. ReaderInv'
  <2>1. \/ Send(c)
        \/ curReq = NoReq /\ UNCHANGED <<userdone, cb, readcb, write, out>>
    BY <1>0, <1>1, <1>2 DEF NoReq, RevReturn, SendError, bev, request
  <2>2. UNCHANGED <<state, nth, more>>
    BY DEF RevReturn, SendError, bev, request
  <2>4. readcb'[c] = "no"
    BY <1>0, <1>2, <2>1 DEF IInv, CallsInv, ConOk, Flag, Send
  <2>5. nth[c] > 0 /\ more[c] # "yes"
    BY <1>0, <1>1, <1>2 DEF IInv, CallsInv, ReaderInv, ReaderOk, Live
  <2>3. ReaderOk(c)'
    BY <1>3, <2>2, <2>4, <2>5 DEF ReaderOk
  <2> QED
    BY <1>0, <1>1, <1>2, <1>3, <2>1, <2>2, <2>3, ReaderStep DEF IInv, ConOk, Flag, Send
<1>10. DeleteInv'
  BY <1>0, <1>1, <1>2, <1>3 DEF IInv, DeleteInv, ReaderInv, ReaderOk, Live, CallsInv, ConOk,
     Enter, RevReturn, SendError, Send
<1> QED
  BY <1>4, <1>5, <1>6, <1>7, <1>8, <1>9, <1>10 DEF IInv

LEMMA ReadEventCallsInv ==
    ASSUME IInv, NEW c \in Conns, ReadEvent(c), readcb[c] = "yes"
    PROVE  IInv'
<1>0. Idle /\ Live(c)
  BY DEF ReadEvent, ReadCb
<1>1. Idle => (\A fn : ~Running(fn)) /\ \A d \in Conns : ~Framed(d)
  BY DEF Framed, Running, Idle
<1>2. c \in Conns
  OBVIOUS
<1>3. FrameOk' /\ ~Idle' /\ Con' = c /\ (\A f : Running(f)' <=> f = "read")
      /\ \A d : Framed(d)' <=> d = c
  BY <1>0, <1>1, <1>2, OneCall DEF ReadEvent, ReadCb
<1>4. ServerOk'
  BY <1>0, <1>1, <1>2 DEF IInv, ServerOk, CallsInv, ReaderInv, ReaderOk, ConOk, Live, ReadEvent,
     ReadCb, server
<1>5. ConOk'
  <2>1. UNCHANGED <<state, request, bev>> /\ more' = [more EXCEPT ![c] = "no"]
    BY DEF ReadEvent, ReadCb
  <2> QED
    BY <1>2, <2>1 DEF IInv, ConOk, Flag, request, bev
<1>6. InputOk'
  <2>1. PICK n \in arrived[c] + 1..sent[c] : arrived' = [arrived EXCEPT ![c] = n]
    BY DEF ReadEvent
  <2>2. UNCHANGED <<stream, sent, pos, eof>>
    BY DEF ReadEvent
  <2> QED
    BY <1>2, <2>1, <2>2 DEF IInv, InputOk, OrderOk, Flag
<1>7. OutputOk'
  BY <1>1, <1>2, SendTypes, FreeConTypes, NewRequestTypes DEF IInv, OutputOk, ReadEvent, ReadCb,
     output
<1>8. CallsInv'
  <2>1. svr = "alive" /\ state[c] \in ReadStates /\ curReq = NoReq
    BY <1>0, <1>1 DEF IInv, CallsInv, ReaderInv, ReaderOk, ServerOk, DeleteInv, Live
  <2>2. UNCHANGED <<svr, state, readcb, curReq>>
    BY DEF ReadEvent, server, bev
  <2>3. Running("read")' /\ ~Running("RevRequest")'
    BY <1>3
  <2> QED
    BY <1>3, <2>1, <2>2, <2>3 DEF CallsInv
<1>9. ReaderInv'
  <2>1. ReaderOk(c)'
    BY <1>0, <1>1, <1>2, <1>3 DEF IInv, CallsInv, ReaderInv, ReaderOk, ConOk, Flag, Live,
       ReadStates, Enter, ReadEvent, ReadCb, bev, request
  <2> QED
    BY <1>0, <1>1, <1>2, <1>3, <2>1, ReaderStep DEF IInv, ConOk, Flag, Enter, ReadEvent, ReadCb,
       bev, request
<1>10. DeleteInv'
  BY <1>0, <1>1, <1>2, <1>3 DEF IInv, DeleteInv, ReaderInv, ReaderOk, Live, CallsInv, ConOk,
     Enter, ReadEvent, ReadCb, server
<1> QED
  BY <1>4, <1>5, <1>6, <1>7, <1>8, <1>9, <1>10 DEF IInv

LEMMA ReadEventQuietInv ==
    ASSUME IInv, NEW c \in Conns, ReadEvent(c), readcb[c] # "yes"
    PROVE  IInv'
<1>0. Idle /\ Live(c)
  BY DEF ReadEvent
<1>1. Idle => (\A fn : ~Running(fn)) /\ \A d \in Conns : ~Framed(d)
  BY DEF Framed, Running, Idle
<1>2. c \in Conns
  OBVIOUS
<1>3. /\ FrameOk' /\ Con' = Con /\ (Idle' <=> Idle) /\ (\A fn : Running(fn)' <=> Running(fn))
      /\ \A d : Framed(d)' <=> Framed(d)
  BY SameCalls DEF IInv, CallsInv, ReadEvent
<1>4. ServerOk'
  BY <1>0, <1>1, <1>2 DEF IInv, ServerOk, CallsInv, ReaderInv, ReaderOk, ConOk, Live, ReadEvent,
     server
<1>5. ConOk'
  BY <1>1, <1>2, SendTypes, FreeConTypes, NewRequestTypes DEF IInv, ConOk, Flag, Enter,
     ReadEvent, bev, request
<1>6. InputOk'
  <2>1. PICK n \in arrived[c] + 1..sent[c] : arrived' = [arrived EXCEPT ![c] = n]
    BY DEF ReadEvent
  <2>2. UNCHANGED <<stream, sent, pos, eof>>
    BY DEF ReadEvent
  <2> QED
    BY <1>2, <2>1, <2>2 DEF IInv, InputOk, OrderOk, Flag
<1>7. OutputOk'
  BY <1>1, <1>2, SendTypes, FreeConTypes, NewRequestTypes DEF IInv, OutputOk, ReadEvent, output
<1>8. CallsInv'
  BY <1>0, <1>1, <1>2, <1>3 DEF IInv, CallsInv, ReaderInv, ReaderOk, ConOk, Flag, Live,
     ReadStates, Enter, ReadEvent, server, bev, request
<1>9. ReaderInv'
  <2>1. ReaderOk(c)'
    BY <1>0, <1>1, <1>2, <1>3 DEF IInv, CallsInv, ReaderInv, ReaderOk, ConOk, Flag, Live,
       ReadStates, Enter, ReadEvent, bev, request
  <2> QED
    BY <1>0, <1>1, <1>2, <1>3, <2>1, ReaderStep DEF IInv, ConOk, Flag, Enter, ReadEvent, bev,
       request
<1>10. DeleteInv'
  BY <1>0, <1>1, <1>2, <1>3 DEF IInv, DeleteInv, ReaderInv, ReaderOk, Live, CallsInv, ConOk,
     Enter, ReadEvent, server
<1> QED
  BY <1>4, <1>5, <1>6, <1>7, <1>8, <1>9, <1>10 DEF IInv

\* The three outcomes of a write event.
Written(c)  == UNCHANGED <<state, nth, closing, userdone, read, readcb, cb, more>>
Finished(c) == FreeCon(c)
GoesOn(c)   == NewRequest(c) /\ out' = [out EXCEPT ![c] = <<>>] /\ UNCHANGED cb

LEMMA WriteFacts ==
    ASSUME IInv, NEW c \in Conns, WriteEvent(c)
    PROVE  /\ Idle /\ Live(c) /\ out[c] # <<>>
           /\ UNCHANGED <<svr, does, curReq, stream, sent, arrived, pos, eof, calls, trouble>>
           /\ \E n \in 1..Len(out[c]) :
                /\ got' = [got EXCEPT ![c] = @ \o SubSeq(out[c], 1, n)]
                /\ \/ /\ n < Len(out[c]) /\ Written(c) /\ write' = write
                      /\ out' = [out EXCEPT ![c] = SubSeq(@, n + 1, Len(@))]
                   \/ /\ n = Len(out[c]) /\ Written(c) /\ cb[c] # "done"
                      /\ out' = [out EXCEPT ![c] = <<>>]
                      /\ write' = write \/ write' = [write EXCEPT ![c] = "no"]
                   \/ n = Len(out[c]) /\ cb[c] = "done" /\ (Finished(c) \/ GoesOn(c))
<1>1. /\ Idle /\ Live(c) /\ out[c] # <<>>
      /\ UNCHANGED <<svr, does, curReq, stream, sent, arrived, pos, eof, calls, trouble>>
  BY DEF WriteEvent, server, input
<1>2. PICK n \in 1..Len(out[c]) :
         /\ got' = [got EXCEPT ![c] = @ \o SubSeq(out[c], 1, n)]
         /\ IF n < Len(out[c])
            THEN /\ out' = [out EXCEPT ![c] = SubSeq(@, n + 1, Len(@))]
                 /\ UNCHANGED <<state, request, bev, more>>
            ELSE CASE cb[c] = "done"     -> SendDone(c)
                   [] cb[c] = "continue" -> /\ write' = [write EXCEPT ![c] = "no"]
                                            /\ out' = [out EXCEPT ![c] = <<>>]
                                            /\ UNCHANGED <<state, request, read, readcb, cb, more>>
                   [] cb[c] = "null"     -> /\ out' = [out EXCEPT ![c] = <<>>]
                                            /\ UNCHANGED <<state, request, bev, more>>
  BY DEF WriteEvent
<1>3. Len(out[c]) \in Nat /\ cb[c] \in {"null", "continue", "done"}
  BY LenProperties DEF IInv, ConOk, OutputOk
<1>4. CASE n < Len(out[c])
  BY <1>1, <1>2, <1>4 DEF Written, request, bev
<1>5. CASE ~(n < Len(out[c]))
  <2>1. n = Len(out[c])
    BY <1>3, <1>5
  <2>2. CASE cb[c] = "done"
    BY <1>1, <1>2, <1>5, <2>1, <2>2 DEF SendDone, Finished, GoesOn
  <2>3. CASE cb[c] = "continue"
    BY <1>1, <1>2, <1>5, <2>1, <2>3 DEF Written, request
  <2>4. CASE cb[c] = "null"
    BY <1>1, <1>2, <1>5, <2>1, <2>4 DEF Written, request, bev
  <2> QED
    BY <1>3, <2>2, <2>3, <2>4
<1> QED
  BY <1>4, <1>5

LEMMA PartsTypes ==
    ASSUME NEW s \in Seq(Nat), NEW n \in 1..Len(s)
    PROVE  SubSeq(s, 1, n) \in Seq(Nat) /\ SubSeq(s, n + 1, Len(s)) \in Seq(Nat)
  OBVIOUS

LEMMA WriteEventInv ==
    ASSUME IInv, NEW c \in Conns, WriteEvent(c)
    PROVE  IInv'
<1>1. /\ Idle /\ Live(c) /\ out[c] # <<>>
      /\ UNCHANGED <<svr, does, curReq, stream, sent, arrived, pos, eof, calls, trouble>>
  BY WriteFacts
<1>2. PICK n \in 1..Len(out[c]) :
                /\ got' = [got EXCEPT ![c] = @ \o SubSeq(out[c], 1, n)]
                /\ \/ /\ n < Len(out[c]) /\ Written(c) /\ write' = write
                      /\ out' = [out EXCEPT ![c] = SubSeq(@, n + 1, Len(@))]
                   \/ /\ n = Len(out[c]) /\ Written(c) /\ cb[c] # "done"
                      /\ out' = [out EXCEPT ![c] = <<>>]
                      /\ write' = write \/ write' = [write EXCEPT ![c] = "no"]
                   \/ n = Len(out[c]) /\ cb[c] = "done" /\ (Finished(c) \/ GoesOn(c))
  BY WriteFacts
<1>3. /\ FrameOk' /\ Idle' /\ \A fn : ~Running(fn)' /\ ~Running(fn)
      /\ \A d \in Conns : ~Framed(d)' /\ ~Framed(d)
  BY <1>1, SameCalls DEF IInv, CallsInv, Running, Idle, Framed
<1>4. ServerOk'
  BY <1>1 DEF IInv, ServerOk
<1>5. ConOk'
  <2>1. CASE Written(c)
    <3>1. write' = write \/ write' = [write EXCEPT ![c] = "no"] \/ FreeCon(c) \/ NewRequest(c)
      BY <1>2 DEF Finished, GoesOn
    <3>2. write' \in Flag
      BY <3>1, NewRequestTypes DEF IInv, ConOk, Flag, FreeCon, bev
    <3> QED
      BY <2>1, <3>2 DEF Written, IInv, ConOk
  <2>2. CASE Finished(c)
    BY <2>2, FreeConTypes DEF Finished, IInv, ConOk, FreeCon, bev, request
  <2>3. CASE GoesOn(c)
    BY <2>3, NewRequestTypes DEF GoesOn, IInv, ConOk
  <2> QED
    BY <1>2, <2>1, <2>2, <2>3
<1>6. InputOk'
  BY <1>1 DEF IInv, InputOk, OrderOk
<1>7. OutputOk'
  <2>1. SubSeq(out[c], 1, n) \in Seq(Nat) /\ SubSeq(out[c], n + 1, Len(out[c])) \in Seq(Nat)
    BY PartsTypes DEF IInv, OutputOk
  <2>2. got[c] \o SubSeq(out[c], 1, n) \in Seq(Nat) /\ <<>> \in Seq(Nat)
    BY <2>1 DEF IInv, OutputOk
  <2>3. got' \in [Conns -> Seq(Nat)]
    BY <1>2, <2>2 DEF IInv, OutputOk
  <2>4. out' \in [Conns -> Seq(Nat)]
    BY <1>2, <2>1, <2>2 DEF IInv, OutputOk, Finished, FreeCon, GoesOn
  <2> QED
    BY <2>3, <2>4 DEF OutputOk
<1>8. CallsInv'
  BY <1>1, <1>3 DEF IInv, CallsInv
<1>9. ReaderInv'
  <2>1. CASE Written(c)
    BY <1>3, <2>1 DEF Written, IInv, ReaderInv, ReaderOk, Live
  <2>2. CASE Finished(c)
    <3>1. ReaderOk(c)'
      BY <1>3, <2>2 DEF Finished, FreeCon, Enter, IInv, ReaderInv, ReaderOk, ConOk, Flag, Live
    <3> QED
      BY <1>3, <2>2, <3>1, ReaderStep DEF Finished, FreeCon, Enter, IInv, ConOk, Flag, bev,
         request
  <2>3. CASE GoesOn(c)
    <3>1. ReaderOk(c)'
      BY <1>3, <2>3 DEF GoesOn, NewRequest, StartRead, Enter, IInv, ReaderInv, ReaderOk, ConOk,
         Flag,
         Live, ReadStates
    <3> QED
      BY <1>3, <2>3, <3>1, ReaderStep DEF GoesOn, NewRequest, StartRead, Enter, IInv, ConOk, Flag
  <2> QED
    BY <1>2, <2>1, <2>2, <2>3
<1>10. DeleteInv'
  <2>1. svr # "freed"
    BY <1>1 DEF IInv, DeleteInv, Live
  <2> QED
    BY <1>1, <2>1 DEF IInv, DeleteInv
<1> QED
  BY <1>4, <1>5, <1>6, <1>7, <1>8, <1>9, <1>10 DEF IInv

LEMMA UserDeleteInv ==
    ASSUME IInv, UserDelete
    PROVE  IInv'
<1>1. calls' = calls /\ FrameOk' /\ \A fn : Running(fn)' <=> Running(fn)
  BY SameCalls DEF IInv, CallsInv, UserDelete
<1>2. ~Running("read") /\ (Running("RevRequest") => "Delete" \in does)
  BY FrameFacts DEF IInv, CallsInv, UserDelete, Deletes, Doing, Idle, Running
<1>3. ServerOk'
  BY DEF IInv, ServerOk, UserDelete
<1>4. ConOk'
  BY DEF IInv, ConOk, Flag, UserDelete, bev, request
<1>5. InputOk'
  BY DEF IInv, InputOk, OrderOk, UserDelete, input
<1>6. OutputOk'
  BY DEF IInv, OutputOk, UserDelete
<1>7. CallsInv'
  BY <1>1, <1>2 DEF CallsInv, UserDelete
<1>8. ReaderInv' /\ DeleteInv'
  BY <1>1, <1>2 DEF IInv, ReaderInv, ReaderOk, DeleteInv, Live, UserDelete
<1> QED
  BY <1>3, <1>4, <1>5, <1>6, <1>7, <1>8 DEF IInv

LEMMA IInvNext == IInv /\ [Next]_svrVars => IInv'
<1> SUFFICES ASSUME IInv, [Next]_svrVars PROVE IInv'
  OBVIOUS
<1>1. CASE UNCHANGED svrVars
  BY <1>1, SameCalls DEF svrVars, IInv, ServerOk, ConOk, InputOk, OrderOk, OutputOk, CallsInv,
     ReaderInv,
     ReaderOk, DeleteInv, Live
<1>2. ASSUME NEW c \in Conns, Peer(c) \/ Event(c) PROVE IInv'
  <2>1. CASE Peer(c)
    BY <2>1, AcceptInv, PeerSendInv, PeerClosesInv DEF Peer
  <2>2. CASE Event(c)
    BY <2>2, ReadEventCallsInv, ReadEventQuietInv, DeferredReadInv, WriteEventInv, ErrorEventInv
       DEF Event
  <2> QED
    BY <1>2, <2>1, <2>2
<1>3. CASE ReadStep
  BY <1>3, ReadMoreInv, ReadFirstLineInv, ReadBadInv, ReadHeadersBodyInv, ReadHeadersExpectInv,
     ReadLastChunkInv, ReadRefusedInv, RevRequestCBInv DEF ReadStep
<1>4. CASE Program
  BY <1>4, UserSendInv, UserReplyInv, UserDeleteInv, RevReturnInv, RevReturnFreedInv DEF Program
<1> QED
  BY <1>1, <1>2, <1>3, <1>4 DEF Next

LEMMA IInvInit == Init => IInv
  BY SvrProgramAssumption DEF Init, IInv, ServerOk, ConOk, InputOk, OrderOk, OutputOk, CallsInv,
     FrameOk,
     ReaderInv, ReaderOk, DeleteInv, Live, Flag, Idle, Running, NoReq

\* The invariant behind the theorems below: what the call stack, the reader and the
\* deferred callback say about each connection holds in every reachable state.
THEOREM InvCorrect == Spec => []IInv
  BY IInvInit, IInvNext, PTL DEF Spec

\* While the server lives, m_cur_req names no request unless RevRequest runs, and then
\* the latest of an open connection whose answer evhttp still waits for (http.cc:186).
THEOREM CurReqCorrect == Spec => []CurReqIsTrue
<1>1. IInv => CurReqIsTrue
  <2> SUFFICES ASSUME IInv PROVE CurReqIsTrue
    OBVIOUS
  <2>1. TypeOK
    BY IInvTypes
  <2>2. ASSUME svr = "alive", Idle PROVE curReq = NoReq
    BY <2>2 DEF IInv, CallsInv, Running, Idle
  <2>3. ASSUME svr = "alive", curReq # NoReq
        PROVE  state[curReq[1]] = "writing" /\ nth[curReq[1]] = curReq[2]
    BY <2>3 DEF IInv, CallsInv
  <2> QED
    BY <2>1, <2>2, <2>3 DEF CurReqIsTrue
<1> QED
  BY <1>1, InvCorrect, PTL

\* evhttp_read_cb never runs in a state of the connection that ends the process
\* (http.c:1163): neither bytes that arrive early nor the deferred callback get there.
THEOREM ReadsCorrect == Spec => []ReadsInTurn
<1>1. IInv => ReadsInTurn
  BY DEF IInv, CallsInv, ReadStates, ReadsInTurn
<1> QED
  BY <1>1, InvCorrect, PTL

\* No deferred callback runs for a connection that evhttp has freed (http.c:1231),
\* whatever was presented, answered, refused or broken off before, for every program
\* that does not delete the server in RevRequest.
THEOREM NoUseCorrect == Spec => []NoUseAfterFree
<1>1. IInv => NoUseAfterFree
  BY DEF IInv, DeleteInv, ServerOk, NoUseAfterFree
<1> QED
  BY <1>1, InvCorrect, PTL

-----------------------------------------------------------------------------
(* Answers in their turn. *)

LEMMA ConcatNat ==
    ASSUME NEW s \in Seq(Nat), NEW t \in Seq(Nat)
    PROVE  /\ s \o t \in Seq(Nat) /\ Len(s) \in Nat /\ Len(t) \in Nat
           /\ Len(s \o t) = Len(s) + Len(t)
           /\ \A i \in 1..Len(s) : (s \o t)[i] = s[i]
           /\ \A i \in 1..Len(t) : (s \o t)[Len(s) + i] = t[i]
  OBVIOUS

LEMMA PartsNat ==
    ASSUME NEW s \in Seq(Nat), NEW n \in 1..Len(s)
    PROVE  /\ SubSeq(s, 1, n) \in Seq(Nat) /\ Len(SubSeq(s, 1, n)) = n
           /\ \A i \in 1..n : SubSeq(s, 1, n)[i] = s[i]
           /\ SubSeq(s, n + 1, Len(s)) \in Seq(Nat) /\ Len(SubSeq(s, n + 1, Len(s))) = Len(s) - n
           /\ \A i \in 1..(Len(s) - n) : SubSeq(s, n + 1, Len(s))[i] = s[n + i]
           /\ Len(s) \in Nat /\ n \in Nat
<1>1. Len(s) \in Nat /\ n \in Nat /\ 1 =< n /\ n =< Len(s)
  BY LenProperties
<1>2. SubSeq(s, 1, n) \in Seq(Nat) /\ Len(SubSeq(s, 1, n)) = n
  OBVIOUS
<1>3. \A i \in 1..n : SubSeq(s, 1, n)[i] = s[i]
  OBVIOUS
<1>4. SubSeq(s, n + 1, Len(s)) \in Seq(Nat) /\ Len(SubSeq(s, n + 1, Len(s))) = Len(s) - n
  OBVIOUS
<1>5. ASSUME NEW i \in 1..(Len(s) - n) PROVE SubSeq(s, n + 1, Len(s))[i] = s[n + i]
  OBVIOUS
<1> QED
  BY <1>1, <1>2, <1>3, <1>4, <1>5

\* Status lines 100 at the start of what is appended add no answer.
LEMMA PrefixSet ==
    ASSUME NEW s \in Seq(Nat), NEW t \in Seq(Nat), NEW k \in 0..Len(t),
           \A i \in 1..k : t[i] = Continue
    PROVE  {(s \o t)[i] : i \in 1..(Len(s) + k)} \ {Continue}
             = {s[i] : i \in 1..Len(s)} \ {Continue}
<1>1. \A i \in 1..(Len(s) + k) : i \in 1..Len(s) \/ \E m \in 1..k : i = Len(s) + m
  <2> SUFFICES ASSUME NEW i \in 1..(Len(s) + k), i \notin 1..Len(s)
               PROVE  \E m \in 1..k : i = Len(s) + m
    OBVIOUS
  <2>1. i - Len(s) \in 1..k /\ i = Len(s) + (i - Len(s))
    BY ConcatNat
  <2> QED
    BY <2>1
<1>2. \A i \in 1..(Len(s) + k) :
        (i \in 1..Len(s) /\ (s \o t)[i] = s[i]) \/ (s \o t)[i] = Continue
  <2> SUFFICES ASSUME NEW i \in 1..(Len(s) + k), i \notin 1..Len(s)
               PROVE  (s \o t)[i] = Continue
    BY ConcatNat
  <2>1. PICK m \in 1..k : i = Len(s) + m
    BY <1>1
  <2>2. m \in 1..Len(t) /\ t[m] = Continue
    BY ConcatNat
  <2> QED
    BY <2>1, <2>2, ConcatNat
<1>3. \A i \in 1..Len(s) : i \in 1..(Len(s) + k) /\ (s \o t)[i] = s[i]
  BY ConcatNat
<1> QED
  BY <1>2, <1>3

LEMMA InOrderContinues ==
    ASSUME NEW s \in Seq(Nat), NEW t \in Seq(Nat), NEW n, InOrder(s, n), OnlyContinue(t)
    PROVE  InOrder(s \o t, n)
<1>1. {(s \o t)[i] : i \in 1..Len(s \o t)} \ {Continue} = 1..n
  <2>1. Len(t) \in 0..Len(t) /\ \A i \in 1..Len(t) : t[i] = Continue
    BY ConcatNat DEF OnlyContinue
  <2>2. {(s \o t)[i] : i \in 1..(Len(s) + Len(t))} \ {Continue}
          = {s[i] : i \in 1..Len(s)} \ {Continue}
    BY <2>1, PrefixSet
  <2> QED
    BY <2>2, ConcatNat DEF InOrder
<1>2. ASSUME NEW j \in 1..Len(s \o t), (s \o t)[j] # Continue
      PROVE  {(s \o t)[i] : i \in 1..(j - 1)} \ {Continue} = 1..((s \o t)[j] - 1)
  <2>1. j \in 1..Len(s)
    <3>1. j \notin 1..Len(s) => j - Len(s) \in 1..Len(t) /\ j = Len(s) + (j - Len(s))
      BY ConcatNat
    <3> QED
      BY <1>2, <3>1, ConcatNat DEF OnlyContinue
  <2>2. \A i \in 1..(j - 1) : i \in 1..Len(s)
    BY <2>1, ConcatNat
  <2>3. \A i \in 1..(j - 1) : (s \o t)[i] = s[i]
    BY <2>2, ConcatNat
  <2>4. {(s \o t)[i] : i \in 1..(j - 1)} = {s[i] : i \in 1..(j - 1)} /\ (s \o t)[j] = s[j]
    BY <2>1, <2>3, ConcatNat
  <2> QED
    BY <1>2, <2>1, <2>4 DEF InOrder
<1> QED
  BY <1>1, <1>2 DEF InOrder

LEMMA InOrderAnswer ==
    ASSUME NEW s \in Seq(Nat), NEW t \in Seq(Nat), NEW n \in Nat \ {0},
           InOrder(s, n - 1), EndsWith(t, n)
    PROVE  InOrder(s \o t, n)
<1>0. Len(t) \in Nat /\ Len(t) > 0 /\ Len(t) - 1 \in 0..Len(t)
  BY EmptySeq, LenProperties DEF EndsWith
<1>1. {(s \o t)[i] : i \in 1..(Len(s) + (Len(t) - 1))} \ {Continue} = 1..(n - 1)
  <2>1. \A i \in 1..(Len(t) - 1) : t[i] = Continue
    BY DEF EndsWith
  <2>2. {(s \o t)[i] : i \in 1..(Len(s) + (Len(t) - 1))} \ {Continue}
          = {s[i] : i \in 1..Len(s)} \ {Continue}
    BY <1>0, <2>1, PrefixSet
  <2> QED
    BY <2>2 DEF InOrder
<1>2. Len(s \o t) \in Nat /\ Len(s \o t) - 1 = Len(s) + (Len(t) - 1) /\ (s \o t)[Len(s \o t)] = n
  <2>1. Len(t) \in 1..Len(t) /\ t[Len(t)] = n
    BY <1>0 DEF EndsWith
  <2>2. (s \o t)[Len(s) + Len(t)] = n
    BY <2>1, ConcatNat
  <2> QED
    BY <1>0, <2>2, ConcatNat
<1>3. {(s \o t)[i] : i \in 1..Len(s \o t)} \ {Continue} = 1..n
  <2> DEFINE u == s \o t
  <2>1. Len(u) \in Nat /\ Len(u) > 0
    BY <1>0, ConcatNat
  <2>2. {u[i] : i \in 1..Len(u)} = {u[i] : i \in 1..(Len(u) - 1)} \cup {u[Len(u)]}
    <3> HIDE DEF u
    <3>1. \A i : i \in 1..Len(u) <=> i \in 1..(Len(u) - 1) \/ i = Len(u)
      BY <2>1
    <3> QED
      BY <3>1
  <2>3. {u[i] : i \in 1..(Len(u) - 1)} \ {Continue} = 1..(n - 1) /\ u[Len(u)] = n
    BY <1>1, <1>2
  <2>4. 1..n = 1..(n - 1) \cup {n} /\ n # Continue
    BY DEF Continue
  <2> HIDE DEF u
  <2>5. {u[i] : i \in 1..Len(u)} \ {Continue} = 1..n
    BY <2>2, <2>3, <2>4
  <2> QED
    BY <2>5 DEF u
<1>4. ASSUME NEW j \in 1..Len(s \o t), (s \o t)[j] # Continue
      PROVE  {(s \o t)[i] : i \in 1..(j - 1)} \ {Continue} = 1..((s \o t)[j] - 1)
  <2>1. CASE j = Len(s \o t)
    BY <1>1, <1>2, <2>1
  <2>2. CASE j # Len(s \o t)
    <3>1. j \in 1..Len(s)
      <4>1. j \notin 1..Len(s) => j - Len(s) \in 1..(Len(t) - 1) /\ j = Len(s) + (j - Len(s))
        <5>1. /\ Len(s \o t) = Len(s) + Len(t) /\ Len(s) \in Nat
              /\ j \in Int /\ 1 =< j /\ j =< Len(s \o t)
          BY ConcatNat
        <5>2. \A a, b \in Nat : \A i \in Int :
                1 =< i /\ i =< a + b /\ i # a + b /\ b > 0 /\ ~(i =< a)
                => i - a \in 1..(b - 1) /\ i = a + (i - a)
          OBVIOUS
        <5>3. j # Len(s) + Len(t)
          BY <2>2, <5>1
        <5>4. j \notin 1..Len(s) => ~(j =< Len(s))
          BY <5>1
        <5> QED
          BY <1>0, <5>1, <5>2, <5>3, <5>4
      <4>2. \A m \in 1..(Len(t) - 1) : m \in 1..Len(t) /\ t[m] = Continue
        <5>1. \A m \in 1..(Len(t) - 1) : m \in 1..Len(t)
          BY <1>0
        <5> QED
          BY <5>1 DEF EndsWith
      <4> QED
        BY <1>4, <4>1, <4>2, ConcatNat
    <3>2. \A i \in 1..(j - 1) : i \in 1..Len(s)
      BY <3>1, ConcatNat
    <3>3. \A i \in 1..(j - 1) : (s \o t)[i] = s[i]
      BY <3>2, ConcatNat
    <3>4. {(s \o t)[i] : i \in 1..(j - 1)} = {s[i] : i \in 1..(j - 1)} /\ (s \o t)[j] = s[j]
      BY <3>1, <3>3, ConcatNat
    <3> QED
      BY <1>4, <3>1, <3>4 DEF InOrder
  <2> QED
    BY <2>1, <2>2
<1> QED
  BY <1>3, <1>4 DEF InOrder

LEMMA NothingInOrder == InOrder(<<>>, 0)
  BY EmptySeq DEF InOrder

LEMMA TurnStep ==
    ASSUME TurnInv, NEW c \in Conns, TurnOk(c)', PresentedInv',
           \A d \in Conns \ {c} :
               /\ got'[d] = got[d] /\ out'[d] = out[d] /\ cb'[d] = cb[d]
               /\ state'[d] = state[d] /\ nth'[d] = nth[d] /\ readcb'[d] = readcb[d]
    PROVE  TurnInv'
  BY DEF TurnInv, TurnOk, Live

\* Steps that neither read, write nor answer, and the end of a connection.
LEMMA TurnSame ==
    ASSUME NEW c \in Conns, TurnOk(c), got'[c] = got[c],
           \/ /\ nth'[c] = nth[c] /\ readcb'[c] = readcb[c] /\ cb'[c] = cb[c] /\ out'[c] = out[c]
              /\ Live(c)' => Live(c)
              /\ state'[c] = "none" => state[c] = "none"
           \/ state'[c] = "freed"
    PROVE  TurnOk(c)'
  BY DEF TurnOk, Live

\* evhttp_send on a connection whose request has no answer yet.
LEMMA TurnSend ==
    ASSUME IInv, NEW c \in Conns, TurnOk(c), Live(c), readcb[c] = "yes", Send(c),
           got' = got, nth' = nth, Live(c)'
    PROVE  TurnOk(c)'
<1>1. /\ out'[c] = Append(out[c], nth[c]) /\ cb'[c] = "done" /\ readcb'[c] = "no"
      /\ out[c] \in Seq(Nat) /\ nth[c] \in Nat
  BY DEF Send, IInv, ConOk, OutputOk, Flag
<1>2. EndsWith(out'[c], nth[c])
  BY <1>1, AppendNat DEF EndsWith, TurnOk, OnlyContinue
<1> QED
  BY <1>1, <1>2 DEF TurnOk, Live

LEMMA TurnRead ==
    ASSUME IInv, TurnInv, ReadStep
    PROVE  TurnInv'
<1>0. Running("read")
  BY DEF ReadStep, ReadMore, ReadFirstLine, ReadBad, ReadHeadersBody, ReadHeadersExpect,
     ReadLastChunk, ReadRefused, RevRequestCB, Completed, Reading
<1>1. PICK c \in Conns : c = Con
  BY <1>0, FrameFacts DEF IInv, CallsInv, Running, Idle
<1>2. Live(c) /\ readcb[c] = "yes" /\ curReq = NoReq /\ TurnOk(c)
  BY <1>0, <1>1, FrameFacts
     DEF IInv, CallsInv, ReadStates, Live, TurnInv, Running, Idle
<1>3. got' = got /\ nth' = nth
  BY DEF ReadStep, ReadMore, ReadFirstLine, ReadBad, Fail, ReadHeadersBody, ReadHeadersExpect,
     ReadLastChunk, ReadRefused, RevRequestCB, request, output
<1>4. \A d \in Conns \ {c} :
        /\ state'[d] = state[d] /\ readcb'[d] = readcb[d] /\ out'[d] = out[d] /\ cb'[d] = cb[d]
  BY <1>1 DEF ReadStep, ReadMore, ReadFirstLine, ReadBad, Fail, ReadHeadersBody,
     ReadHeadersExpect,
     SendError, Send, ReadLastChunk, ReadRefused, RevRequestCB, bev, output, Enter, IInv, ConOk,
     OutputOk, Flag
<1>5. Live(c)'
  BY <1>1, <1>2 DEF ReadStep, ReadMore, ReadFirstLine, ReadBad, ReadHeadersBody,
     ReadHeadersExpect,
     ReadLastChunk, ReadRefused, RevRequestCB, Enter, Live, IInv, ConOk
<1>6. TurnOk(c)'
  <2>1. CASE ReadBad \/ ReadHeadersExpect \/ ReadRefused
    <3>1. Send(c)
      BY <1>1, <2>1 DEF ReadBad, Fail, ReadHeadersExpect, ReadRefused, SendError
    <3> QED
      BY <1>2, <1>3, <1>5, <3>1, TurnSend
  <2>2. CASE ReadHeadersBody
    <3>1. readcb' = readcb
      BY <2>2 DEF ReadHeadersBody
    <3>2. CASE cb' = cb /\ out' = out
      BY <1>2, <1>3, <1>5, <3>1, <3>2 DEF TurnOk, Live
    <3>3. CASE /\ cb' = [cb EXCEPT ![c] = "continue"]
               /\ out' = [out EXCEPT ![c] = Append(@, Continue)]
      <4>1. out'[c] = Append(out[c], Continue) /\ cb'[c] = "continue" /\ out[c] \in Seq(Nat)
        BY <3>3 DEF IInv, ConOk, OutputOk
      <4>2. OnlyContinue(out'[c])
        BY <1>2, <4>1, AppendNat DEF TurnOk, OnlyContinue, Continue
      <4> QED
        BY <1>2, <1>3, <1>5, <3>1, <4>1, <4>2 DEF TurnOk, Live
    <3> QED
      BY <1>1, <2>2, <3>2, <3>3 DEF ReadHeadersBody
  <2>3. CASE ReadMore \/ ReadFirstLine \/ ReadLastChunk \/ RevRequestCB
    <3>1. UNCHANGED <<readcb, cb, out>>
      BY <2>3 DEF ReadMore, ReadFirstLine, ReadLastChunk, RevRequestCB, bev, output
    <3> QED
      BY <1>2, <1>3, <1>5, <3>1 DEF TurnOk, Live
  <2> QED
    BY <2>1, <2>2, <2>3 DEF ReadStep
<1>7. PresentedInv'
  <2>1. CASE RevRequestCB
    <3>1. curReq' = <<c, nth[c]>> /\ readcb' = readcb
      BY <1>1, <1>2, <2>1 DEF RevRequestCB
    <3> QED
      BY <1>2, <3>1 DEF PresentedInv
  <2>2. CASE ~RevRequestCB
    <3>1. curReq' = NoReq
      BY <1>2, <2>2 DEF ReadStep, ReadMore, ReadFirstLine, ReadBad, ReadHeadersBody,
         ReadHeadersExpect,
         ReadLastChunk, ReadRefused, server
    <3> QED
      BY <3>1 DEF PresentedInv
  <2> QED
    BY <2>1, <2>2
<1> QED
  BY <1>3, <1>4, <1>6, <1>7, TurnStep

LEMMA TurnProgram ==
    ASSUME IInv, TurnInv, "Reply" \notin does, Program
    PROVE  TurnInv'
<1>1. CASE UserDelete
  <2>1. got' = got /\ svr' = "freed" /\ \A c \in Conns : state'[c] = "freed"
    BY <1>1 DEF UserDelete
  <2> QED
    BY <2>1, TurnSame DEF TurnInv, PresentedInv
<1>2. CASE RevReturnFreed
  <2>1. UNCHANGED <<state, nth, readcb, cb, out, got, svr, curReq>>
    BY <1>2 DEF RevReturnFreed, server, bev, request, output
  <2> QED
    BY <2>1, TurnSame DEF TurnInv, PresentedInv, Live
<1>3. CASE UserSend \/ RevReturn
  <2>1. Running("RevRequest") /\ svr = "alive"
    BY <1>3 DEF UserSend, RevReturn, Doing
  <2>2. PICK c \in Conns : c = Con
    BY <2>1, FrameFacts DEF IInv, CallsInv, Running, Idle
  <2>3. Live(c) /\ curReq \in {NoReq, <<c, nth[c]>>} /\ TurnOk(c)
    BY <2>1, <2>2 DEF IInv, CallsInv, Live, TurnInv
  <2>4. got' = got /\ nth' = nth /\ state' = state /\ curReq' = NoReq
    BY <1>3 DEF UserSend, RevReturn, bev, request
  <2>5. CASE Send(c) /\ curReq # NoReq
    <3>1. readcb[c] = "yes"
      BY <2>1, <2>3, <2>5 DEF TurnInv, PresentedInv
    <3>2. Live(c)'
      BY <2>3, <2>4 DEF Live
    <3>3. TurnOk(c)'
      BY <2>3, <2>4, <2>5, <3>1, <3>2, TurnSend
    <3>4. \A d \in Conns \ {c} : out'[d] = out[d] /\ cb'[d] = cb[d] /\ readcb'[d] = readcb[d]
      BY <2>5 DEF Send, IInv, ConOk, OutputOk, Flag
    <3> QED
      BY <2>4, <3>3, <3>4, TurnStep DEF PresentedInv
  <2>6. CASE UNCHANGED <<cb, readcb, out>>
    BY <2>4, <2>6, TurnSame DEF TurnInv, PresentedInv, Live
  <2>7. (Send(c) /\ curReq # NoReq) \/ UNCHANGED <<cb, readcb, out>>
    BY <1>3, <2>3 DEF UserSend, RevReturn, SendReply, SendError, bev, NoReq
  <2> QED
    BY <2>5, <2>6, <2>7
<1> QED
  BY <1>1, <1>2, <1>3 DEF Program, UserReply, Doing

LEMMA TurnWrite ==
    ASSUME IInv, TurnInv, NEW c \in Conns, WriteEvent(c)
    PROVE  TurnInv'
<1>1. /\ Idle /\ Live(c) /\ out[c] # <<>>
      /\ UNCHANGED <<svr, curReq>>
  BY WriteFacts
<1>2. PICK n \in 1..Len(out[c]) :
                /\ got' = [got EXCEPT ![c] = @ \o SubSeq(out[c], 1, n)]
                /\ \/ /\ n < Len(out[c]) /\ Written(c) /\ write' = write
                      /\ out' = [out EXCEPT ![c] = SubSeq(@, n + 1, Len(@))]
                   \/ /\ n = Len(out[c]) /\ Written(c) /\ cb[c] # "done"
                      /\ out' = [out EXCEPT ![c] = <<>>]
                      /\ write' = write \/ write' = [write EXCEPT ![c] = "no"]
                   \/ n = Len(out[c]) /\ cb[c] = "done" /\ (Finished(c) \/ GoesOn(c))
  BY WriteFacts
<1> DEFINE s == got[c]
           o == out[c]
           t == SubSeq(o, 1, n)
           r == SubSeq(o, n + 1, Len(o))
<1>3. /\ s \in Seq(Nat) /\ o \in Seq(Nat) /\ t \in Seq(Nat) /\ r \in Seq(Nat)
      /\ Len(t) = n /\ Len(r) = Len(o) - n /\ Len(o) \in Nat /\ n \in Nat /\ n > 0
      /\ \A i \in 1..n : t[i] = o[i]
      /\ \A i \in 1..(Len(o) - n) : r[i] = o[n + i]
      /\ nth[c] \in Nat \ {0} /\ readcb[c] \in {"yes", "no"}
      /\ got'[c] = s \o t
  <2>1. s \in Seq(Nat) /\ o \in Seq(Nat) /\ n \in 1..Len(o) /\ got'[c] = s \o t
    BY <1>2 DEF IInv, OutputOk
  <2>2. nth[c] \in Nat \ {0} /\ readcb[c] \in {"yes", "no"}
    BY <1>1 DEF IInv, ConOk, Flag, ReaderInv, ReaderOk
  <2>3. n \in Nat /\ n > 0
    BY <2>1, PartsNat
  <2> HIDE DEF s, o
  <2> QED
    BY <2>1, <2>2, <2>3, PartsNat
<1>4. /\ TurnOk(c) /\ InOrder(s, nth[c] - 1)
      /\ readcb[c] = "yes" => OnlyContinue(o) /\ cb[c] = "continue"
      /\ readcb[c] = "no" => EndsWith(o, nth[c]) /\ cb[c] = "done"
  BY <1>1 DEF TurnInv, TurnOk
<1>5. \A d \in Conns \ {c} :
        /\ got'[d] = got[d] /\ out'[d] = out[d] /\ cb'[d] = cb[d]
        /\ state'[d] = state[d] /\ nth'[d] = nth[d] /\ readcb'[d] = readcb[d]
  BY <1>2 DEF Written, Finished, FreeCon, GoesOn, NewRequest, StartRead, Enter, bev, request,
     IInv,
     ConOk, OutputOk, Flag
<1>6. PresentedInv'
  BY <1>1 DEF PresentedInv, IInv, CallsInv, Running, Idle
<1>7. CASE n < Len(o) /\ Written(c) /\ out'[c] = r
  <2>1. OnlyContinue(t)
    <3> HIDE DEF s, o, t, r
    <3>1. \A i \in 1..n : i \in 1..Len(o) /\ i \in 1..(Len(o) - 1)
      <4>1. Len(o) \in Nat /\ n \in Nat /\ n < Len(o)
        BY <1>3, <1>7
      <4> QED
        BY <4>1
    <3>2. \A i \in 1..n : o[i] = Continue
      BY <1>3, <1>4, <3>1 DEF OnlyContinue, EndsWith
    <3> QED
      BY <1>3, <3>2 DEF OnlyContinue
  <2>2. InOrder(got'[c], nth[c] - 1)
    BY <1>3, <1>4, <2>1, InOrderContinues
  <2>3. readcb[c] = "yes" => OnlyContinue(r)
    BY <1>3, <1>4 DEF OnlyContinue
  <2>4. readcb[c] = "no" => EndsWith(r, nth[c])
    <3> SUFFICES ASSUME readcb[c] = "no" PROVE EndsWith(r, nth[c])
      OBVIOUS
    <3>1. r # <<>> /\ r[Len(r)] = o[Len(o)]
      <4> HIDE DEF s, o, t, r
      <4>1. Len(r) \in 1..(Len(o) - n) /\ n + Len(r) = Len(o) /\ Len(r) # 0
        <5>1. Len(r) = Len(o) - n /\ Len(o) \in Nat /\ n \in Nat /\ n < Len(o)
          BY <1>3, <1>7
        <5> QED
          BY <5>1
      <4>2. r[Len(r)] = o[n + Len(r)]
        BY <1>3, <4>1
      <4> QED
        BY <4>1, <4>2, EmptySeq
    <3>2. \A i \in 1..(Len(r) - 1) : r[i] = Continue
      BY <1>3, <1>4, <1>7 DEF EndsWith
    <3> QED
      BY <1>4, <3>1, <3>2 DEF EndsWith
  <2>5. TurnOk(c)'
    <3> HIDE DEF s, o, t, r
    <3>1. UNCHANGED <<state, nth, readcb, cb>> /\ out'[c] = r
      BY <1>7 DEF Written
    <3>2. nth[c] - 1 \in Nat
      BY <1>3
    <3> QED
      BY <1>1, <1>4, <2>2, <2>3, <2>4, <3>1, <3>2 DEF TurnOk, Live
  <2> QED
    BY <1>5, <1>6, <2>5, TurnStep
<1>8. CASE n = Len(o) /\ Written(c) /\ cb[c] # "done" /\ out'[c] = <<>>
  <2>1. OnlyContinue(t) /\ readcb[c] = "yes"
    BY <1>3, <1>4, <1>8 DEF OnlyContinue
  <2>2. InOrder(got'[c], nth[c] - 1)
    BY <1>3, <1>4, <2>1, InOrderContinues
  <2>3. OnlyContinue(<<>>)
    BY EmptySeq DEF OnlyContinue
  <2>4. TurnOk(c)'
    <3> HIDE DEF s, o, t, r
    <3>1. UNCHANGED <<state, nth, readcb, cb>> /\ nth[c] - 1 \in Nat
      BY <1>3, <1>8 DEF Written
    <3> QED
      BY <1>1, <1>4, <1>8, <2>1, <2>2, <2>3, <3>1 DEF TurnOk, Live
  <2> QED
    BY <1>5, <1>6, <2>4, TurnStep
<1>9. CASE n = Len(o) /\ cb[c] = "done" /\ (Finished(c) \/ GoesOn(c))
  <2>1. EndsWith(o, nth[c])
    BY <1>3, <1>4, <1>9
  <2>2. EndsWith(t, nth[c])
    <3>1. t # <<>> /\ t[Len(t)] = o[Len(o)]
      BY <1>3, <1>9, EmptySeq
    <3>2. \A i \in 1..(Len(t) - 1) : i \in 1..n /\ t[i] = o[i]
      <4> HIDE DEF s, o, t, r
      <4>1. \A i \in 1..(Len(t) - 1) : i \in 1..n
        BY <1>3
      <4> QED
        BY <1>3, <4>1
    <3> QED
      BY <1>3, <1>9, <2>1, <3>1, <3>2 DEF EndsWith
  <2>3. InOrder(got'[c], nth[c])
    <3> HIDE DEF s, o, t, r
    <3>1. s \in Seq(Nat) /\ t \in Seq(Nat) /\ nth[c] \in Nat \ {0} /\ got'[c] = s \o t
      BY <1>3
    <3> QED
      BY <1>4, <2>2, <3>1, InOrderAnswer
  <2>4. CASE Finished(c)
    <3>1. state'[c] = "freed"
      BY <2>4 DEF Finished, FreeCon, Enter, IInv, ConOk
    <3> HIDE DEF s, o, t, r
    <3>2. TurnOk(c)'
      BY <1>3, <2>3, <3>1 DEF TurnOk, Live
    <3> QED
      BY <1>5, <1>6, <3>2, TurnStep
  <2>5. CASE GoesOn(c)
    <3>1. /\ state'[c] = "firstline" /\ nth'[c] = nth[c] + 1 /\ readcb'[c] = "yes" /\ out'[c] = <<>>
          /\ nth'[c] - 1 = nth[c]
      BY <1>3, <2>5 DEF GoesOn, NewRequest, StartRead, Enter, IInv, ConOk, OutputOk, Flag
    <3>2. OnlyContinue(<<>>)
      BY EmptySeq DEF OnlyContinue
    <3> HIDE DEF s, o, t, r
    <3>3. TurnOk(c)'
      BY <1>3, <2>3, <3>1, <3>2 DEF TurnOk, Live
    <3> QED
      BY <1>5, <1>6, <3>3, TurnStep
  <2> QED
    BY <1>9, <2>4, <2>5
<1> QED
  BY <1>2, <1>7, <1>8, <1>9 DEF IInv, OutputOk

LEMMA TurnOthers ==
    ASSUME IInv, TurnInv, NEW c \in Conns,
           Peer(c) \/ ReadEvent(c) \/ DeferredRead(c) \/ ErrorEvent(c)
    PROVE  TurnInv'
<1>1. got' = got /\ UNCHANGED <<svr, curReq>>
  BY DEF Peer, Accept, PeerSend, PeerCloses, ReadEvent, DeferredRead, ErrorEvent, server, output
<1>2. CASE PeerSend(c) \/ PeerCloses(c) \/ ReadEvent(c) \/ DeferredRead(c)
  <2>1. UNCHANGED <<state, nth, readcb, cb, out>>
    BY <1>2 DEF PeerSend, PeerCloses, ReadEvent, DeferredRead, request, bev, output
  <2> QED
    BY <1>1, <2>1, TurnSame DEF TurnInv, PresentedInv, Live
<1>3. CASE ErrorEvent(c)
  <2>1. state'[c] = "freed" /\ UNCHANGED <<nth, readcb, cb>>
    BY <1>3 DEF ErrorEvent, FreeCon, Enter, IInv, ConOk, request, bev
  <2>2. \A d \in Conns \ {c} : state'[d] = state[d] /\ out'[d] = out[d]
    BY <1>3 DEF ErrorEvent, FreeCon, Enter, IInv, ConOk, OutputOk
  <2>3. TurnOk(c)' /\ PresentedInv'
    BY <1>1, <2>1, TurnSame DEF TurnInv, PresentedInv
  <2> QED
    BY <1>1, <2>1, <2>2, <2>3, TurnStep
<1>4. ASSUME NEW sq \in Streams[c], Accept(c, sq) PROVE TurnInv'
  <2>1. Idle /\ svr = "alive" /\ state[c] = "none" /\ UNCHANGED <<out, cb>>
    BY <1>4 DEF Accept, output
  <2>2. got[c] = <<>> /\ out[c] = <<>> /\ nth[c] = 0
    BY <2>1 DEF TurnInv, TurnOk
  <2>3. nth'[c] = 1 /\ nth'[c] - 1 = 0 /\ readcb'[c] = "yes" /\ state'[c] = "firstline"
    BY <1>4, <2>2 DEF Accept, NewRequest, StartRead, Enter, IInv, ConOk, Flag
  <2>4. OnlyContinue(<<>>)
    BY EmptySeq DEF OnlyContinue
  <2>5. TurnOk(c)'
    BY <1>1, <2>1, <2>2, <2>3, <2>4, NothingInOrder DEF TurnOk, Live
  <2>6. \A d \in Conns \ {c} : state'[d] = state[d] /\ nth'[d] = nth[d] /\ readcb'[d] = readcb[d]
    BY <1>4 DEF Accept, NewRequest, StartRead, Enter, IInv, ConOk, Flag
  <2>7. PresentedInv'
    BY <1>1, <2>1 DEF PresentedInv, IInv, CallsInv, Running, Idle
  <2> QED
    BY <1>1, <2>1, <2>5, <2>6, <2>7, TurnStep
<1> QED
  BY <1>2, <1>3, <1>4 DEF Peer

\* The k-th answer a peer receives is the answer to its k-th request, unless the
\* program answers one itself, behind the back of the server.
THEOREM TurnsCorrect == Spec => []AnswersInTurn
<1>1. Init => TurnsInv
  <2> SUFFICES ASSUME Init PROVE TurnInv
    BY DEF TurnsInv
  <2>1. \A c \in Conns : got[c] = <<>> /\ out[c] = <<>> /\ nth[c] = 0 /\ state[c] = "none"
    BY DEF Init
  <2>2. curReq = NoReq
    BY DEF Init
  <2> QED
    BY <2>1, <2>2, NothingInOrder DEF TurnInv, TurnOk, PresentedInv, Live
<1>2. IInv /\ TurnsInv /\ [Next]_svrVars => TurnsInv'
  <2> SUFFICES ASSUME IInv, TurnsInv, [Next]_svrVars, "Reply" \notin does' PROVE TurnInv'
    BY DEF TurnsInv
  <2>1. CASE UNCHANGED svrVars
    BY <2>1 DEF svrVars, TurnsInv, TurnInv, TurnOk, PresentedInv, Live
  <2>2. CASE Next
    <3>1. does' = does
      BY <2>2, WriteFacts DEF Next, Peer, Accept, PeerSend, PeerCloses, Event, ReadEvent,
         DeferredRead,
         ErrorEvent, ReadStep, ReadMore, ReadFirstLine, ReadBad, ReadHeadersBody, ReadHeadersExpect,
         ReadLastChunk, ReadRefused, RevRequestCB, Program, UserSend, UserReply, UserDelete,
         RevReturn, RevReturnFreed, server
    <3>2. TurnInv /\ "Reply" \notin does
      BY <3>1 DEF TurnsInv
    <3> QED
      BY <2>2, <3>2, TurnOthers, TurnWrite, TurnRead, TurnProgram DEF Next, Event
  <2> QED
    BY <2>1, <2>2
<1>3. TurnsInv => AnswersInTurn
  BY DEF TurnsInv, TurnInv, TurnOk, InOrder, AnswersInTurn, AnsweredOnce, Received
<1> QED
  BY <1>1, <1>2, <1>3, InvCorrect, PTL DEF Spec
=============================================================================
